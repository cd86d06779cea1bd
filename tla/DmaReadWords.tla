---------------------------- MODULE DmaReadWords ----------------------------
(***************************************************************************)
(* The words that the DMA read engine hands over, for every number of      *)
(* tags, burst and page size, depth of the queues and requests that        *)
(* ReadAssumption allows: DmaRead implements OrderedRead.  What a state    *)
(* owes to the past is the record Told of DmaReadProofs; here are the      *)
(* steps from the root complex to the user, and the theorems.              *)
(***************************************************************************)
EXTENDS DmaReadProofs

(* Where the beats of the pieces and words to come are in tlpQ.            *)
LEMMA LinkPlaces ==
  ASSUME ReadInv, NEW g \in Ghost, Told(g)
  PROVE  /\ Len(tlpQ) \in Nat
         /\ \A m \in 1 .. Len(g.pieces) : m > Headed(g) =>
              /\ g.pieces[m].start >= Got(g) + completionRecv.words
              /\ (g.pieces[m].start + m) - (Got(g) + Headed(g)) \in 1 .. Len(tlpQ)
         /\ \A k \in 1 .. Len(g.words) : k > Got(g) =>
              /\ g.words[k].piece >= Headed(g)
              /\ (k + g.words[k].piece) - (Got(g) + Headed(g)) \in 1 .. Len(tlpQ)
<1> DEFINE P == g.pieces
           W == g.words
           lp == Len(P)
           lw == Len(W)
           lq == Len(tlpQ)
           got == Got(g)
           hd == Headed(g)
           cw == completionRecv.words
<1>1. lq \in Nat /\ cw \in Nat
  BY LenProperties DEF ReadInv, LinkTypeOK
<1>2. lp \in Nat /\ lw \in Nat /\ got \in Nat /\ hd \in Nat /\ hd <= lp /\ got <= lw
  BY Waits
<1>3. /\ got + cw = End(P, hd) /\ lq + got + hd = lw + lp
      /\ cw > 0 => cw <= P[hd].words
  BY DEF Told, Linked
<1>4. Answered(g)
  BY DEF Told
<1>5. \A m \in 1 .. lp : /\ P[m].start = End(P, m - 1) /\ P[m].start \in Nat /\ P[m].words \in Nat /\ P[m].words > 0
                         /\ End(P, m) = P[m].start + P[m].words
                         /\ End(P, m) <= lw
  BY <1>4, PieceEnds, Entries
<1>6. \A i \in 0 .. lp : End(P, i) \in 0 .. lw
  BY <1>4, PieceEnds
<1>7. \A i, j \in 0 .. lp : i <= j => End(P, i) <= End(P, j)
  BY <1>4, PieceEnds
<1> HIDE DEF P, W, lp, lw, lq, got, hd, cw
<1>8. ASSUME NEW m \in 1 .. lp, m > hd
      PROVE  P[m].start >= got + cw /\ (P[m].start + m) - (got + hd) \in 1 .. lq
  <2>1. m - 1 \in 0 .. lp /\ hd \in 0 .. lp /\ hd <= m - 1
    BY <1>2, <1>8
  <2>2. P[m].start = End(P, m - 1) /\ End(P, hd) <= End(P, m - 1) /\ End(P, m - 1) \in 0 .. lw
    BY <1>5, <1>6, <1>7, <2>1
  <2> DEFINE s == P[m].start
  <2>3. s \in Nat /\ s <= lw /\ s >= got + cw
    <3>1. End(P, hd) \in 0 .. lw /\ got + cw = End(P, hd)
      BY <1>3, <1>6, <2>1
    <3> QED  BY <1>1, <1>2, <2>2, <3>1
  <2> HIDE DEF s
  <2>4. lq + got + hd = lw + lp
    BY <1>3
  <2>5. (s + m) - (got + hd) \in 1 .. lq
    BY <1>1, <1>2, <1>8, <2>3, <2>4
  <2> QED  BY <2>3, <2>5 DEF s
<1>9. ASSUME NEW k \in 1 .. lw, k > got
      PROVE  W[k].piece >= hd /\ (k + W[k].piece) - (got + hd) \in 1 .. lq
  <2> DEFINE m == W[k].piece
  <2>1. m \in 1 .. lp /\ P[m].start < k /\ k <= End(P, m)
    BY <1>4 DEF Answered, P, W, lp, lw
  <2> HIDE DEF m
  <2>2. m >= hd
    <3> SUFFICES ASSUME m < hd PROVE FALSE
      BY <1>2, <2>1
    <3>1. hd \in 1 .. lp /\ m <= hd - 1 /\ hd - 1 \in 0 .. lp /\ m \in 0 .. lp
      BY <1>2, <2>1
    <3>2. End(P, m) <= P[hd].start
      <4>1. End(P, m) <= End(P, hd - 1)
        BY <1>7, <3>1
      <4> QED  BY <1>5, <3>1, <4>1
    <3>3. P[hd].start <= got
      <4> DEFINE s == P[hd].start
                 w == P[hd].words
      <4>1. s \in Nat /\ w \in Nat /\ got + cw = s + w /\ (cw > 0 => cw <= w)
        BY <1>3, <1>5, <3>1
      <4> HIDE DEF s, w
      <4>2. s <= got
        BY <1>1, <1>2, <4>1
      <4> QED  BY <4>2 DEF s
    <3>4. P[hd].start \in Nat /\ End(P, m) \in Nat
      BY <1>5, <1>6, <3>1
    <3> QED  BY <1>2, <1>9, <2>1, <3>2, <3>3, <3>4
  <2>3. lq + got + hd = lw + lp
    BY <1>3
  <2>4. (k + m) - (got + hd) \in 1 .. lq
    BY <1>1, <1>2, <1>9, <2>1, <2>2, <2>3
  <2> QED  BY <2>2, <2>4 DEF m
<1> QED  BY <1>1, <1>8, <1>9 DEF P, W, lp, lw, lq, got, hd, cw

(* A complete burst passes through doneShifter and turns its bit.          *)
LEMMA ApplyDoneMapTold ==
  ASSUME ReadInv, NEW g \in Ghost, Told(g), applyDoneMap
  PROVE  \E h \in Ghost : Told(h)'
<1>1. AskTypeOK /\ LinkTypeOK /\ JoinTypeOK /\ OrderTypeOK
  BY DEF ReadInv, JoinInv
<1> DEFINE n == Len(readDoneTagQ)
           m == Len(doneShifter)
<1>2. PICK x : x = readDoneTagQ[1]
  OBVIOUS
<1>3. PICK t : t = x.tag
  OBVIOUS
<1>4. /\ n \in Nat \ {0} /\ Len(readDoneTagQ') = n - 1 /\ Head(readDoneTagQ) = x
      /\ \A k \in 1 .. n - 1 : readDoneTagQ'[k] = readDoneTagQ[k + 1]
      /\ x \in [tag : Tags, words : Lengths]
  BY <1>1, <1>2, TakenOut DEF OrderTypeOK, applyDoneMap
<1>5. t \in Tags
  BY <1>3, <1>4
<1>6. doneMap' = [doneMap EXCEPT ![t] = x.words] /\ doneShifter' = Append(doneShifter, t)
  BY <1>3, <1>4 DEF applyDoneMap
<1>7. /\ m \in Nat /\ Len(doneShifter') = m + 1 /\ doneShifter'[m + 1] = t
      /\ \A k \in 1 .. m : doneShifter'[k] = doneShifter[k]
  BY <1>1, <1>5, <1>6, PutIn DEF OrderTypeOK
<1>8. /\ \A u \in Tags :
             /\ g.stage[u] # "idle" => g.turned < g.cur[u] /\ g.cur[u] <= g.sent
             /\ Ready(u) <=> g.stage[u] = "ready"
             /\ g.cur[u] > g.flushed => tagMap[u].req = Mine(g, u).words
             /\ g.cur[u] > g.sent => g.recv[u] = 0 /\ tagMap[u].done = 0
             /\ \/ g.stage[u] \in {"passing", "ready"}
                \/ g.read < g.cur[u] /\ g.cur[u] <= g.turned
                => doneMap[u] = Mine(g, u).words
      /\ \A k \in 1 .. n :
             /\ g.stage[readDoneTagQ[k].tag] = "done"
             /\ readDoneTagQ[k].words = Mine(g, readDoneTagQ[k].tag).words
      /\ \A j, k \in 1 .. n : readDoneTagQ[j].tag = readDoneTagQ[k].tag => j = k
      /\ \A k \in 1 .. m : g.stage[doneShifter[k]] = "passing"
      /\ \A j, k \in 1 .. m : doneShifter[j] = doneShifter[k] => j = k
  BY DEF Told, Staged
<1> HIDE DEF n, m
<1>9. g.stage[t] = "done" /\ x.words = Mine(g, t).words /\ 1 \in 1 .. n
  BY <1>2, <1>3, <1>4, <1>8
<1> DEFINE stage == [g.stage EXCEPT ![t] = "passing"]
           h == [g EXCEPT !.stage = stage]
<1>10. /\ stage \in [Tags -> Stages] /\ stage[t] = "passing"
       /\ \A u \in Tags : u # t => stage[u] = g.stage[u]
  BY <1>5, GhostTypes DEF Stages
<1> HIDE DEF stage
<1>11. /\ h \in Ghost /\ h.asks = g.asks /\ h.taken = g.taken /\ h.bursts = g.bursts /\ h.cur = g.cur
       /\ h.sent = g.sent /\ h.turned = g.turned /\ h.read = g.read /\ h.flushed = g.flushed
       /\ h.stage = stage /\ h.recv = g.recv /\ h.pieces = g.pieces /\ h.joined = g.joined
       /\ h.words = g.words /\ h.written = g.written
  BY <1>10 DEF Ghost
<1> HIDE DEF h
<1>12. UNCHANGED <<askVars, splitVars, linkVars, joinVars, doneTagMap, orderVars,
                   outVars, freeReadTagQ, freeReadTagFQ, tagMap, dmaReadTagOrderQ>>
  BY DEF applyDoneMap
<1>13. Staged(h)'
  <2>1. UNCHANGED <<orderTagMap, doneTagMap, tagMap>>
    BY <1>12 DEF orderVars
  <2>2. ASSUME NEW u \in Tags
        PROVE  /\ stage[u] # "idle" => g.turned < g.cur[u] /\ g.cur[u] <= g.sent
               /\ Ready(u)' <=> stage[u] = "ready"
               /\ \/ stage[u] \in {"passing", "ready"}
                  \/ g.read < g.cur[u] /\ g.cur[u] <= g.turned
                  => doneMap'[u] = Mine(g, u).words
    <3>0. Ready(u)' <=> Ready(u)
      BY <2>1 DEF Ready
    <3>1. CASE u = t
      <4>1. doneMap'[u] = Mine(g, u).words
        BY <1>1, <1>5, <1>6, <1>9, <3>1 DEF OrderTypeOK
      <4> QED  BY <1>8, <1>9, <1>10, <3>0, <3>1, <4>1
    <3>2. CASE u # t
      <4>1. doneMap'[u] = doneMap[u]
        BY <1>1, <1>5, <1>6, <3>2 DEF OrderTypeOK
      <4> QED  BY <1>8, <1>10, <3>0, <3>2, <4>1
    <3> QED  BY <3>1, <3>2
  <2>3. /\ n - 1 \in Nat /\ \A k \in 1 .. n - 1 : k + 1 \in 1 .. n /\ k + 1 # 1 /\ k \in Nat
    BY <1>4
  <2>4. \A k \in 1 .. n - 1 :
          /\ stage[readDoneTagQ'[k].tag] = "done"
          /\ readDoneTagQ'[k].words = Mine(g, readDoneTagQ'[k].tag).words
    <3> TAKE k \in 1 .. n - 1
    <3>1. readDoneTagQ'[k] = readDoneTagQ[k + 1] /\ k + 1 \in 1 .. n /\ k + 1 # 1
      BY <1>4, <2>3
    <3>2. readDoneTagQ[k + 1].tag # t
      BY <1>2, <1>3, <1>8, <1>9, <3>1
    <3>3. readDoneTagQ[k + 1].tag \in Tags
      <4>1. readDoneTagQ[k + 1] \in [tag : Tags, words : Lengths]
        BY <1>1, <3>1, ElementOfSeq DEF OrderTypeOK, n
      <4> QED  BY <4>1
    <3> QED  BY <1>8, <1>10, <3>1, <3>2, <3>3
  <2>5. \A j, k \in 1 .. n - 1 : readDoneTagQ'[j].tag = readDoneTagQ'[k].tag => j = k
    <3> SUFFICES ASSUME NEW j \in 1 .. n - 1, NEW k \in 1 .. n - 1, readDoneTagQ'[j].tag = readDoneTagQ'[k].tag
                 PROVE  j = k
      OBVIOUS
    <3>1. j + 1 = k + 1
      BY <1>4, <1>8, <2>3, SMTT(40)
    <3> QED  BY <2>3, <3>1
  <2>6. ASSUME NEW k \in 1 .. m PROVE doneShifter[k] # t /\ doneShifter[k] \in Tags
    <3>1. doneShifter[k] \in Tags
      BY <1>1, ElementOfSeq DEF OrderTypeOK, m
    <3> QED  BY <1>8, <1>9, <3>1
  <2>7. \A k \in 1 .. m + 1 : k \in 1 .. m \/ k = m + 1
    BY <1>7
  <2>8. \A k \in 1 .. m + 1 : stage[doneShifter'[k]] = "passing"
    BY <1>7, <1>8, <1>10, <2>6, <2>7
  <2>9. \A j, k \in 1 .. m + 1 : doneShifter'[j] = doneShifter'[k] => j = k
    BY <1>7, <1>8, <2>6, <2>7
  <2>10. Len(readDoneTagQ') = n - 1 /\ Len(doneShifter') = m + 1
    BY <1>4, <1>7
  <2> QED  BY <1>8, <1>11, <2>1, <2>2, <2>4, <2>5, <2>8, <2>9, <2>10 DEF Staged, Mine
<1>14. \A u \in Tags : /\ stage[u] = "wait" <=> g.stage[u] = "wait"
                       /\ stage[u] \in {"done", "passing", "ready"} =>
                            g.stage[u] \in {"done", "passing", "ready"}
  BY <1>9, <1>10
<1>15. Told(h)'
  BY <1>1, <1>11, <1>12, <1>13, <1>14, CutFrame, InOrderFrame, PagedFrame, OwnedFrame, ReadingFrame,
     AnsweredFrame, LinkedFrame, JoiningFrame, ComingFrame, KeptFrame, FlushedFrame
  DEF Told, askVars, splitVars, linkVars, joinVars, orderVars, outVars
<1> QED  BY <1>11, <1>15

(* The bit of a burst that has passed turns: the burst is ready.           *)
LEMMA ProcDoneShiftTold ==
  ASSUME ReadInv, NEW g \in Ghost, Told(g), procDoneShift
  PROVE  \E h \in Ghost : Told(h)'
<1>1. AskTypeOK /\ LinkTypeOK /\ JoinTypeOK /\ OrderTypeOK
  BY DEF ReadInv, JoinInv
<1> DEFINE m == Len(doneShifter)
<1>2. PICK t : t = doneShifter[1]
  OBVIOUS
<1>4. /\ m \in Nat \ {0} /\ Len(doneShifter') = m - 1 /\ Head(doneShifter) = t
      /\ \A k \in 1 .. m - 1 : doneShifter'[k] = doneShifter[k + 1]
      /\ t \in Tags
  BY <1>1, <1>2, TakenOut DEF OrderTypeOK, procDoneShift
<1>6. doneTagMap' = [doneTagMap EXCEPT ![t] = ~doneTagMap[t]]
  BY <1>4 DEF procDoneShift
<1>8. /\ \A u \in Tags :
             /\ g.stage[u] # "idle" => g.turned < g.cur[u] /\ g.cur[u] <= g.sent
             /\ Ready(u) <=> g.stage[u] = "ready"
             /\ g.cur[u] > g.flushed => tagMap[u].req = Mine(g, u).words
             /\ g.cur[u] > g.sent => g.recv[u] = 0 /\ tagMap[u].done = 0
             /\ \/ g.stage[u] \in {"passing", "ready"}
                \/ g.read < g.cur[u] /\ g.cur[u] <= g.turned
                => doneMap[u] = Mine(g, u).words
      /\ \A k \in 1 .. Len(readDoneTagQ) :
             /\ g.stage[readDoneTagQ[k].tag] = "done"
             /\ readDoneTagQ[k].words = Mine(g, readDoneTagQ[k].tag).words
      /\ \A j, k \in 1 .. Len(readDoneTagQ) : readDoneTagQ[j].tag = readDoneTagQ[k].tag => j = k
      /\ \A k \in 1 .. m : g.stage[doneShifter[k]] = "passing"
      /\ \A j, k \in 1 .. m : doneShifter[j] = doneShifter[k] => j = k
  BY DEF Told, Staged
<1> HIDE DEF m
<1>9. g.stage[t] = "passing" /\ 1 \in 1 .. m
  BY <1>2, <1>4, <1>8
<1> DEFINE stage == [g.stage EXCEPT ![t] = "ready"]
           h == [g EXCEPT !.stage = stage]
<1>10. /\ stage \in [Tags -> Stages] /\ stage[t] = "ready"
       /\ \A u \in Tags : u # t => stage[u] = g.stage[u]
  BY <1>4, GhostTypes DEF Stages
<1> HIDE DEF stage
<1>11. /\ h \in Ghost /\ h.asks = g.asks /\ h.taken = g.taken /\ h.bursts = g.bursts /\ h.cur = g.cur
       /\ h.sent = g.sent /\ h.turned = g.turned /\ h.read = g.read /\ h.flushed = g.flushed
       /\ h.stage = stage /\ h.recv = g.recv /\ h.pieces = g.pieces /\ h.joined = g.joined
       /\ h.words = g.words /\ h.written = g.written
  BY <1>10 DEF Ghost
<1> HIDE DEF h
<1>12. UNCHANGED <<askVars, splitVars, linkVars, joinVars, readDoneTagQ, doneMap, orderVars,
                   outVars, freeReadTagQ, freeReadTagFQ, tagMap, dmaReadTagOrderQ>>
  BY DEF procDoneShift
<1>13. Staged(h)'
  <2>1. UNCHANGED <<orderTagMap, doneMap, tagMap, readDoneTagQ>>
    BY <1>12 DEF orderVars
  <2>2. ASSUME NEW u \in Tags
        PROVE  /\ stage[u] # "idle" => g.turned < g.cur[u] /\ g.cur[u] <= g.sent
               /\ Ready(u)' <=> stage[u] = "ready"
               /\ stage[u] \in {"passing", "ready"} => g.stage[u] \in {"passing", "ready"}
    <3>1. CASE u = t
      <4>1. orderTagMap[t] \in BOOLEAN /\ doneTagMap[t] \in BOOLEAN /\ doneTagMap'[t] = ~doneTagMap[t]
        BY <1>1, <1>4, <1>6 DEF OrderTypeOK
      <4>2. ~Ready(t)
        BY <1>4, <1>8, <1>9
      <4>3. Ready(t)'
        BY <2>1, <4>1, <4>2 DEF Ready
      <4> QED  BY <1>8, <1>9, <1>10, <3>1, <4>3
    <3>2. CASE u # t
      <4>1. doneTagMap'[u] = doneTagMap[u]
        BY <1>1, <1>4, <1>6, <3>2 DEF OrderTypeOK
      <4>2. Ready(u)' <=> Ready(u)
        BY <2>1, <4>1 DEF Ready
      <4> QED  BY <1>8, <1>10, <3>2, <4>2
    <3> QED  BY <3>1, <3>2
  <2>3. \A k \in 1 .. m - 1 : k + 1 \in 1 .. m /\ k + 1 # 1 /\ k \in Nat
    BY <1>4
  <2>4. \A k \in 1 .. Len(readDoneTagQ) : stage[readDoneTagQ[k].tag] = "done"
    <3> TAKE k \in 1 .. Len(readDoneTagQ)
    <3>3. readDoneTagQ[k] \in [tag : Tags, words : Lengths]
      BY <1>1, ElementOfSeq DEF OrderTypeOK
    <3> QED  BY <1>8, <1>9, <1>10, <3>3
  <2>5. \A j, k \in 1 .. m - 1 : doneShifter'[j] = doneShifter'[k] => j = k
    <3> SUFFICES ASSUME NEW j \in 1 .. m - 1, NEW k \in 1 .. m - 1, doneShifter'[j] = doneShifter'[k]
                 PROVE  j = k
      OBVIOUS
    <3>1. j + 1 = k + 1
      BY <1>4, <1>8, <2>3
    <3> QED  BY <2>3, <3>1
  <2>6. \A k \in 1 .. m - 1 : stage[doneShifter'[k]] = "passing"
    <3> TAKE k \in 1 .. m - 1
    <3>1. doneShifter'[k] = doneShifter[k + 1] /\ k + 1 \in 1 .. m /\ k + 1 # 1
      BY <1>4, <2>3
    <3>2. doneShifter[k + 1] # t
      BY <1>2, <1>8, <1>9, <3>1
    <3>3. doneShifter[k + 1] \in Tags
      BY <1>1, <3>1, ElementOfSeq DEF OrderTypeOK, m
    <3> QED  BY <1>8, <1>10, <3>1, <3>2, <3>3
  <2>10. Len(doneShifter') = m - 1
    BY <1>4
  <2> QED  BY <1>8, <1>11, <2>1, <2>2, <2>4, <2>5, <2>6, <2>10 DEF Staged, Mine
<1>14. \A u \in Tags : /\ stage[u] = "wait" <=> g.stage[u] = "wait"
                       /\ stage[u] \in {"done", "passing", "ready"} =>
                            g.stage[u] \in {"done", "passing", "ready"}
  BY <1>9, <1>10
<1>15. Told(h)'
  BY <1>1, <1>11, <1>12, <1>13, <1>14, CutFrame, InOrderFrame, PagedFrame, OwnedFrame, ReadingFrame,
     AnsweredFrame, LinkedFrame, JoiningFrame, ComingFrame, KeptFrame, FlushedFrame
  DEF Told, askVars, splitVars, linkVars, joinVars, orderVars, outVars
<1> QED  BY <1>11, <1>15

(* The burst whose turn has come is the first in orderShifter.             *)
LEMMA CompareOrderTold ==
  ASSUME ReadInv, NEW g \in Ghost, Told(g), compareOrder
  PROVE  \E h \in Ghost : Told(h)'
<1>1. AskTypeOK /\ LinkTypeOK /\ JoinTypeOK /\ OrderTypeOK
  BY DEF ReadInv, JoinInv
<1> DEFINE B == g.bursts
           y == Len(orderShifter)
           z == Len(doneReorderedTagQ)
           i0 == g.turned + 1
<1>2. PICK t : t = orderShifter[1]
  OBVIOUS
<1>3. y \in Nat \ {0} /\ Head(orderShifter) = t /\ t \in Tags /\ z \in Nat
  BY <1>1, <1>2, TakenOut, LenProperties DEF OrderTypeOK, compareOrder
<1>4. t = IF curOrderTag # NoTag THEN curOrderTag ELSE Head(orderShifter)
  BY <1>3 DEF Told, InOrder
<1>5. UNCHANGED <<askVars, splitVars, linkVars, joinVars, doneVars, orderedReadDoneTagQ,
                  outVars, freeReadTagQ, freeReadTagFQ, tagMap, dmaReadTagOrderQ>>
  BY DEF compareOrder
<1>6. CASE /\ curOrderTag' = t
           /\ UNCHANGED <<orderTagMap, doneReorderedTagQ, orderShifter>>
  <2>1. InOrder(g)'
    BY <1>3, <1>5, <1>6 DEF Told, InOrder
  <2>2. Told(g)'
    BY <1>1, <1>5, <1>6, <2>1, CutFrame, PagedFrame, OwnedFrame, StagedFrame, ReadingFrame,
       AnsweredFrame, LinkedFrame, JoiningFrame, ComingFrame, KeptFrame, FlushedFrame
    DEF Told, askVars, splitVars, linkVars, joinVars, doneVars, outVars
  <2> QED  BY <2>2
<1>7. CASE /\ Ready(t)
           /\ orderTagMap' = [orderTagMap EXCEPT ![t] = ~orderTagMap[t]]
           /\ curOrderTag' = NoTag
           /\ doneReorderedTagQ' = Append(doneReorderedTagQ, t)
           /\ orderShifter' = Tail(orderShifter)
  <2>1. /\ Len(orderShifter') = y - 1
        /\ \A k \in 1 .. y - 1 : orderShifter'[k] = orderShifter[k + 1]
    <3>1. orderShifter \in Seq(Tags) /\ orderShifter # <<>>
      BY <1>1 DEF OrderTypeOK, compareOrder
    <3> QED  BY <1>7, <3>1, TakenOut
  <2>2. /\ Len(doneReorderedTagQ') = z + 1 /\ doneReorderedTagQ'[z + 1] = t
        /\ \A k \in 1 .. z : doneReorderedTagQ'[k] = doneReorderedTagQ[k]
    BY <1>1, <1>3, <1>7, PutIn DEF OrderTypeOK
  <2>3. /\ g.turned \in Nat /\ g.read \in Nat /\ g.sent \in Nat /\ g.flushed \in Nat /\ Len(B) \in Nat
        /\ g.flushed <= g.read /\ g.read <= g.turned /\ g.turned <= g.sent /\ g.sent <= Len(B)
    BY Bounds, GhostTypes
  <2> DEFINE w == Len(dmaReadTagOrderQ)
  <2>4. /\ g.turned = g.read + z /\ g.sent = g.turned + y + w /\ w \in Nat
        /\ \A k \in 1 .. z : doneReorderedTagQ[k] = B[g.read + k].tag
        /\ \A k \in 1 .. y : orderShifter[k] = B[g.turned + k].tag
        /\ \A k \in 1 .. w : dmaReadTagOrderQ[k] = B[g.turned + y + k].tag
    BY <1>1, LenProperties DEF OrderTypeOK, Told, InOrder
  <2> HIDE DEF y, z, w
  <2>5. t = B[i0].tag
    <3>1. 1 \in 1 .. y
      BY <1>3
    <3> QED  BY <1>2, <2>4, <3>1
  <2>6. i0 \in 1 .. Len(B) /\ i0 > g.flushed /\ i0 \in Nat /\ i0 <= g.sent
    <3>1. g.sent = g.turned + y + w /\ y \in Nat \ {0} /\ w \in Nat
      BY <1>3, <2>4
    <3>2. i0 <= g.sent /\ i0 \in Nat /\ i0 > g.turned
      BY <2>3, <3>1, SMTT(40)
    <3> HIDE DEF i0
    <3>3. i0 > g.flushed /\ i0 > 0
      BY <2>3, <3>2
    <3>4. i0 <= Len(B)
      BY <2>3, <3>2
    <3> QED  BY <2>3, <3>2, <3>3, <3>4
  <2>7. g.cur[t] = i0
    BY <2>5, <2>6 DEF Told, Owned
  <2>8. \A u \in Tags : u # t => g.cur[u] # i0
    <3> SUFFICES ASSUME NEW u \in Tags, g.cur[u] = i0 PROVE u = t
      OBVIOUS
    <3>1. g.cur[u] > 0
      BY <2>6
    <3>2. Mine(g, u).tag = u
      BY <3>1 DEF Told, Owned
    <3> QED  BY <2>5, <3>2 DEF Mine
  <2>9. \A u \in Tags :
             /\ g.stage[u] # "idle" => g.turned < g.cur[u] /\ g.cur[u] <= g.sent
             /\ Ready(u) <=> g.stage[u] = "ready"
             /\ g.cur[u] > g.flushed => tagMap[u].req = Mine(g, u).words
             /\ g.cur[u] > g.sent => g.recv[u] = 0 /\ tagMap[u].done = 0
             /\ \/ g.stage[u] \in {"passing", "ready"}
                \/ g.read < g.cur[u] /\ g.cur[u] <= g.turned
                => doneMap[u] = Mine(g, u).words
    BY DEF Told, Staged
  <2>10. g.stage[t] = "ready"
    BY <1>3, <1>7, <2>9
  <2> DEFINE stage == [g.stage EXCEPT ![t] = "idle"]
             h == [g EXCEPT !.turned = i0, !.stage = stage]
  <2>11. /\ stage \in [Tags -> Stages] /\ stage[t] = "idle"
         /\ \A u \in Tags : u # t => stage[u] = g.stage[u]
    BY <1>3, GhostTypes DEF Stages
  <2> HIDE DEF stage, i0
  <2>12. /\ h \in Ghost /\ h.asks = g.asks /\ h.taken = g.taken /\ h.bursts = g.bursts /\ h.cur = g.cur
         /\ h.sent = g.sent /\ h.turned = i0 /\ h.read = g.read /\ h.flushed = g.flushed
         /\ h.stage = stage /\ h.recv = g.recv /\ h.pieces = g.pieces /\ h.joined = g.joined
         /\ h.words = g.words /\ h.written = g.written
    BY <2>6, <2>11 DEF Ghost
  <2> HIDE DEF h
  <2>13. InOrder(h)'
    <3>1. i0 = g.read + (z + 1) /\ g.sent = i0 + (y - 1) + w
      <4>1. g.turned = g.read + z /\ g.sent = g.turned + y + w /\ w \in Nat /\ z \in Nat /\ y \in Nat \ {0}
        BY <1>3, <2>4
      <4> QED  BY <2>3, <4>1, SMTT(40) DEF i0
    <3>2. \A k \in 1 .. z + 1 : doneReorderedTagQ'[k] = B[g.read + k].tag
      <4> TAKE k \in 1 .. z + 1
      <4>1. CASE k \in 1 .. z
        BY <2>2, <2>4, <4>1
      <4>2. CASE k = z + 1
        BY <2>2, <2>5, <3>1, <4>2
      <4> QED  BY <1>3, <4>1, <4>2
    <3>3. \A k \in 1 .. y - 1 : orderShifter'[k] = B[i0 + k].tag
      <4> TAKE k \in 1 .. y - 1
      <4>1. k + 1 \in 1 .. y /\ g.turned + (k + 1) = i0 + k
        BY <1>3, <2>3, SMTT(40) DEF i0
      <4> QED  BY <2>1, <2>4, <4>1
    <3>4. \A k \in 1 .. w : dmaReadTagOrderQ[k] = B[i0 + (y - 1) + k].tag
      <4> TAKE k \in 1 .. w
      <4>1. w \in Nat
        BY <2>4
      <4>2. g.turned + y + k = i0 + (y - 1) + k
        BY <1>3, <2>3, <4>1 DEF i0
      <4> QED  BY <2>4, <4>2
    <3>5. /\ Len(orderShifter') = y - 1 /\ Len(doneReorderedTagQ') = z + 1
          /\ orderedReadDoneTagQ' = orderedReadDoneTagQ /\ dmaReadTagOrderQ' = dmaReadTagOrderQ
          /\ curOrderTag' = NoTag
      BY <1>5, <1>7, <2>1, <2>2
    <3>6. /\ g.read = g.flushed + Len(orderedReadDoneTagQ)
          /\ \A k \in 1 .. Len(orderedReadDoneTagQ) :
              /\ orderedReadDoneTagQ[k].tag = B[g.flushed + k].tag
              /\ orderedReadDoneTagQ[k].words = B[g.flushed + k].words
      BY DEF Told, InOrder
    <3> HIDE DEF B
    <3> QED  BY <2>12, <3>1, <3>2, <3>3, <3>4, <3>5, <3>6 DEF InOrder, w, B
  <2>14. Staged(h)'
    <3>1. UNCHANGED <<doneTagMap, tagMap, doneMap, readDoneTagQ, doneShifter>>
      BY <1>5 DEF doneVars
    <3>2. ASSUME NEW u \in Tags
          PROVE  /\ stage[u] # "idle" => i0 < g.cur[u] /\ g.cur[u] <= g.sent
                 /\ Ready(u)' <=> stage[u] = "ready"
                 /\ \/ stage[u] \in {"passing", "ready"}
                    \/ g.read < g.cur[u] /\ g.cur[u] <= i0
                    => \/ g.stage[u] \in {"passing", "ready"}
                       \/ g.read < g.cur[u] /\ g.cur[u] <= g.turned
      <4>1. CASE u = t
        <5>1. orderTagMap[t] \in BOOLEAN /\ doneTagMap[t] \in BOOLEAN /\ orderTagMap'[t] = ~orderTagMap[t]
          BY <1>1, <1>3, <1>7 DEF OrderTypeOK
        <5>2. ~Ready(t)'
          BY <1>7, <3>1, <5>1 DEF Ready
        <5> QED  BY <2>10, <2>11, <4>1, <5>2
      <4>2. CASE u # t
        <5>1. orderTagMap'[u] = orderTagMap[u]
          BY <1>1, <1>3, <1>7, <4>2 DEF OrderTypeOK
        <5>2. Ready(u)' <=> Ready(u)
          BY <3>1, <5>1 DEF Ready
        <5>3. g.cur[u] \in Nat /\ g.cur[u] # i0
          BY <2>8, <4>2, GhostTypes
        <5>4. (g.turned < g.cur[u] => i0 < g.cur[u]) /\ (g.cur[u] <= i0 => g.cur[u] <= g.turned)
          BY <2>3, <5>3 DEF i0
        <5> QED  BY <2>9, <2>11, <4>2, <5>2, <5>4
      <4> QED  BY <4>1, <4>2
    <3>3. /\ \A k \in 1 .. Len(readDoneTagQ) :
             /\ g.stage[readDoneTagQ[k].tag] = "done"
             /\ readDoneTagQ[k].words = Mine(g, readDoneTagQ[k].tag).words
          /\ \A j, k \in 1 .. Len(readDoneTagQ) : readDoneTagQ[j].tag = readDoneTagQ[k].tag => j = k
          /\ \A k \in 1 .. Len(doneShifter) : g.stage[doneShifter[k]] = "passing"
          /\ \A j, k \in 1 .. Len(doneShifter) : doneShifter[j] = doneShifter[k] => j = k
      BY DEF Told, Staged
    <3>4. \A k \in 1 .. Len(readDoneTagQ) : stage[readDoneTagQ[k].tag] = "done"
      <4> TAKE k \in 1 .. Len(readDoneTagQ)
      <4>1. readDoneTagQ[k] \in [tag : Tags, words : Lengths]
        BY <1>1, ElementOfSeq DEF OrderTypeOK
      <4>2. readDoneTagQ[k].tag \in Tags
        BY <4>1
      <4> QED  BY <2>10, <2>11, <3>3, <4>2
    <3>5. \A k \in 1 .. Len(doneShifter) : stage[doneShifter[k]] = "passing"
      <4> TAKE k \in 1 .. Len(doneShifter)
      <4>1. doneShifter[k] \in Tags
        BY <1>1, ElementOfSeq DEF OrderTypeOK
      <4> QED  BY <2>10, <2>11, <3>3, <4>1
    <3> QED  BY <2>9, <2>12, <3>1, <3>2, <3>3, <3>4, <3>5 DEF Staged, Mine
  <2>15. Kept(h)'
    <3>1. \A u \in Tags :
            /\ stage[u] = "wait" => g.stage[u] = "wait"
            /\ stage[u] \in {"done", "passing", "ready"} => g.stage[u] \in {"done", "passing", "ready"}
            /\ g.flushed < g.cur[u] /\ g.cur[u] <= i0 =>
                 \/ g.stage[u] \in {"done", "passing", "ready"}
                 \/ g.flushed < g.cur[u] /\ g.cur[u] <= g.turned
      <4> TAKE u \in Tags
      <4>1. CASE u = t
        BY <2>10, <2>11, <4>1
      <4>2. CASE u # t
        <5>1. g.cur[u] \in Nat /\ g.cur[u] # i0
          BY <2>8, <4>2, GhostTypes
        <5>2. g.cur[u] <= i0 => g.cur[u] <= g.turned
          BY <2>3, <5>1 DEF i0
        <5> QED  BY <2>11, <4>2, <5>2
      <4> QED  BY <4>1, <4>2
    <3>2. readReorder' = readReorder /\ \A u : Written(u)' = Written(u)
      BY <1>5 DEF joinVars, Written
    <3>3. \A u \in Tags :
            /\ g.stage[u] = "wait" => Holds(g, u, Written(u))
            /\ g.stage[u] \in {"done", "passing", "ready"} => Holds(g, u, Mine(g, u).words)
            /\ g.flushed < g.cur[u] /\ g.cur[u] <= g.turned => Holds(g, u, Mine(g, u).words)
      BY DEF Told, Kept
    <3> QED  BY <2>12, <3>1, <3>2, <3>3 DEF Kept, Holds, Mine
  <2>16. \A u \in Tags : stage[u] = "wait" <=> g.stage[u] = "wait"
    BY <2>10, <2>11
  <2>17. Told(h)'
    BY <1>1, <1>5, <2>12, <2>13, <2>14, <2>15, <2>16, CutFrame, PagedFrame, OwnedFrame, ReadingFrame,
       AnsweredFrame, LinkedFrame, JoiningFrame, ComingFrame, FlushedFrame
    DEF Told, askVars, splitVars, linkVars, joinVars, doneVars, outVars
  <2> QED  BY <2>12, <2>17
<1>8. \/ /\ Ready(t)
         /\ orderTagMap' = [orderTagMap EXCEPT ![t] = ~orderTagMap[t]]
         /\ curOrderTag' = NoTag
         /\ doneReorderedTagQ' = Append(doneReorderedTagQ, t)
         /\ orderShifter' = Tail(orderShifter)
      \/ /\ curOrderTag' = t
         /\ UNCHANGED <<orderTagMap, doneReorderedTagQ, orderShifter>>
  BY <1>3, <1>4 DEF compareOrder, Turned
<1> QED  BY <1>6, <1>7, <1>8

(* The length of the burst is looked up in doneMap.                        *)
LEMMA ReqDoneTagTold ==
  ASSUME ReadInv, NEW g \in Ghost, Told(g), reqDoneTag
  PROVE  \E h \in Ghost : Told(h)'
<1>1. AskTypeOK /\ LinkTypeOK /\ JoinTypeOK /\ OrderTypeOK
  BY DEF ReadInv, JoinInv
<1> DEFINE B == g.bursts
           y == Len(doneReorderedTagQ)
           z == Len(orderedReadDoneTagQ)
           i0 == g.read + 1
<1>2. PICK t : t = doneReorderedTagQ[1]
  OBVIOUS
<1>3. /\ y \in Nat \ {0} /\ Head(doneReorderedTagQ) = t /\ t \in Tags
      /\ Len(doneReorderedTagQ') = y - 1
      /\ \A k \in 1 .. y - 1 : doneReorderedTagQ'[k] = doneReorderedTagQ[k + 1]
  BY <1>1, <1>2, TakenOut DEF OrderTypeOK, reqDoneTag
<1> DEFINE x == [tag |-> t, words |-> doneMap[t]]
<1>4. x \in [tag : Tags, words : Lengths] /\ x.tag = t /\ x.words = doneMap[t]
  BY <1>1, <1>3 DEF OrderTypeOK
<1> HIDE DEF x
<1>5. /\ z \in Nat /\ Len(orderedReadDoneTagQ') = z + 1 /\ orderedReadDoneTagQ'[z + 1] = x
      /\ \A k \in 1 .. z : orderedReadDoneTagQ'[k] = orderedReadDoneTagQ[k]
  <2>1. orderedReadDoneTagQ' = Append(orderedReadDoneTagQ, x)
    BY <1>3 DEF reqDoneTag, x
  <2> QED  BY <1>1, <1>4, <2>1, PutIn DEF OrderTypeOK
<1>6. UNCHANGED <<askVars, splitVars, linkVars, joinVars, doneVars, orderTagMap,
                  orderShifter, curOrderTag, outVars, freeReadTagQ, freeReadTagFQ,
                  tagMap, dmaReadTagOrderQ>>
  BY DEF reqDoneTag
<1>7. /\ g.turned \in Nat /\ g.read \in Nat /\ g.sent \in Nat /\ g.flushed \in Nat /\ Len(B) \in Nat
      /\ g.flushed <= g.read /\ g.read <= g.turned /\ g.turned <= g.sent /\ g.sent <= Len(B)
  BY Bounds, GhostTypes
<1>8. /\ g.turned = g.read + y /\ g.read = g.flushed + z
      /\ \A k \in 1 .. y : doneReorderedTagQ[k] = B[g.read + k].tag
      /\ \A k \in 1 .. z : /\ orderedReadDoneTagQ[k].tag = B[g.flushed + k].tag
                           /\ orderedReadDoneTagQ[k].words = B[g.flushed + k].words
      /\ g.sent = g.turned + Len(orderShifter) + Len(dmaReadTagOrderQ)
      /\ \A k \in 1 .. Len(orderShifter) : orderShifter[k] = B[g.turned + k].tag
      /\ \A k \in 1 .. Len(dmaReadTagOrderQ) :
           dmaReadTagOrderQ[k] = B[g.turned + Len(orderShifter) + k].tag
      /\ curOrderTag # NoTag => orderShifter # <<>> /\ curOrderTag = Head(orderShifter)
  BY DEF Told, InOrder
<1> HIDE DEF y, z
<1>9. t = B[i0].tag
  <2>1. 1 \in 1 .. y
    BY <1>3
  <2> QED  BY <1>2, <1>8, <2>1
<1>10. i0 \in 1 .. Len(B) /\ i0 > g.flushed /\ i0 \in Nat /\ i0 <= g.turned
  <2>1. g.turned = g.read + y /\ y \in Nat \ {0}
    BY <1>3, <1>8
  <2> QED  BY <1>7, <2>1, SMTT(40)
<1>11. g.cur[t] = i0
  BY <1>9, <1>10 DEF Told, Owned
<1>12. doneMap[t] = B[i0].words
  <2>1. g.read < g.cur[t] /\ g.cur[t] <= g.turned
    BY <1>7, <1>10, <1>11
  <2> QED  BY <1>3, <1>11, <2>1 DEF Told, Staged, Mine
<1> DEFINE h == [g EXCEPT !.read = i0]
<1> HIDE DEF i0
<1>13. /\ h \in Ghost /\ h.asks = g.asks /\ h.taken = g.taken /\ h.bursts = g.bursts /\ h.cur = g.cur
       /\ h.sent = g.sent /\ h.turned = g.turned /\ h.read = i0 /\ h.flushed = g.flushed
       /\ h.stage = g.stage /\ h.recv = g.recv /\ h.pieces = g.pieces /\ h.joined = g.joined
       /\ h.words = g.words /\ h.written = g.written
  BY <1>10 DEF Ghost
<1> HIDE DEF h
<1>14. InOrder(h)'
  <2>1. i0 = g.flushed + (z + 1) /\ g.turned = i0 + (y - 1)
    <3>1. g.turned = g.read + y /\ g.read = g.flushed + z
      BY <1>8
    <3>2. z \in Nat
      BY <1>5
    <3>3. y \in Nat \ {0}
      BY <1>3
    <3> QED  BY <1>7, <3>1, <3>2, <3>3 DEF i0
  <2>2. \A k \in 1 .. z + 1 : /\ orderedReadDoneTagQ'[k].tag = B[g.flushed + k].tag
                              /\ orderedReadDoneTagQ'[k].words = B[g.flushed + k].words
    <3> TAKE k \in 1 .. z + 1
    <3>1. CASE k \in 1 .. z
      BY <1>5, <1>8, <3>1
    <3>2. CASE k = z + 1
      BY <1>4, <1>5, <1>9, <1>12, <2>1, <3>2
    <3>3. z \in Nat
      BY <1>5
    <3> QED  BY <3>1, <3>2, <3>3
  <2>3. \A k \in 1 .. y - 1 : doneReorderedTagQ'[k] = B[i0 + k].tag
    <3> TAKE k \in 1 .. y - 1
    <3>1. y \in Nat \ {0}
      BY <1>3
    <3>2. k + 1 \in 1 .. y /\ g.read + (k + 1) = i0 + k
      BY <1>7, <3>1 DEF i0
    <3> QED  BY <1>3, <1>8, <3>2
  <2>4. /\ Len(orderedReadDoneTagQ') = z + 1 /\ Len(doneReorderedTagQ') = y - 1
        /\ UNCHANGED <<orderShifter, curOrderTag, dmaReadTagOrderQ>>
    BY <1>3, <1>5, <1>6
  <2> HIDE DEF B
  <2> QED  BY <1>8, <1>13, <2>1, <2>2, <2>3, <2>4, ZenonT(40) DEF InOrder, B
<1>15. Staged(h)'
  <2>1. UNCHANGED <<orderTagMap, doneTagMap, tagMap, doneMap, readDoneTagQ, doneShifter>>
    BY <1>6 DEF doneVars
  <2>2. \A u \in Tags : Ready(u)' <=> Ready(u)
    BY <2>1 DEF Ready
  <2>3. \A u \in Tags : i0 < g.cur[u] => g.read < g.cur[u]
    BY <1>7, GhostTypes DEF i0
  <2>4. \A u \in Tags :
             /\ g.stage[u] # "idle" => g.turned < g.cur[u] /\ g.cur[u] <= g.sent
             /\ Ready(u) <=> g.stage[u] = "ready"
             /\ g.cur[u] > g.flushed => tagMap[u].req = Mine(g, u).words
             /\ g.cur[u] > g.sent => g.recv[u] = 0 /\ tagMap[u].done = 0
             /\ \/ g.stage[u] \in {"passing", "ready"}
                \/ g.read < g.cur[u] /\ g.cur[u] <= g.turned
                => doneMap[u] = Mine(g, u).words
    BY DEF Told, Staged
  <2>5. /\ \A k \in 1 .. Len(readDoneTagQ) :
             /\ g.stage[readDoneTagQ[k].tag] = "done"
             /\ readDoneTagQ[k].words = Mine(g, readDoneTagQ[k].tag).words
        /\ \A j, k \in 1 .. Len(readDoneTagQ) : readDoneTagQ[j].tag = readDoneTagQ[k].tag => j = k
        /\ \A k \in 1 .. Len(doneShifter) : g.stage[doneShifter[k]] = "passing"
        /\ \A j, k \in 1 .. Len(doneShifter) : doneShifter[j] = doneShifter[k] => j = k
    BY DEF Told, Staged
  <2> QED  BY <1>13, <2>1, <2>2, <2>3, <2>4, <2>5 DEF Staged, Mine
<1>16. Told(h)'
  BY <1>1, <1>6, <1>13, <1>14, <1>15, CutFrame, PagedFrame, OwnedFrame, ReadingFrame,
     AnsweredFrame, LinkedFrame, JoiningFrame, ComingFrame, KeptFrame, FlushedFrame
  DEF Told, askVars, splitVars, linkVars, joinVars, doneVars, outVars
<1> QED  BY <1>13, <1>16

(* A flush frees the tag of the oldest burst and hands over its words.     *)
LEMMA FlushStartTold ==
  ASSUME ReadInv, NEW g \in Ghost, Told(g), flushReadTag, readFlushTag.left = 0
  PROVE  \E h \in Ghost : Told(h)'
<1>1. AskTypeOK /\ LinkTypeOK /\ JoinTypeOK /\ OrderTypeOK /\ OutTypeOK
  BY DEF ReadInv, JoinInv, OutInv
<1>2. PICK x : x = orderedReadDoneTagQ[1]
  OBVIOUS
<1>3. PICK t : t = x.tag
  OBVIOUS
<1>4. PICK n : n = x.words
  OBVIOUS
<1>5. /\ orderedReadDoneTagQ # <<>>
      /\ dmaReadOutQ' = Append(dmaReadOutQ, readReorder[Head(orderedReadDoneTagQ).tag][0])
      /\ readFlushTag' = [tag |-> Head(orderedReadDoneTagQ).tag, words |-> Head(orderedReadDoneTagQ).words,
                          left |-> IF Head(orderedReadDoneTagQ).words > 1
                                     THEN Head(orderedReadDoneTagQ).words - 1 ELSE 0]
      /\ freeReadTagFQ' = Append(freeReadTagFQ, Head(orderedReadDoneTagQ).tag)
      /\ orderedReadDoneTagQ' = Tail(orderedReadDoneTagQ)
      /\ UNCHANGED <<askVars, splitVars, linkVars, joinVars, doneVars, orderTagMap,
                     orderShifter, curOrderTag, doneReorderedTagQ, dmaReadOutCntDn,
                     delivered, freeReadTagQ, tagMap, dmaReadTagOrderQ>>
  BY DEF flushReadTag
<1> DEFINE B == g.bursts
           z == Len(orderedReadDoneTagQ)
           i0 == g.flushed + 1
<1>6. /\ z \in Nat \ {0} /\ Head(orderedReadDoneTagQ) = x
      /\ Len(orderedReadDoneTagQ') = z - 1
      /\ \A k \in 1 .. z - 1 : orderedReadDoneTagQ'[k] = orderedReadDoneTagQ[k + 1]
      /\ x \in [tag : Tags, words : Lengths]
  <2>1. orderedReadDoneTagQ \in Seq([tag : Tags, words : Lengths]) /\ orderedReadDoneTagQ # <<>>
    BY <1>1, <1>5 DEF OrderTypeOK
  <2>2. orderedReadDoneTagQ' = Tail(orderedReadDoneTagQ)
    BY <1>5
  <2> DEFINE E == [tag : Tags, words : Lengths]
             q == orderedReadDoneTagQ
  <2>3. q \in Seq(E) /\ q # <<>>
    BY <2>1
  <2> HIDE DEF E, q
  <2>4. /\ Len(Tail(q)) = Len(q) - 1 /\ Len(q) \in Nat \ {0}
        /\ \A k \in 1 .. Len(q) - 1 : Tail(q)[k] = q[k + 1]
        /\ Head(q) = q[1] /\ q[1] \in E
    BY <2>3, TakenOut
  <2> QED  BY <1>2, <2>2, <2>4 DEF E, q
<1>7. t \in Tags
  BY <1>3, <1>6
<1>8. /\ dmaReadOutQ' = Append(dmaReadOutQ, readReorder[t][0])
      /\ readFlushTag' = [tag |-> t, words |-> n, left |-> IF n > 1 THEN n - 1 ELSE 0]
      /\ freeReadTagFQ' = Append(freeReadTagFQ, t)
  BY <1>3, <1>4, <1>5, <1>6
<1>9. /\ g.turned \in Nat /\ g.read \in Nat /\ g.sent \in Nat /\ g.flushed \in Nat /\ Len(B) \in Nat
      /\ g.flushed <= g.read /\ g.read <= g.turned /\ g.turned <= g.sent /\ g.sent <= Len(B)
  BY Bounds, GhostTypes
<1>10. /\ g.read = g.flushed + z
       /\ \A k \in 1 .. z : /\ orderedReadDoneTagQ[k].tag = B[g.flushed + k].tag
                            /\ orderedReadDoneTagQ[k].words = B[g.flushed + k].words
  BY DEF Told, InOrder
<1> HIDE DEF z
<1>11. t = B[i0].tag /\ n = B[i0].words
  <2>1. 1 \in 1 .. z
    BY <1>6
  <2> QED  BY <1>2, <1>3, <1>4, <1>10, <2>1
<1>12. i0 \in 1 .. Len(B) /\ i0 \in Nat /\ i0 <= g.read /\ i0 <= g.turned /\ i0 > g.flushed
  <2>1. g.read = g.flushed + z /\ z \in Nat \ {0}
    BY <1>6, <1>10
  <2>2. i0 <= g.read /\ i0 \in Nat /\ i0 > 0 /\ i0 > g.flushed
    BY <1>9, <2>1
  <2> HIDE DEF i0
  <2>3. i0 <= g.turned
    BY <1>9, <2>2
  <2>4. i0 <= Len(B)
    BY <1>9, <2>3, <2>2
  <2> QED  BY <1>9, <2>2, <2>3, <2>4
<1>13. g.cur[t] = i0
  BY <1>11, <1>12 DEF Told, Owned
<1>14. n \in 1 .. MaxBurst /\ n \in Nat /\ B[i0].base \in Nat /\ B[i0].start \in Nat
  <2>1. n \in 1 .. MaxBurst /\ B[i0].base \in Nat /\ B[i0].start \in Nat
    BY <1>11, <1>12, Entries
  <2> QED  BY <2>1, EntryTypes
<1> DEFINE h == [g EXCEPT !.flushed = i0]
<1> HIDE DEF i0
<1>15. /\ h \in Ghost /\ h.asks = g.asks /\ h.taken = g.taken /\ h.bursts = g.bursts /\ h.cur = g.cur
       /\ h.sent = g.sent /\ h.turned = g.turned /\ h.read = g.read /\ h.flushed = i0
       /\ h.stage = g.stage /\ h.recv = g.recv /\ h.pieces = g.pieces /\ h.joined = g.joined
       /\ h.words = g.words /\ h.written = g.written
  BY <1>12 DEF Ghost
<1> HIDE DEF h
<1>16. InOrder(h)'
  <2>1. g.read = i0 + (z - 1)
    <3>1. g.read = g.flushed + z /\ z \in Nat \ {0}
      BY <1>6, <1>10
    <3> QED  BY <1>9, <3>1 DEF i0
  <2>2. \A k \in 1 .. z - 1 : /\ orderedReadDoneTagQ'[k].tag = B[i0 + k].tag
                              /\ orderedReadDoneTagQ'[k].words = B[i0 + k].words
    <3> TAKE k \in 1 .. z - 1
    <3>1. z \in Nat \ {0}
      BY <1>6
    <3>2. k + 1 \in 1 .. z /\ g.flushed + (k + 1) = i0 + k
      BY <1>9, <3>1, SMTT(40) DEF i0
    <3> QED  BY <1>6, <1>10, <3>2
  <2>3. /\ g.turned = g.read + Len(doneReorderedTagQ)
        /\ g.sent = g.turned + Len(orderShifter) + Len(dmaReadTagOrderQ)
        /\ \A k \in 1 .. Len(doneReorderedTagQ) : doneReorderedTagQ[k] = g.bursts[g.read + k].tag
        /\ \A k \in 1 .. Len(orderShifter) : orderShifter[k] = g.bursts[g.turned + k].tag
        /\ \A k \in 1 .. Len(dmaReadTagOrderQ) :
             dmaReadTagOrderQ[k] = g.bursts[g.turned + Len(orderShifter) + k].tag
        /\ curOrderTag # NoTag => orderShifter # <<>> /\ curOrderTag = Head(orderShifter)
    BY DEF Told, InOrder
  <2>4. /\ Len(orderedReadDoneTagQ') = z - 1
        /\ UNCHANGED <<doneReorderedTagQ, orderShifter, curOrderTag, dmaReadTagOrderQ>>
    BY <1>5, <1>6
  <2> QED  BY <1>15, <2>1, <2>2, <2>3, <2>4 DEF InOrder
<1>17. Owned(h)'
  <2> DEFINE f == Len(Free)
  <2>1. /\ \A i \in 1 .. Len(B) : i > g.flushed => g.cur[B[i].tag] = i
        /\ \A u \in Tags : g.cur[u] <= Len(B) /\ (g.cur[u] > 0 => Mine(g, u).tag = u)
        /\ \A k \in 1 .. f : g.cur[Free[k]] <= g.flushed
        /\ \A j, k \in 1 .. f : Free[j] = Free[k] => j = k
    BY DEF Told, Owned
  <2>2. /\ f \in Nat /\ Len(Free') = f + 1 /\ Free'[f + 1] = t
        /\ \A k \in 1 .. f : Free'[k] = Free[k] /\ Free[k] \in Tags
    <3>1. freeReadTagQ \in Seq(Tags) /\ freeReadTagFQ \in Seq(Tags) /\ freeReadTagQ' = freeReadTagQ
      BY <1>1, <1>5 DEF AskTypeOK
    <3>2. Free \in Seq(Tags) /\ Free' = Append(Free, t)
      BY <1>7, <1>8, <3>1, AppendConcat, ConcatProperties DEF Free
    <3> QED  BY <1>7, <3>2, PutIn, ElementOfSeq
  <2> HIDE DEF f
  <2>3. \A k \in 1 .. f : Free[k] # t
    <3> SUFFICES ASSUME NEW k \in 1 .. f, Free[k] = t PROVE FALSE
      OBVIOUS
    <3>1. i0 <= g.flushed
      BY <1>13, <2>1
    <3> QED  BY <1>9, <1>12, <3>1
  <2>4. \A i \in 1 .. Len(B) : i > i0 => g.cur[B[i].tag] = i
    <3> TAKE i \in 1 .. Len(B)
    <3>1. i > i0 => i > g.flushed
      BY <1>9, <1>12
    <3> QED  BY <2>1, <3>1
  <2>5. \A k \in 1 .. f + 1 : k \in 1 .. f \/ k = f + 1
    BY <2>2
  <2>6. \A k \in 1 .. f : g.cur[Free[k]] <= i0
    <3> TAKE k \in 1 .. f
    <3>1. g.cur[Free[k]] <= g.flushed /\ g.cur[Free[k]] \in Nat
      BY <2>1, <2>2, GhostTypes
    <3> QED  BY <1>9, <1>12, <3>1
  <2>7. \A k \in 1 .. f + 1 : g.cur[Free'[k]] <= i0
    <3> TAKE k \in 1 .. f + 1
    <3>1. CASE k \in 1 .. f
      BY <2>2, <2>6, <3>1
    <3>2. CASE k = f + 1
      BY <1>12, <1>13, <2>2, <3>2
    <3> QED  BY <2>5, <3>1, <3>2
  <2>8. \A j, k \in 1 .. f + 1 : Free'[j] = Free'[k] => j = k
    BY <2>1, <2>2, <2>3, <2>5
  <2>9. Len(Free') = f + 1
    BY <2>2
  <2> QED  BY <1>15, <2>1, <2>4, <2>7, <2>8, <2>9 DEF Owned, Mine
<1>18. Staged(h)'
  <2>1. UNCHANGED <<orderTagMap, doneTagMap, tagMap, doneMap, readDoneTagQ, doneShifter>>
    BY <1>5 DEF doneVars
  <2>2. \A u \in Tags : Ready(u)' <=> Ready(u)
    BY <2>1 DEF Ready
  <2>3. \A u \in Tags : g.cur[u] > i0 => g.cur[u] > g.flushed
    BY <1>9, GhostTypes DEF i0
  <2>4. \A u \in Tags :
             /\ g.stage[u] # "idle" => g.turned < g.cur[u] /\ g.cur[u] <= g.sent
             /\ Ready(u) <=> g.stage[u] = "ready"
             /\ g.cur[u] > g.flushed => tagMap[u].req = Mine(g, u).words
             /\ g.cur[u] > g.sent => g.recv[u] = 0 /\ tagMap[u].done = 0
             /\ \/ g.stage[u] \in {"passing", "ready"}
                \/ g.read < g.cur[u] /\ g.cur[u] <= g.turned
                => doneMap[u] = Mine(g, u).words
    BY DEF Told, Staged
  <2>5. /\ \A k \in 1 .. Len(readDoneTagQ) :
             /\ g.stage[readDoneTagQ[k].tag] = "done"
             /\ readDoneTagQ[k].words = Mine(g, readDoneTagQ[k].tag).words
        /\ \A j, k \in 1 .. Len(readDoneTagQ) : readDoneTagQ[j].tag = readDoneTagQ[k].tag => j = k
        /\ \A k \in 1 .. Len(doneShifter) : g.stage[doneShifter[k]] = "passing"
        /\ \A j, k \in 1 .. Len(doneShifter) : doneShifter[j] = doneShifter[k] => j = k
    BY DEF Told, Staged
  <2> QED  BY <1>15, <2>1, <2>2, <2>3, <2>4, <2>5 DEF Staged, Mine
<1>19. Kept(h)'
  <2>1. readReorder' = readReorder /\ \A u : Written(u)' = Written(u)
    BY <1>5 DEF joinVars, Written
  <2>2. \A u \in Tags : i0 < g.cur[u] => g.flushed < g.cur[u]
    BY <1>9, GhostTypes DEF i0
  <2>3. \A u \in Tags :
            /\ g.stage[u] = "wait" => Holds(g, u, Written(u))
            /\ g.stage[u] \in {"done", "passing", "ready"} => Holds(g, u, Mine(g, u).words)
            /\ g.flushed < g.cur[u] /\ g.cur[u] <= g.turned => Holds(g, u, Mine(g, u).words)
      BY DEF Told, Kept
  <2> QED  BY <1>15, <2>1, <2>2, <2>3 DEF Kept, Holds, Mine
<1>20. Flushed(h)'
  <2> DEFINE d == Len(delivered)
             o == Len(dmaReadOutQ)
             e == End(B, g.flushed)
             e2 == End(B, i0)
             s == B[i0].start
             left == IF n > 1 THEN n - 1 ELSE 0
  <2>1. /\ d \in Nat /\ o \in Nat /\ d + o + readFlushTag.left = e
        /\ \A k \in 1 .. o : dmaReadOutQ[k] = asked[d + k]
    BY <1>1, LenProperties DEF AskTypeOK, OutTypeOK, Told, Flushed
  <2>2. e = s /\ e2 = s + n /\ s \in Nat
    <3>1. Tiles(B, End(B, Len(B)))
      BY Bounds
    <3>2. B[i0].start = End(B, i0 - 1) /\ End(B, i0) = B[i0].start + B[i0].words /\ B[i0].start \in Nat
      BY <1>12, <3>1, Ends, GhostTypes, EntryTypes, SMTT(40)
    <3>3. i0 - 1 = g.flushed
      BY <1>9 DEF i0
    <3> QED  BY <1>11, <3>2, <3>3
  <2>3. \A k \in 1 .. n : asked[s + k] = B[i0].base + (k - 1)
    BY <1>11, <1>12 DEF Told, Cut
  <2>4. \A i \in 0 .. MaxBurst - 1 : i < n => readReorder[t][i] = B[i0].base + i
    <3>1. g.flushed < g.cur[t] /\ g.cur[t] <= g.turned
      BY <1>12, <1>13
    <3>2. Holds(g, t, Mine(g, t).words)
      BY <1>7, <3>1 DEF Told, Kept
    <3>3. Mine(g, t) = B[i0]
      BY <1>13 DEF Mine
    <3> QED  BY <1>11, <3>2, <3>3 DEF Holds
  <2>5. \A i \in 0 .. MaxBurst - 1 : i < n => readReorder[t][i] = asked[s + i + 1]
    <3> SUFFICES ASSUME NEW i \in 0 .. MaxBurst - 1, i < n PROVE readReorder[t][i] = asked[s + i + 1]
      OBVIOUS
    <3>1. readReorder[t][i] = B[i0].base + i
      BY <2>4
    <3>2. i \in Nat /\ i + 1 \in 1 .. n /\ (i + 1) - 1 = i
      BY <1>14, EntryTypes
    <3>3. asked[s + (i + 1)] = B[i0].base + ((i + 1) - 1)
      <4> HIDE DEF s, B
      <4> DEFINE k == i + 1
      <4>1. k \in 1 .. n
        BY <3>2
      <4> HIDE DEF k
      <4>2. asked[s + k] = B[i0].base + (k - 1)
        BY <2>3, <4>1
      <4> QED  BY <4>2 DEF k
    <3>4. s + (i + 1) = s + i + 1
      BY <2>2, <3>2
    <3> HIDE DEF s
    <3> QED  BY <3>1, <3>2, <3>3, <3>4
  <2>6. readReorder[t][0] \in Words
    <3>1. readReorder[t] \in [0 .. MaxBurst - 1 -> Words] /\ 0 \in 0 .. MaxBurst - 1
      BY <1>1, <1>7, EntryTypes DEF JoinTypeOK
    <3> QED  BY <3>1
  <2>7. /\ Len(dmaReadOutQ') = o + 1 /\ dmaReadOutQ'[o + 1] = readReorder[t][0]
        /\ \A k \in 1 .. o : dmaReadOutQ'[k] = dmaReadOutQ[k]
    BY <1>1, <1>8, <2>6, PutIn DEF OutTypeOK
  <2> HIDE DEF d, o, e, e2, s
  <2>8. s = d + o
    BY <2>1, <2>2
  <2>9. left \in Nat /\ 1 + left = n /\ n - left = 1
    BY <1>14
  <2> HIDE DEF left
  <2>10. d + (o + 1) + left = e2
    BY <2>1, <2>2, <2>8, <2>9, <1>14
  <2>11. \A k \in 1 .. o + 1 : dmaReadOutQ'[k] = asked[d + k]
    <3> TAKE k \in 1 .. o + 1
    <3>1. CASE k \in 1 .. o
      BY <2>1, <2>7, <3>1
    <3>2. CASE k = o + 1
      <4>1. 0 \in 0 .. MaxBurst - 1 /\ 0 < n
        BY <1>14, EntryTypes
      <4>2. readReorder[t][0] = asked[s + 0 + 1]
        BY <2>5, <4>1
      <4>3. s + 0 + 1 = d + k
        BY <2>1, <2>8, <3>2
      <4> QED  BY <2>7, <3>2, <4>2, <4>3
    <3>3. o \in Nat
      BY <2>1
    <3> QED  BY <3>1, <3>2, <3>3
  <2>12. n <= e2 /\ e2 - n = s
    BY <1>14, <2>2
  <2>13. \A i \in 0 .. MaxBurst - 1 : n - left <= i /\ i < n => readReorder[t][i] = asked[(e2 - n) + i + 1]
    BY <2>5, <2>12
  <2>14. \A k \in 1 .. Len(g.words) : k > g.written => g.words[k].tag # t
    <3> SUFFICES ASSUME NEW k \in 1 .. Len(g.words), k > g.written, g.words[k].tag = t PROVE FALSE
      OBVIOUS
    <3>1. g.stage[t] = "wait"
      BY Waits
    <3>2. g.turned < i0
      BY <1>7, <1>13, <3>1 DEF Told, Staged
    <3> QED  BY <1>9, <1>12, <3>2
  <2>15. /\ readFlushTag'.tag = t /\ readFlushTag'.words = n /\ readFlushTag'.left = left
         /\ asked' = asked /\ delivered' = delivered /\ readReorder' = readReorder
         /\ Len(dmaReadOutQ') = o + 1
    BY <1>5, <1>8, <2>7 DEF left, askVars, joinVars
  <2> QED  BY <1>15, <2>10, <2>11, <2>12, <2>13, <2>14, <2>15 DEF Flushed, d, e2
<1>21. Told(h)'
  BY <1>1, <1>5, <1>15, <1>16, <1>17, <1>18, <1>19, <1>20, CutFrame, PagedFrame, ReadingFrame,
     AnsweredFrame, LinkedFrame, JoiningFrame, ComingFrame
  DEF Told, askVars, splitVars, linkVars, joinVars
<1> QED  BY <1>15, <1>21

(* A flush goes on with the next word of its burst.                        *)
LEMMA FlushGoOnTold ==
  ASSUME ReadInv, NEW g \in Ghost, Told(g), flushReadTag, readFlushTag.left # 0
  PROVE  Told(g)'
<1>1. AskTypeOK /\ LinkTypeOK /\ JoinTypeOK /\ OrderTypeOK /\ OutTypeOK /\ Flushing
  BY DEF ReadInv, JoinInv, OutInv
<1> DEFINE d == Len(delivered)
           o == Len(dmaReadOutQ)
           e == End(g.bursts, g.flushed)
<1>2. PICK t : t = readFlushTag.tag
  OBVIOUS
<1>3. PICK n : n = readFlushTag.words
  OBVIOUS
<1>4. PICK left : left = readFlushTag.left
  OBVIOUS
<1>5. left \in Nat \ {0} /\ n \in Nat /\ left < n /\ t \in Tags /\ n <= MaxBurst
  <2>1. MaxBurst \in Nat /\ readFlushTag.left \in 0 .. MaxBurst - 1 /\ readFlushTag.words \in 0 .. MaxBurst
    BY <1>1, EntryTypes DEF OutTypeOK, Lengths
  <2>2. readFlushTag.left \in Nat \ {0} /\ readFlushTag.words \in Nat /\ readFlushTag.left > 0
        /\ readFlushTag.words <= MaxBurst
    BY <2>1
  <2> QED  BY <1>1, <1>2, <1>3, <1>4, <2>2 DEF Flushing
<1>6. /\ dmaReadOutQ' = Append(dmaReadOutQ, readReorder[t][n - left])
      /\ readFlushTag' = [readFlushTag EXCEPT !.left = left - 1]
      /\ UNCHANGED <<askVars, splitVars, linkVars, joinVars, doneVars, orderVars,
                     dmaReadOutCntDn, delivered, freeReadTagQ, freeReadTagFQ, tagMap,
                     dmaReadTagOrderQ>>
  BY <1>2, <1>3, <1>4 DEF flushReadTag
<1>7. readFlushTag'.tag = t /\ readFlushTag'.words = n /\ readFlushTag'.left = left - 1
  <2>1. readFlushTag \in [tag : Tags \cup {NoTag}, words : Lengths, left : 0 .. MaxBurst - 1]
    BY <1>1 DEF OutTypeOK
  <2> QED  BY <1>2, <1>3, <1>6, <2>1
<1>8. Flushed(g)'
  <2>1. /\ d \in Nat /\ o \in Nat /\ d + o + left = e /\ e \in Nat
        /\ \A k \in 1 .. o : dmaReadOutQ[k] = asked[d + k]
        /\ n <= e
        /\ \A i \in 0 .. MaxBurst - 1 : n - left <= i /\ i < n =>
             readReorder[t][i] = asked[(e - n) + i + 1]
        /\ \A k \in 1 .. Len(g.words) : k > g.written => g.words[k].tag # t
    <3>1. d \in Nat /\ o \in Nat /\ e \in Nat
      BY <1>1, LenProperties, Bounds DEF AskTypeOK, OutTypeOK
    <3>2. readFlushTag.left > 0
      BY <1>4, <1>5
    <3> QED  BY <1>2, <1>3, <1>4, <3>1, <3>2 DEF Told, Flushed
  <2>2. n - left \in 0 .. MaxBurst - 1 /\ n - left < n
    BY <1>5, EntryTypes
  <2>3. readReorder[t][n - left] = asked[(e - n) + (n - left) + 1]
    <3> DEFINE i0 == n - left
    <3>1. i0 \in 0 .. MaxBurst - 1 /\ i0 < n /\ n - left <= i0
      BY <1>5, <2>2
    <3>2. \A i \in 0 .. MaxBurst - 1 : n - left <= i /\ i < n =>
             readReorder[t][i] = asked[(e - n) + i + 1]
      BY <2>1
    <3> HIDE DEF i0, e
    <3>3. readReorder[t][i0] = asked[(e - n) + i0 + 1]
      BY <3>1, <3>2
    <3> QED  BY <3>3 DEF i0
  <2>4. readReorder[t][n - left] \in Words
    <3>1. readReorder[t] \in [0 .. MaxBurst - 1 -> Words]
      BY <1>1, <1>5 DEF JoinTypeOK
    <3> QED  BY <2>2, <3>1
  <2>5. /\ Len(dmaReadOutQ') = o + 1 /\ dmaReadOutQ'[o + 1] = readReorder[t][n - left]
        /\ \A k \in 1 .. o : dmaReadOutQ'[k] = dmaReadOutQ[k]
    BY <1>1, <1>6, <2>4, PutIn DEF OutTypeOK
  <2> HIDE DEF d, o, e
  <2>6. d + (o + 1) + (left - 1) = e
    BY <1>5, <2>1
  <2>7. \A k \in 1 .. o + 1 : dmaReadOutQ'[k] = asked[d + k]
    <3> TAKE k \in 1 .. o + 1
    <3>1. CASE k \in 1 .. o
      BY <2>1, <2>5, <3>1
    <3>2. CASE k = o + 1
      <4>1. (e - n) + (n - left) + 1 = d + k
        BY <1>5, <2>1, <3>2
      <4> QED  BY <2>3, <2>5, <3>2, <4>1
    <3>3. o \in Nat
      BY <2>1
    <3> QED  BY <3>1, <3>2, <3>3
  <2>8. \A i \in 0 .. MaxBurst - 1 : n - (left - 1) <= i /\ i < n =>
             readReorder[t][i] = asked[(e - n) + i + 1]
    <3> TAKE i \in 0 .. MaxBurst - 1
    <3>1. i \in Int
      BY EntryTypes
    <3>2. n - (left - 1) <= i => n - left <= i
      BY <1>5, <3>1
    <3> QED  BY <2>1, <3>2
  <2>9. /\ asked' = asked /\ delivered' = delivered /\ readReorder' = readReorder
        /\ Len(dmaReadOutQ') = o + 1
    BY <1>6, <2>5 DEF askVars, joinVars
  <2> QED  BY <1>7, <2>1, <2>6, <2>7, <2>8, <2>9 DEF Flushed, d, e
<1>9. Told(g)'
  BY <1>1, <1>6, <1>8, CutFrame, InOrderFrame, PagedFrame, OwnedFrame, StagedFrame, ReadingFrame,
     AnsweredFrame, LinkedFrame, JoiningFrame, ComingFrame, KeptFrame, SMTT(40)
  DEF Told, askVars, splitVars, linkVars, joinVars, doneVars, orderVars
<1> QED  BY <1>9

(* A word is a word of its piece.                                          *)
LEMMA WordOf ==
  ASSUME NEW g \in Ghost, Answered(g), NEW k \in 1 .. Len(g.words)
  PROVE  /\ g.words[k].piece \in 1 .. Len(g.pieces)
         /\ g.pieces[g.words[k].piece].start < k /\ k <= End(g.pieces, g.words[k].piece)
         /\ g.words[k].tag = g.pieces[g.words[k].piece].tag
         /\ g.words[k].place =
              g.pieces[g.words[k].piece].place + ((k - g.pieces[g.words[k].piece].start) - 1)
<1> DEFINE P == g.pieces
           W == g.words
<1>1. PICK m : m = W[k].piece
  OBVIOUS
<1>2. m \in 1 .. Len(P) /\ P[m].start < k /\ k <= End(P, m)
  BY <1>1 DEF Answered
<1>3. P[m].start \in Nat /\ P[m].words \in Nat /\ End(P, m) = P[m].start + P[m].words
  BY <1>2, PieceEnds, Entries
<1>4. \A i \in 1 .. P[m].words :
        W[P[m].start + i] = [tag |-> P[m].tag, place |-> P[m].place + (i - 1), piece |-> m]
  BY <1>2 DEF Answered
<1> DEFINE s == P[m].start
           n == P[m].words
           i0 == k - s
<1>5. i0 \in 1 .. n /\ s + i0 = k
  <2>1. s \in Nat /\ n \in Nat /\ s < k /\ k <= s + n /\ k \in Nat
    BY <1>2, <1>3, Entries
  <2> HIDE DEF s, n
  <2> QED  BY <2>1
<1> HIDE DEF i0
<1>6. W[s + i0] = [tag |-> P[m].tag, place |-> P[m].place + (i0 - 1), piece |-> m]
  BY <1>4, <1>5, Zenon
<1> QED  BY <1>1, <1>2, <1>5, <1>6 DEF i0

(* The first beat on the link is the header of the next piece.             *)
LEMMA FilterStatReadTLPTold ==
  ASSUME ReadInv, NEW g \in Ghost, Told(g), filterStatReadTLP
  PROVE  Told(g)'
<1>1. AskTypeOK /\ LinkTypeOK /\ JoinTypeOK
  BY DEF ReadInv, JoinInv
<1> DEFINE P == g.pieces
           W == g.words
           lp == Len(P)
           lw == Len(W)
           lq == Len(tlpQ)
           got == Got(g)
           hd == Headed(g)
           m == hd + 1
           r == Len(readBurstQ)
<1>2. UNCHANGED <<askVars, splitVars, reads, dmaReadWordQ, joinVars, doneVars,
                  orderVars, outVars, freeReadTagQ, freeReadTagFQ, tagMap,
                  dmaReadTagOrderQ>>
  BY DEF filterStatReadTLP
<1>3. /\ lq \in Nat \ {0} /\ Len(tlpQ') = lq - 1 /\ Head(tlpQ) = tlpQ[1] /\ tlpQ[1] \in Beat
      /\ \A i \in 1 .. lq - 1 : tlpQ'[i] = tlpQ[i + 1]
  BY <1>1, TakenOut DEF LinkTypeOK, filterStatReadTLP
<1>4. /\ completionRecv.words = 0
      /\ completionRecv' = [tag |-> tlpQ[1].tag, words |-> tlpQ[1].val]
      /\ readBurstQ' = Append(readBurstQ, [tag |-> tlpQ[1].tag, words |-> tlpQ[1].val])
  BY <1>3 DEF filterStatReadTLP
<1>5. lp \in Nat /\ lw \in Nat /\ got \in Nat /\ hd \in Nat /\ hd <= lp /\ got <= lw
  BY Waits
<1>6. /\ lq + got + hd = lw + lp
      /\ got + completionRecv.words = End(P, hd)
      /\ \A j \in 1 .. lp : j > hd =>
             tlpQ[(P[j].start + j) - (got + hd)].tag = P[j].tag
             /\ tlpQ[(P[j].start + j) - (got + hd)].val = P[j].words
      /\ \A k \in 1 .. lw : k > got => tlpQ[(k + W[k].piece) - (got + hd)].val = Value(g, k)
      /\ \A k \in 1 .. Len(dmaReadWordQ) : dmaReadWordQ[k] = Value(g, g.written + k)
  BY DEF Told, Linked
<1>7. Answered(g)
  BY DEF Told
<1>8. /\ \A j \in 1 .. lp : j > hd => /\ P[j].start >= got
                                      /\ (P[j].start + j) - (got + hd) \in 1 .. lq
      /\ \A k \in 1 .. lw : k > got => /\ W[k].piece >= hd
                                       /\ (k + W[k].piece) - (got + hd) \in 1 .. lq
  <2>1. got + completionRecv.words = got
    BY <1>4, <1>5
  <2> QED  BY <2>1, LinkPlaces
<1>9. /\ End(P, lp) = lw
      /\ \A j \in 1 .. lp : /\ P[j].start = End(P, j - 1) /\ P[j].start \in Nat
                            /\ P[j].words \in Nat /\ P[j].words > 0
                            /\ End(P, j) = P[j].start + P[j].words
  BY <1>7, PieceEnds, Entries
<1>10. \A k \in 1 .. lw : W[k].piece \in 1 .. lp /\ k <= End(P, W[k].piece)
  BY <1>7, WordOf
<1>11. got = End(P, hd)
  BY <1>4, <1>5, <1>6
<1> HIDE DEF P, W, lp, lw, lq, got, hd
<1>12. m \in 1 .. lp /\ m > hd
  <2>1. hd # lp
    <3> SUFFICES ASSUME hd = lp PROVE FALSE
      OBVIOUS
    <3>1. got = lw
      BY <1>9, <1>11
    <3>2. lq + got + hd = lw + lp
      BY <1>6
    <3> QED  BY <1>3, <1>5, <3>1, <3>2
  <2> QED  BY <1>5, <2>1
<1>13. tlpQ[1].tag = P[m].tag /\ tlpQ[1].val = P[m].words
  <2>1. P[m].start = got
    <3>1. m - 1 = hd
      BY <1>5
    <3> QED  BY <1>9, <1>11, <1>12, <3>1
  <2>2. (P[m].start + m) - (got + hd) = 1
    BY <1>5, <2>1
  <2> QED  BY <1>6, <1>12, <2>2
<1> DEFINE x == [tag |-> tlpQ[1].tag, words |-> tlpQ[1].val]
<1>14. x \in [tag : Tags, words : Nat] /\ x.tag = P[m].tag /\ x.words = P[m].words
  BY <1>3, <1>13 DEF Beat
<1>15. completionRecv' = x /\ readBurstQ' = Append(readBurstQ, x)
  BY <1>4
<1> HIDE DEF x
<1>16. /\ r \in Nat /\ Len(readBurstQ') = r + 1 /\ readBurstQ'[r + 1] = x
       /\ \A k \in 1 .. r : readBurstQ'[k] = readBurstQ[k]
  BY <1>1, <1>14, <1>15, PutIn DEF LinkTypeOK
<1>17. hd = g.joined + Len(burstUpdReqQ) + r /\ g.joined \in Nat /\ Len(burstUpdReqQ) \in Nat
  BY <1>1, GhostTypes, LenProperties DEF hd, Headed, JoinTypeOK
<1>18. Got(g)' = got /\ Headed(g)' = m
  <2>1. Got(g)' = got
    BY <1>2 DEF Got, got
  <2>2. Headed(g)' = g.joined + Len(burstUpdReqQ) + (r + 1)
    BY <1>2, <1>16 DEF Headed, joinVars
  <2> HIDE DEF r
  <2> QED  BY <1>16, <1>17, <2>1, <2>2
<1>19. Linked(g)'
  <2>1. got + x.words = End(P, m)
    <3>1. m - 1 = hd
      BY <1>5
    <3> QED  BY <1>9, <1>11, <1>12, <1>14, <3>1
  <2>2. (lq - 1) + got + m = lw + lp
    <3>1. lq + got + hd = lw + lp
      BY <1>6
    <3> QED  BY <1>3, <1>5, <3>1
  <2>3. ASSUME NEW j \in 1 .. lp, j > m
        PROVE  /\ tlpQ'[(P[j].start + j) - (got + m)].tag = P[j].tag
               /\ tlpQ'[(P[j].start + j) - (got + m)].val = P[j].words
    <3> DEFINE i == (P[j].start + j) - (got + m)
               s == P[j].start
    <3>0. j > hd /\ j \in Nat
      BY <1>5, <2>3
    <3>1. s \in Nat /\ s >= got /\ (s + j) - (got + hd) \in 1 .. lq
      BY <1>8, <1>9, <3>0
    <3> HIDE DEF s
    <3>2. (s + j) - (got + m) \in 1 .. lq - 1 /\ ((s + j) - (got + m)) + 1 = (s + j) - (got + hd)
      BY <1>3, <1>5, <2>3, <3>0, <3>1, SMTT(40)
    <3>3. i \in 1 .. lq - 1 /\ i + 1 = (P[j].start + j) - (got + hd)
      BY <3>2 DEF s
    <3> HIDE DEF i
    <3>4. tlpQ'[i] = tlpQ[i + 1]
      BY <1>3, <3>3
    <3>5. tlpQ[i + 1].tag = P[j].tag /\ tlpQ[i + 1].val = P[j].words
      BY <1>6, <3>0, <3>3
    <3> QED  BY <3>4, <3>5 DEF i
  <2>4. ASSUME NEW k \in 1 .. lw, k > got
        PROVE  tlpQ'[(k + W[k].piece) - (got + m)].val = Value(g, k)
    <3> DEFINE p == W[k].piece
               i == (k + p) - (got + m)
    <3>1. p >= hd /\ p \in 1 .. lp /\ k <= End(P, p) /\ (k + p) - (got + hd) \in 1 .. lq
      BY <1>8, <1>10, <2>4
    <3>2. tlpQ[(k + p) - (got + hd)].val = Value(g, k)
      BY <1>6, <2>4
    <3> HIDE DEF p
    <3>3. p # hd
      BY <1>5, <1>11, <2>4, <3>1
    <3>4. i \in 1 .. lq - 1 /\ i + 1 = (k + p) - (got + hd)
      BY <1>3, <1>5, <2>4, <3>1, <3>3, SMTT(40)
    <3> HIDE DEF i
    <3>5. tlpQ'[i].val = Value(g, k)
      BY <1>3, <3>2, <3>4
    <3> QED  BY <3>5 DEF i, p
  <2>5. UNCHANGED dmaReadWordQ /\ \A k : Value(g, k)' = Value(g, k)
    BY <1>2 DEF Value, Mine
  <2>6. m <= lp /\ Len(tlpQ') = lq - 1 /\ completionRecv' = x
    BY <1>3, <1>12, <1>15
  <2>7. x.words > 0 => x.words <= P[m].words
    BY <1>9, <1>12, <1>14
  <2> HIDE DEF m
  <2> QED  BY <1>6, <1>18, <2>1, <2>2, <2>3, <2>4, <2>5, <2>6, <2>7 DEF Linked, P, W, lp, lw
<1>20. Joining(g)'
  <2>1. \A k \in 1 .. r + 1 :
          LET j == g.joined + Len(burstUpdReqQ) + k IN
            readBurstQ'[k].tag = P[j].tag /\ readBurstQ'[k].words = P[j].words
    <3> TAKE k \in 1 .. r + 1
    <3>1. CASE k \in 1 .. r
      BY <1>16, <3>1 DEF Told, Joining, P
    <3>2. CASE k = r + 1
      <4>1. g.joined + Len(burstUpdReqQ) + k = m
        <5> HIDE DEF r
        <5> QED  BY <1>16, <1>17, <3>2
      <4> QED  BY <1>14, <1>16, <3>2, <4>1
    <3> QED  BY <1>16, <3>1, <3>2
  <2>2. Len(readBurstQ') = r + 1
    BY <1>16
  <2>3. UNCHANGED <<tagWordsLeft, tagMap, burstUpdReqQ, readCompletionsb>>
    BY <1>2 DEF joinVars
  <2>4. \A t : Mine(g, t)' = Mine(g, t)
    BY DEF Mine
  <2> QED  BY <2>1, <2>2, <2>3, <2>4 DEF Told, Joining, P
<1>21. Told(g)'
  BY <1>1, <1>2, <1>19, <1>20, CutFrame, InOrderFrame, PagedFrame, OwnedFrame, StagedFrame,
     ReadingFrame, AnsweredFrame, ComingFrame, KeptFrame, FlushedFrame
  DEF Told, askVars, splitVars, joinVars, doneVars, orderVars, outVars
<1> QED  BY <1>21

(* The first beat on the link is the next word of the piece.               *)
LEMMA ProcCompletionTLPTold ==
  ASSUME ReadInv, NEW g \in Ghost, Told(g), procCompletionTLP
  PROVE  Told(g)'
<1>1. AskTypeOK /\ LinkTypeOK /\ JoinTypeOK
  BY DEF ReadInv, JoinInv
<1> DEFINE P == g.pieces
           W == g.words
           lp == Len(P)
           lw == Len(W)
           lq == Len(tlpQ)
           got == Got(g)
           hd == Headed(g)
           cw == completionRecv.words
           n == Len(dmaReadWordQ)
<1>2. UNCHANGED <<askVars, splitVars, reads, readBurstQ, joinVars, doneVars,
                  orderVars, outVars, freeReadTagQ, freeReadTagFQ, tagMap,
                  dmaReadTagOrderQ>>
  BY DEF procCompletionTLP
<1>3. /\ lq \in Nat \ {0} /\ Len(tlpQ') = lq - 1 /\ Head(tlpQ) = tlpQ[1] /\ tlpQ[1] \in Beat
      /\ \A i \in 1 .. lq - 1 : tlpQ'[i] = tlpQ[i + 1]
  BY <1>1, TakenOut DEF LinkTypeOK, procCompletionTLP
<1>4. cw \in Nat \ {0} /\ completionRecv'.words = cw - 1
      /\ dmaReadWordQ' = Append(dmaReadWordQ, tlpQ[1].val)
  BY <1>1, <1>3 DEF LinkTypeOK, procCompletionTLP
<1>5. lp \in Nat /\ lw \in Nat /\ got \in Nat /\ hd \in Nat /\ hd <= lp /\ got <= lw
  BY Waits
<1>6. /\ lq + got + hd = lw + lp
      /\ got + cw = End(P, hd)
      /\ cw > 0 => cw <= P[hd].words
      /\ \A j \in 1 .. lp : j > hd =>
             tlpQ[(P[j].start + j) - (got + hd)].tag = P[j].tag
             /\ tlpQ[(P[j].start + j) - (got + hd)].val = P[j].words
      /\ \A k \in 1 .. lw : k > got => tlpQ[(k + W[k].piece) - (got + hd)].val = Value(g, k)
      /\ \A k \in 1 .. n : dmaReadWordQ[k] = Value(g, g.written + k)
  BY DEF Told, Linked
<1>7. Answered(g)
  BY DEF Told
<1>8. /\ \A j \in 1 .. lp : j > hd => /\ P[j].start >= got + cw
                                      /\ (P[j].start + j) - (got + hd) \in 1 .. lq
      /\ \A k \in 1 .. lw : k > got => /\ W[k].piece >= hd
                                       /\ (k + W[k].piece) - (got + hd) \in 1 .. lq
  BY LinkPlaces
<1>9. \A j \in 1 .. lp : P[j].start \in Nat /\ P[j].words \in Nat
  BY Entries
<1>a. \A i \in 0 .. lp : End(P, i) \in 0 .. lw
  BY <1>7, PieceEnds
<1>10. \A k \in 1 .. lw : W[k].piece \in 1 .. lp /\ P[W[k].piece].start < k
  BY <1>7, WordOf
<1> HIDE DEF P, W, lp, lw, lq, got, hd, cw
<1>11. got + 1 \in 1 .. lw /\ hd \in 0 .. lp
  <2>1. End(P, hd) \in 0 .. lw /\ got + cw = End(P, hd)
    BY <1>5, <1>6, <1>a
  <2> QED  BY <1>4, <1>5, <2>1
<1>12. W[got + 1].piece = hd
  <2> DEFINE p == W[got + 1].piece
  <2>1. p >= hd /\ p \in 1 .. lp /\ P[p].start < got + 1
    BY <1>5, <1>8, <1>10, <1>11
  <2> HIDE DEF p
  <2>2. ~(p > hd)
    <3> SUFFICES ASSUME p > hd PROVE FALSE
      OBVIOUS
    <3>1. P[p].start >= got + cw /\ P[p].start \in Nat
      BY <1>8, <1>9, <2>1
    <3> QED  BY <1>4, <1>5, <2>1, <3>1
  <2>3. p = hd
    BY <1>5, <2>1, <2>2
  <2> QED  BY <2>3 DEF p
<1>13. tlpQ[1].val = Value(g, got + 1)
  <2>1. tlpQ[((got + 1) + W[got + 1].piece) - (got + hd)].val = Value(g, got + 1)
    <3> DEFINE k == got + 1
    <3>1. k \in 1 .. lw /\ k > got
      BY <1>5, <1>11
    <3> HIDE DEF k
    <3>2. tlpQ[(k + W[k].piece) - (got + hd)].val = Value(g, k)
      BY <1>6, <3>1
    <3> QED  BY <3>2 DEF k
  <2>2. ((got + 1) + hd) - (got + hd) = 1
    BY <1>5
  <2> QED  BY <1>12, <2>1, <2>2
<1>14. /\ n \in Nat /\ Len(dmaReadWordQ') = n + 1 /\ dmaReadWordQ'[n + 1] = tlpQ[1].val
       /\ \A k \in 1 .. n : dmaReadWordQ'[k] = dmaReadWordQ[k]
  <2>1. tlpQ[1].val \in Words
    BY <1>3 DEF Beat, Words
  <2> QED  BY <1>1, <1>4, <2>1, PutIn DEF LinkTypeOK
<1>15. g.written \in Nat /\ got = g.written + n
  BY GhostTypes DEF got, Got
<1>16. Got(g)' = got + 1 /\ Headed(g)' = hd
  <2>1. Headed(g)' = hd
    BY <1>2 DEF Headed, hd, joinVars
  <2>2. Got(g)' = g.written + (n + 1)
    BY <1>14 DEF Got
  <2> HIDE DEF n
  <2> QED  BY <1>14, <1>15, <2>1, <2>2
<1>17. Linked(g)'
  <2>1. (got + 1) + (cw - 1) = End(P, hd)
    <3>1. got + cw = End(P, hd)
      BY <1>6
    <3> QED  BY <1>4, <1>5, <3>1
  <2>2. (lq - 1) + (got + 1) + hd = lw + lp
    <3>1. lq + got + hd = lw + lp
      BY <1>6
    <3> QED  BY <1>3, <1>5, <3>1
  <2>3. ASSUME NEW j \in 1 .. lp, j > hd
        PROVE  /\ tlpQ'[(P[j].start + j) - ((got + 1) + hd)].tag = P[j].tag
               /\ tlpQ'[(P[j].start + j) - ((got + 1) + hd)].val = P[j].words
    <3> DEFINE i == (P[j].start + j) - ((got + 1) + hd)
               s == P[j].start
    <3>1. s \in Nat /\ s >= got + cw /\ (s + j) - (got + hd) \in 1 .. lq
      BY <1>8, <1>9, <2>3
    <3> HIDE DEF s
    <3>2. (s + j) - ((got + 1) + hd) \in 1 .. lq - 1 /\ ((s + j) - ((got + 1) + hd)) + 1 = (s + j) - (got + hd)
      BY <1>3, <1>4, <1>5, <2>3, <3>1
    <3>3. i \in 1 .. lq - 1 /\ i + 1 = (P[j].start + j) - (got + hd)
      BY <3>2 DEF s
    <3> HIDE DEF i
    <3>4. tlpQ'[i] = tlpQ[i + 1]
      BY <1>3, <3>3
    <3>5. tlpQ[i + 1].tag = P[j].tag /\ tlpQ[i + 1].val = P[j].words
      BY <1>6, <2>3, <3>3
    <3> QED  BY <3>4, <3>5 DEF i
  <2>4. ASSUME NEW k \in 1 .. lw, k > got + 1
        PROVE  tlpQ'[(k + W[k].piece) - ((got + 1) + hd)].val = Value(g, k)
    <3> DEFINE p == W[k].piece
               i == (k + p) - ((got + 1) + hd)
    <3>0. k > got
      BY <1>5, <2>4
    <3>1. p >= hd /\ p \in 1 .. lp /\ (k + p) - (got + hd) \in 1 .. lq
      BY <1>8, <1>10, <3>0
    <3>2. tlpQ[(k + p) - (got + hd)].val = Value(g, k)
      BY <1>6, <3>0
    <3> HIDE DEF p
    <3>3. p \in Nat /\ k \in Nat /\ lq \in Nat /\ (k + p) - (got + hd) <= lq /\ k > got + 1 /\ p >= hd
      BY <1>3, <1>5, <2>4, <3>1
    <3>4. i \in 1 .. lq - 1 /\ i + 1 = (k + p) - (got + hd)
      BY <1>5, <3>3
    <3> HIDE DEF i
    <3>5. tlpQ'[i].val = Value(g, k)
      BY <1>3, <3>2, <3>4
    <3> QED  BY <3>5 DEF i, p
  <2>5. \A k : Value(g, k)' = Value(g, k)
    BY <1>2 DEF Value, Mine
  <2>6. hd <= lp /\ Len(tlpQ') = lq - 1 /\ completionRecv'.words = cw - 1 /\ Len(dmaReadWordQ') = n + 1
    BY <1>3, <1>4, <1>5, <1>14
  <2>7. cw - 1 > 0 => cw - 1 <= P[hd].words
    <3> SUFFICES ASSUME cw - 1 > 0 PROVE cw - 1 <= P[hd].words
      OBVIOUS
    <3>0. hd # 0
      <4> SUFFICES ASSUME hd = 0 PROVE FALSE
        OBVIOUS
      <4>1. End(P, 0) = 0
        BY DEF End
      <4>2. got + cw = End(P, hd)
        BY <1>6
      <4> QED  BY <1>4, <1>5, <4>1, <4>2
    <3>1. P[hd].words \in Nat
      BY <1>9, <1>11, <3>0
    <3>2. cw <= P[hd].words
      BY <1>4, <1>6
    <3> QED  BY <1>4, <3>1, <3>2
  <2>8. \A k \in 1 .. n + 1 : dmaReadWordQ'[k] = Value(g, g.written + k)
    <3> TAKE k \in 1 .. n + 1
    <3>1. CASE k \in 1 .. n
      BY <1>6, <1>14, <3>1
    <3>2. CASE k = n + 1
      <4>1. g.written + k = got + 1
        <5> HIDE DEF n
        <5> QED  BY <1>14, <1>15, <3>2
      <4> QED  BY <1>13, <1>14, <3>2, <4>1
    <3> QED  BY <1>14, <3>1, <3>2
  <2> QED  BY <1>16, <2>1, <2>2, <2>3, <2>4, <2>5, <2>6, <2>7, <2>8 DEF Linked, P, W, lp, lw
<1>18. Told(g)'
  BY <1>1, <1>2, <1>17, CutFrame, InOrderFrame, PagedFrame, OwnedFrame, StagedFrame,
     ReadingFrame, AnsweredFrame, JoiningFrame, ComingFrame, KeptFrame, FlushedFrame
  DEF Told, askVars, splitVars, joinVars, doneVars, orderVars, outVars
<1> QED  BY <1>18

(* A piece that is looked up follows what tagMap says is done of its tag,  *)
(* since no piece of the same tag is between the two lookups.              *)
LEMMA NextPiece ==
  ASSUME ReadInv, NEW g \in Ghost, Told(g),
         NEW m \in 1 .. Len(g.pieces), m = g.joined + Len(burstUpdReqQ) + 1,
         \A k \in 1 .. Len(burstUpdReqQ) : burstUpdReqQ[k].tag # g.pieces[m].tag
  PROVE  g.pieces[m].place = tagMap[g.pieces[m].tag].done
<1> DEFINE P == g.pieces
           W == g.words
           lp == Len(P)
           lw == Len(W)
           c == tagWordsLeft
           q == Len(burstUpdReqQ)
           jo == g.joined
           wr == g.written
           t == P[m].tag
           d == tagMap[t].done
           j0 == P[m].start + 1
<1>1. JoinTypeOK /\ Joined /\ Answered(g) /\ t \in Tags
  BY Entries DEF ReadInv, JoinInv, Told
<1>2. lp \in Nat /\ lw \in Nat /\ q \in Nat /\ jo \in 0 .. lp /\ wr \in Nat /\ jo \in Nat
  BY Waits, GhostTypes
<1>3. m = jo + q + 1 /\ m \in 1 .. lp
  OBVIOUS
<1>4. wr + c.words = End(P, jo)
  BY DEF Told, Joining
<1>5. /\ \A i \in 0 .. lp : End(P, i) \in 0 .. lw
      /\ \A i, j \in 0 .. lp : i <= j => End(P, i) <= End(P, j)
      /\ \A j \in 1 .. lp : /\ P[j].start = End(P, j - 1) /\ P[j].start \in Nat
                            /\ P[j].words \in Nat /\ P[j].words > 0 /\ P[j].place \in Nat
                            /\ End(P, j) = P[j].start + P[j].words
  BY <1>1, PieceEnds, Entries
<1>6. \A k \in 1 .. lw :
        /\ W[k].piece \in 1 .. lp
        /\ P[W[k].piece].start < k /\ k <= End(P, W[k].piece)
        /\ W[k].tag = P[W[k].piece].tag
        /\ W[k].place = P[W[k].piece].place + ((k - P[W[k].piece].start) - 1)
  BY <1>1, WordOf
<1>7. /\ c.words \in Nat /\ c.off \in Nat /\ c.ioff \in Nat
      /\ d \in 0 .. MaxBurst /\ MaxBurst \in Nat
  BY <1>1, EntryTypes DEF JoinTypeOK, Lengths
<1>8. c.words > 0 =>
        /\ jo \in 1 .. lp
        /\ c.tag = P[jo].tag /\ P[jo].start <= wr
        /\ c.off + c.ioff = P[jo].place + (wr - P[jo].start)
        /\ tagMap[c.tag].done = c.off + c.ioff + c.words
  BY Waits DEF Told, Joining
<1>9. \A k \in 1 .. q : burstUpdReqQ[k].tag = P[jo + k].tag /\ burstUpdReqQ[k].tag # t
  BY DEF Told, Joining
<1>10. /\ \A k \in 1 .. lw : k > wr =>
             g.stage[W[k].tag] = "wait" /\ Written(W[k].tag) <= W[k].place /\ W[k].place < g.recv[W[k].tag]
       /\ \A j, k \in 1 .. lw :
             wr < j /\ j < k /\ W[j].tag = W[k].tag => W[j].place < W[k].place
       /\ g.stage[t] = "wait" =>
             \A i \in 0 .. MaxBurst : Written(t) <= i /\ i < g.recv[t] =>
               \E k \in 1 .. lw : k > wr /\ W[k].tag = t /\ W[k].place = i
  BY <1>1 DEF Told, Coming
<1>11. Written(t) = d - (IF c.words > 0 /\ c.tag = t THEN c.words ELSE 0)
  BY DEF Written
<1>12. \A k \in 1 .. lw : W[k].place \in Nat
  BY Entries
<1>13. g.recv[t] \in Nat
  BY <1>1, GhostTypes
<1>14. \A i \in 1 .. P[m].words :
         W[P[m].start + i] = [tag |-> t, place |-> P[m].place + (i - 1), piece |-> m]
  BY <1>1 DEF Answered
<1> HIDE DEF P, W, lp, lw, q, jo, wr, d, t, c
<1>15. /\ j0 \in 1 .. lw /\ W[j0].tag = t /\ W[j0].place = P[m].place
       /\ P[m].start = End(P, m - 1) /\ P[m].start \in Nat /\ wr < j0 /\ End(P, jo) < j0
       /\ P[m].place \in Nat
  <2>1. P[m].start \in Nat /\ P[m].start = End(P, m - 1) /\ P[m].words \in Nat /\ P[m].words > 0
        /\ End(P, m) = P[m].start + P[m].words /\ End(P, m) \in 0 .. lw /\ P[m].place \in Nat
    <3>1. m \in 1 .. lp /\ m \in 0 .. lp
      BY <1>2, <1>3
    <3> QED  BY <1>5, <3>1
  <2>2. W[P[m].start + 1] = [tag |-> t, place |-> P[m].place + (1 - 1), piece |-> m]
    <3>1. 1 \in 1 .. P[m].words
      BY <2>1
    <3> QED  BY <1>14, <3>1
  <2>3. W[j0].tag = t /\ W[j0].place = P[m].place
    BY <2>1, <2>2
  <2>4. jo \in 0 .. lp /\ m - 1 \in 0 .. lp /\ jo <= m - 1
    BY <1>2, <1>3
  <2>5. End(P, jo) <= P[m].start /\ End(P, jo) \in Nat
    BY <1>5, <2>1, <2>4
  <2> DEFINE s == P[m].start
             n == P[m].words
             e == End(P, jo)
  <2>6. s \in Nat /\ n \in Nat /\ n > 0 /\ s + n <= lw /\ e \in Nat /\ e <= s /\ wr + c.words = e
    BY <1>2, <1>4, <2>1, <2>5
  <2> HIDE DEF s, n, e
  <2>7. s + 1 \in 1 .. lw /\ wr < s + 1 /\ e < s + 1
    BY <1>2, <1>7, <2>6
  <2> QED  BY <2>1, <2>3, <2>7 DEF s, e
<1>16. g.stage[t] = "wait" /\ Written(t) <= P[m].place /\ P[m].place < g.recv[t]
  BY <1>10, <1>15
(* An earlier word of the tag that is not written is of the piece joined.  *)
<1>17. ASSUME NEW k \in 1 .. lw, wr < k, k < j0, W[k].tag = t
       PROVE  W[k].piece = jo /\ c.words > 0 /\ c.tag = t
  <2> DEFINE p == W[k].piece
  <2>1. p \in 1 .. lp /\ P[p].start < k /\ k <= End(P, p) /\ P[p].tag = t /\ k \in Nat
    BY <1>6, <1>17, <1>2
  <2>2. p - 1 \in 0 .. lp /\ P[p].start = End(P, p - 1) /\ End(P, p - 1) \in Nat /\ End(P, p) \in Nat
    <3> HIDE DEF p
    <3>1. p - 1 \in 0 .. lp /\ p \in 0 .. lp
      BY <1>2, <2>1
    <3>2. P[p].start = End(P, p - 1)
      BY <1>5, <2>1
    <3>3. End(P, p - 1) \in 0 .. lw /\ End(P, p) \in 0 .. lw
      BY <1>5, <3>1
    <3> QED  BY <1>2, <3>1, <3>2, <3>3
  <2> HIDE DEF p, j0
  <2>3. p < m
    <3> SUFFICES ASSUME m <= p PROVE FALSE
      BY <1>3, <2>1
    <3>1. m - 1 \in 0 .. lp /\ m - 1 <= p - 1
      BY <1>2, <1>3, <2>1
    <3>2. End(P, m - 1) <= End(P, p - 1)
      BY <1>5, <2>2, <3>1
    <3>3. P[m].start = End(P, m - 1) /\ j0 = P[m].start + 1 /\ P[m].start \in Nat
      BY <1>15 DEF j0
    <3> QED  BY <1>17, <2>1, <2>2, <3>2, <3>3
  <2>4. p >= jo
    <3> SUFFICES ASSUME p < jo PROVE FALSE
      BY <1>2, <2>1
    <3>1. jo \in 1 .. lp /\ jo - 1 \in 0 .. lp /\ p <= jo - 1 /\ p \in 0 .. lp /\ jo \in 0 .. lp /\ p <= jo
      BY <1>2, <2>1
    <3>2. End(P, p) <= End(P, jo - 1) /\ End(P, p) <= End(P, jo)
      BY <1>5, <3>1
    <3>3. P[jo].start = End(P, jo - 1)
      BY <1>5, <3>1
    <3>4. k <= P[jo].start /\ k <= End(P, jo) /\ P[jo].start \in Nat
      BY <1>5, <2>1, <2>2, <3>1, <3>2, <3>3
    <3>5. CASE c.words > 0
      BY <1>2, <1>8, <1>17, <2>1, <3>4, <3>5
    <3>6. CASE c.words = 0
      BY <1>2, <1>4, <1>17, <2>1, <3>4, <3>6
    <3> QED  BY <1>7, <3>5, <3>6
  <2>5. p = jo
    <3> SUFFICES ASSUME p > jo PROVE FALSE
      BY <1>2, <2>1, <2>4
    <3> DEFINE i == p - jo
    <3>1. i \in 1 .. q /\ jo + i = p
      BY <1>2, <1>3, <2>1, <2>3
    <3> HIDE DEF i
    <3>2. P[jo + i].tag # t
      BY <1>9, <3>1
    <3> QED  BY <2>1, <3>1, <3>2
  <2>6. k <= wr + c.words /\ wr < k
    BY <1>4, <1>17, <2>1, <2>5
  <2>7. c.words > 0
    BY <1>2, <1>7, <2>1, <2>6
  <2> QED  BY <1>8, <2>1, <2>5, <2>7 DEF p
<1>18. ASSUME c.words > 0, c.tag = t
       PROVE  /\ End(P, jo) \in 1 .. lw /\ wr < End(P, jo) /\ W[End(P, jo)].tag = t
              /\ W[End(P, jo)].place = d - 1
              /\ \A k \in 1 .. lw : k <= End(P, jo) /\ W[k].piece = jo => W[k].place < d
  <2> DEFINE k1 == End(P, jo)
             s == P[jo].start
             n == P[jo].words
             pl == P[jo].place
  <2>1. /\ jo \in 1 .. lp /\ P[jo].tag = t /\ s <= wr
        /\ c.off + c.ioff = pl + (wr - s) /\ d = c.off + c.ioff + c.words
    BY <1>8, <1>18 DEF d
  <2>2. s \in Nat /\ n \in Nat /\ n > 0 /\ pl \in Nat /\ k1 = s + n /\ k1 \in 0 .. lw /\ wr + c.words = k1
    BY <1>4, <1>2, <1>5, <2>1
  <2>3. \A i \in 1 .. n : W[s + i] = [tag |-> P[jo].tag, place |-> pl + (i - 1), piece |-> jo]
    BY <1>1, <2>1 DEF Answered, P, W, lp
  <2> HIDE DEF k1, s, n, pl
  <2>4. d = pl + n
    <3>1. c.off + c.ioff = pl + (wr - s) /\ d = c.off + c.ioff + c.words
      BY <2>1
    <3>2. s \in Nat /\ n \in Nat /\ pl \in Nat /\ wr + c.words = s + n
      BY <2>2
    <3> DEFINE co == c.off
               ci == c.ioff
               cw == c.words
    <3>3. /\ co + ci = pl + (wr - s) /\ d = co + ci + cw /\ wr + cw = s + n
          /\ co \in Nat /\ ci \in Nat /\ cw \in Nat /\ wr \in Nat
      BY <1>2, <1>7, <3>1, <3>2
    <3> HIDE DEF co, ci, cw
    <3>4. s \in Nat /\ n \in Nat /\ pl \in Nat
      BY <3>2
    <3>5. d = (pl + (wr - s)) + cw
      BY <3>3
    <3> HIDE DEF d
    <3>6. (pl + (wr - s)) + cw = pl + n
      BY <3>3, <3>4
    <3> QED  BY <3>5, <3>6
  <2>5. W[s + n] = [tag |-> P[jo].tag, place |-> pl + (n - 1), piece |-> jo]
    <3>1. n \in 1 .. n
      BY <2>2
    <3> QED  BY <2>3, <3>1, Zenon
  <2>6. k1 \in 1 .. lw /\ wr < k1
    BY <1>2, <1>7, <1>18, <2>2
  <2>7. W[k1].tag = t /\ W[k1].place = d - 1
    <3>1. W[k1] = W[s + n]
      BY <2>2
    <3>2. pl + (n - 1) = d - 1
      BY <2>2, <2>4
    <3> QED  BY <2>1, <2>5, <3>1, <3>2
  <2>8. ASSUME NEW k \in 1 .. lw, k <= k1, W[k].piece = jo PROVE W[k].place < d
    <3>1. W[k].place = pl + ((k - s) - 1)
      BY <1>6, <2>8 DEF pl, s
    <3> QED  BY <1>2, <2>2, <2>4, <2>8, <3>1
  <2> QED  BY <2>6, <2>7, <2>8 DEF k1
<1> DEFINE pm == P[m].place
<1>19. pm \in Nat /\ W[j0].place = pm
  BY <1>15
<1>20. pm >= d
  <2>1. CASE c.words > 0 /\ c.tag = t
    <3> DEFINE k1 == End(P, jo)
    <3>1. k1 \in 1 .. lw /\ wr < k1 /\ W[k1].tag = t /\ W[k1].place = d - 1 /\ k1 < j0
      BY <1>15, <1>18, <2>1
    <3> HIDE DEF k1, j0
    <3>2. W[k1].place < W[j0].place
      BY <1>10, <1>15, <3>1 DEF j0
    <3> QED  BY <1>7, <1>19, <3>1, <3>2
  <2>2. CASE ~(c.words > 0 /\ c.tag = t)
    BY <1>7, <1>11, <1>16, <2>2
  <2> QED  BY <2>1, <2>2
<1>21. ~(pm > d)
  <2> SUFFICES ASSUME pm > d PROVE FALSE
    OBVIOUS
  <2>1. Written(t) <= d
    BY <1>7, <1>11
  <2>2. d < g.recv[t]
    BY <1>7, <1>13, <1>16, <1>19
  <2>3. PICK k \in 1 .. lw : k > wr /\ W[k].tag = t /\ W[k].place = d
    BY <1>7, <1>10, <1>16, <2>1, <2>2
  <2> HIDE DEF j0
  <2>4. CASE k < j0
    <3>1. W[k].piece = jo /\ c.words > 0 /\ c.tag = t
      BY <1>2, <1>17, <2>3, <2>4
    <3>2. k <= End(P, jo)
      BY <1>6, <3>1
    <3>3. W[k].place < d
      BY <1>18, <3>1, <3>2
    <3> QED  BY <1>7, <2>3, <3>3
  <2>5. CASE k > j0
    <3>1. W[j0].place < W[k].place
      BY <1>10, <1>15, <2>3, <2>5 DEF j0
    <3> QED  BY <1>7, <1>19, <2>3, <3>1
  <2>6. CASE k = j0
    BY <1>7, <1>19, <2>3, <2>6
  <2> QED  BY <1>2, <1>15, <2>4, <2>5, <2>6 DEF j0
<1> QED  BY <1>7, <1>19, <1>20, <1>21 DEF P, t, d

(* The length of the burst, and how much of it is done, are looked up.     *)
LEMMA UpdateReadBurst1Told ==
  ASSUME ReadInv, NEW g \in Ghost, Told(g), updateReadBurst1
  PROVE  Told(g)'
<1>1. AskTypeOK /\ LinkTypeOK /\ JoinTypeOK /\ Joined
  BY DEF ReadInv, JoinInv
<1> DEFINE P == g.pieces
           r == Len(readBurstQ)
           q == Len(burstUpdReqQ)
           m == g.joined + q + 1
<1>2. PICK b : b = readBurstQ[1]
  OBVIOUS
<1>3. PICK t : t = b.tag
  OBVIOUS
<1>4. UNCHANGED <<askVars, splitVars, reads, tlpQ, completionRecv, dmaReadWordQ,
                  tagWordsLeft, readReorder, doneVars, orderVars, outVars,
                  freeReadTagQ, freeReadTagFQ, tagMap, dmaReadTagOrderQ>>
  BY DEF updateReadBurst1
<1>5. /\ r \in Nat \ {0} /\ Len(readBurstQ') = r - 1 /\ Head(readBurstQ) = b
      /\ b \in [tag : Tags, words : Nat]
      /\ \A i \in 1 .. r - 1 : readBurstQ'[i] = readBurstQ[i + 1]
  BY <1>1, <1>2, TakenOut DEF LinkTypeOK, updateReadBurst1
<1>6. t \in Tags /\ b.words \in Nat
  BY <1>3, <1>5
<1> DEFINE u == [tag |-> t, words |-> b.words, req |-> tagMap[t].req, done |-> tagMap[t].done]
<1>7. /\ ~Searched(t)
      /\ readCompletionsb' = Append(readCompletionsb, t)
      /\ burstUpdReqQ' = Append(burstUpdReqQ, u)
  BY <1>3, <1>5 DEF updateReadBurst1
<1>8. /\ u \in [tag : Tags, words : Nat, req : Lengths, done : Lengths]
      /\ u.tag = t /\ u.words = b.words /\ u.req = tagMap[t].req /\ u.done = tagMap[t].done
  <2>1. tagMap[t] \in [req : Lengths, done : Lengths]
    BY <1>1, <1>6 DEF JoinTypeOK
  <2> QED  BY <1>6, <2>1
<1> HIDE DEF u
<1>9. /\ q \in Nat /\ Len(burstUpdReqQ') = q + 1 /\ burstUpdReqQ'[q + 1] = u
      /\ \A k \in 1 .. q : burstUpdReqQ'[k] = burstUpdReqQ[k]
  BY <1>1, <1>7, <1>8, PutIn DEF JoinTypeOK
<1>10. /\ readCompletionsb'[q + 1] = t
       /\ \A k \in 1 .. q : readCompletionsb'[k] = readCompletionsb[k]
  <2>1. readCompletionsb \in Seq(Tags) /\ Len(readCompletionsb) = q
    BY <1>1 DEF JoinTypeOK, Joined
  <2> QED  BY <1>6, <1>7, <2>1, PutIn
<1>11. \A k \in 1 .. q : burstUpdReqQ[k].tag # t
  <2> TAKE k \in 1 .. q
  <2>1. readCompletionsb[k] = burstUpdReqQ[k].tag
    BY DEF Told, Joining
  <2>2. readCompletionsb \in Seq(Tags) /\ Len(readCompletionsb) = q
    BY <1>1 DEF JoinTypeOK, Joined
  <2>3. DOMAIN readCompletionsb = 1 .. q
    BY <2>2, LenProperties
  <2> QED  BY <1>7, <2>1, <2>3 DEF Searched
<1>12. /\ \A k \in 1 .. r : LET j == g.joined + q + k IN
             readBurstQ[k].tag = P[j].tag /\ readBurstQ[k].words = P[j].words
  BY DEF Told, Joining
<1>13. t = P[m].tag /\ b.words = P[m].words
  <2>1. 1 \in 1 .. r
    BY <1>5
  <2> QED  BY <1>2, <1>3, <1>12, <2>1
<1>14. m \in 1 .. Len(P) /\ m > g.joined /\ g.joined \in Nat
  <2>1. /\ g.joined \in Nat /\ Headed(g) = g.joined + q + r /\ Headed(g) <= Len(P)
        /\ Len(P) \in Nat
    BY Waits, GhostTypes DEF Headed
  <2> HIDE DEF q, r
  <2> QED  BY <1>5, <1>9, <2>1, SMTT(40)
<1>15. P[m].place = tagMap[t].done
  BY <1>11, <1>13, <1>14, NextPiece
<1>16. tagMap[t].req = Mine(g, t).words
  <2>1. g.stage[t] = "wait"
    BY <1>13, <1>14, Waits
  <2>2. g.turned < g.cur[t]
    BY <1>6, <2>1 DEF Told, Staged
  <2>3. g.cur[t] > g.flushed
    <3>1. g.flushed <= g.read /\ g.read <= g.turned
      BY Bounds
    <3>2. g.flushed \in Nat /\ g.read \in Nat /\ g.turned \in Nat /\ g.cur[t] \in Nat
      BY <1>6, GhostTypes
    <3> QED  BY <2>2, <3>1, <3>2
  <2> QED  BY <1>6, <2>3 DEF Told, Staged
<1> HIDE DEF q, r, m
<1>17. Headed(g)' = Headed(g) /\ Got(g)' = Got(g)
  <2>1. Headed(g)' = g.joined + (q + 1) + (r - 1) /\ Headed(g) = g.joined + q + r
    BY <1>5, <1>9 DEF Headed, q, r
  <2>2. Got(g)' = Got(g)
    BY <1>4 DEF Got
  <2>3. g.joined \in Nat
    BY GhostTypes
  <2>4. q \in Nat /\ r \in Nat
    BY <1>5, <1>9
  <2>5. g.joined + (q + 1) + (r - 1) = g.joined + q + r
    BY <2>3, <2>4
  <2> QED  BY <2>1, <2>2, <2>5
<1>18. Linked(g)'
  <2>1. \A k : Value(g, k)' = Value(g, k)
    BY DEF Value, Mine
  <2> QED  BY <1>4, <1>17, <2>1 DEF Told, Linked
<1>19. Joining(g)'
  <2>1. \A t2 : Mine(g, t2)' = Mine(g, t2)
    BY DEF Mine
  <2>2. \A k \in 1 .. q + 1 : k \in 1 .. q \/ k = q + 1
    BY <1>9
  <2>3. ASSUME NEW k \in 1 .. q + 1
        PROVE  LET v == burstUpdReqQ'[k] IN
                 /\ v.tag = P[g.joined + k].tag /\ v.words = P[g.joined + k].words
                 /\ v.done = P[g.joined + k].place /\ v.done = tagMap[v.tag].done
                 /\ v.req = Mine(g, v.tag).words
                 /\ readCompletionsb'[k] = v.tag
    <3>1. CASE k \in 1 .. q
      <4>1. burstUpdReqQ'[k] = burstUpdReqQ[k] /\ readCompletionsb'[k] = readCompletionsb[k]
        BY <1>9, <1>10, <3>1
      <4> QED  BY <3>1, <4>1 DEF Told, Joining, q
    <3>2. CASE k = q + 1
      <4>1. g.joined + k = m
        BY <1>9, <1>14, <3>2 DEF m
      <4>2. burstUpdReqQ'[k] = u /\ readCompletionsb'[k] = t
        BY <1>9, <1>10, <3>2
      <4> QED  BY <1>8, <1>13, <1>15, <1>16, <4>1, <4>2
    <3> QED  BY <2>2, <3>1, <3>2
  <2>4. \A j, k \in 1 .. q + 1 : burstUpdReqQ'[j].tag = burstUpdReqQ'[k].tag => j = k
    <3>1. \A j, k \in 1 .. q : burstUpdReqQ[j].tag = burstUpdReqQ[k].tag => j = k
      BY DEF Told, Joining, q
    <3> QED  BY <1>8, <1>9, <1>11, <2>2, <3>1
  <2>5. \A k \in 1 .. r - 1 :
          LET j == g.joined + (q + 1) + k IN
            readBurstQ'[k].tag = P[j].tag /\ readBurstQ'[k].words = P[j].words
    <3> TAKE k \in 1 .. r - 1
    <3>1. k + 1 \in 1 .. r /\ g.joined + (q + 1) + k = g.joined + q + (k + 1)
      <4>1. q \in Nat /\ r \in Nat /\ g.joined \in Nat /\ k \in 1 .. r - 1
        BY <1>5, <1>9, <1>14
      <4> QED  BY <4>1
    <3>2. readBurstQ'[k] = readBurstQ[k + 1]
      BY <1>5
    <3>3. LET j == g.joined + q + (k + 1) IN
            readBurstQ[k + 1].tag = P[j].tag /\ readBurstQ[k + 1].words = P[j].words
      BY <1>12, <3>1
    <3> QED  BY <3>1, <3>2, <3>3
  <2>6. Len(burstUpdReqQ') = q + 1 /\ Len(readBurstQ') = r - 1 /\ tagWordsLeft' = tagWordsLeft /\ tagMap' = tagMap
    BY <1>4, <1>5, <1>9
  <2> DEFINE c == tagWordsLeft
  <2>7. /\ g.written + c.words = End(P, g.joined)
        /\ c.words > 0 =>
             /\ c.tag = P[g.joined].tag /\ P[g.joined].start <= g.written
             /\ c.off + c.ioff = P[g.joined].place + (g.written - P[g.joined].start)
             /\ c.req = Mine(g, c.tag).words
             /\ tagMap[c.tag].done = c.off + c.ioff + c.words
    BY DEF Told, Joining
  <2> QED  BY <2>1, <2>3, <2>4, <2>5, <2>6, <2>7 DEF Joining
<1>20. Told(g)'
  BY <1>1, <1>4, <1>18, <1>19, CutFrame, InOrderFrame, PagedFrame, OwnedFrame, StagedFrame,
     ReadingFrame, AnsweredFrame, ComingFrame, KeptFrame, FlushedFrame
  DEF Told, askVars, splitVars, doneVars, orderVars, outVars
<1> QED  BY <1>20

(* The words of the next piece are due, right behind those done.           *)
LEMMA UpdateReadBurst2Told ==
  ASSUME ReadInv, NEW g \in Ghost, Told(g), updateReadBurst2
  PROVE  \E h \in Ghost : Told(h)'
<1>1. AskTypeOK /\ LinkTypeOK /\ JoinTypeOK /\ Joined
  BY DEF ReadInv, JoinInv
<1> DEFINE P == g.pieces
           W == g.words
           lp == Len(P)
           lw == Len(W)
           r == Len(readBurstQ)
           q == Len(burstUpdReqQ)
           m == g.joined + 1
<1>2. PICK u : u = burstUpdReqQ[1]
  OBVIOUS
<1>3. PICK t : t = u.tag
  OBVIOUS
<1>4. PICK n : n = u.words
  OBVIOUS
<1>5. /\ UNCHANGED <<askVars, splitVars, linkVars, readReorder, doneVars, orderVars,
                     outVars, freeReadTagQ, freeReadTagFQ, dmaReadTagOrderQ>>
      /\ tagWordsLeft.words = 0
  BY DEF updateReadBurst2
<1>6. /\ q \in Nat \ {0} /\ Len(burstUpdReqQ') = q - 1 /\ Head(burstUpdReqQ) = u
      /\ u \in [tag : Tags, words : Nat, req : Lengths, done : Lengths]
      /\ \A i \in 1 .. q - 1 : burstUpdReqQ'[i] = burstUpdReqQ[i + 1]
  <2> DEFINE E == [tag : Tags, words : Nat, req : Lengths, done : Lengths]
             b == burstUpdReqQ
  <2>1. b \in Seq(E) /\ b # <<>> /\ b' = Tail(b)
    BY <1>1 DEF JoinTypeOK, updateReadBurst2
  <2> HIDE DEF E, b
  <2>2. /\ Len(Tail(b)) = Len(b) - 1 /\ Len(b) \in Nat \ {0}
        /\ \A k \in 1 .. Len(b) - 1 : Tail(b)[k] = b[k + 1]
        /\ Head(b) = b[1] /\ b[1] \in E
    BY <2>1, TakenOut
  <2> QED  BY <1>2, <2>1, <2>2 DEF E, b
<1>7. /\ \A i \in 1 .. q - 1 : readCompletionsb'[i] = readCompletionsb[i + 1]
  <2>1. /\ readCompletionsb \in Seq(Tags) /\ Len(readCompletionsb) = q
        /\ readCompletionsb' = Tail(readCompletionsb)
    BY <1>1 DEF JoinTypeOK, Joined, updateReadBurst2, Unscored
  <2>2. readCompletionsb # <<>>
    BY <1>6, <2>1, EmptySeq
  <2> QED  BY <2>1, <2>2, TakenOut
<1>8. t \in Tags /\ n \in Nat /\ u.req \in Nat /\ u.done \in Nat /\ MaxBurst \in Nat
  BY <1>3, <1>4, <1>6, EntryTypes DEF Lengths
<1>9. /\ \A k \in 1 .. q : /\ burstUpdReqQ[k].tag = P[g.joined + k].tag
                           /\ burstUpdReqQ[k].words = P[g.joined + k].words
                           /\ burstUpdReqQ[k].done = P[g.joined + k].place
                           /\ burstUpdReqQ[k].done = tagMap[burstUpdReqQ[k].tag].done
                           /\ burstUpdReqQ[k].req = Mine(g, burstUpdReqQ[k].tag).words
                           /\ readCompletionsb[k] = burstUpdReqQ[k].tag
      /\ \A j, k \in 1 .. q : burstUpdReqQ[j].tag = burstUpdReqQ[k].tag => j = k
      /\ \A k \in 1 .. r : LET j == g.joined + q + k IN
             readBurstQ[k].tag = P[j].tag /\ readBurstQ[k].words = P[j].words
      /\ g.written + tagWordsLeft.words = End(P, g.joined)
  BY DEF Told, Joining
<1>10. /\ t = P[m].tag /\ n = P[m].words /\ u.done = P[m].place
       /\ u.done = tagMap[t].done /\ u.req = Mine(g, t).words
  <2>1. 1 \in 1 .. q
    BY <1>6
  <2> QED  BY <1>2, <1>3, <1>4, <1>9, <2>1
<1>11. /\ lp \in Nat /\ lw \in Nat /\ r \in Nat /\ g.joined \in Nat /\ g.written \in Nat
       /\ m \in 1 .. lp
  <2>1. /\ g.joined \in Nat /\ Headed(g) = g.joined + q + r /\ Headed(g) <= lp
        /\ lp \in Nat /\ r \in Nat /\ lw \in Nat /\ g.written \in Nat
    BY Waits, GhostTypes DEF Headed
  <2> HIDE DEF q, r, lp
  <2> QED  BY <1>6, <2>1, SMTT(40)
<1>12. Answered(g)
  BY DEF Told
<1>13. /\ P[m].start = g.written /\ End(P, m) = g.written + n /\ n > 0 /\ g.written + n <= lw
  <2>1. /\ P[m].start = End(P, m - 1) /\ End(P, m) = P[m].start + P[m].words /\ P[m].words > 0
        /\ End(P, m) <= lw
    BY <1>11, <1>12, PieceEnds, Entries
  <2>2. m - 1 = g.joined /\ g.written + 0 = g.written
    BY <1>11
  <2>3. g.written + tagWordsLeft.words = End(P, g.joined)
    BY <1>9
  <2>4. g.written = End(P, g.joined)
    BY <1>5, <2>2, <2>3
  <2> QED  BY <1>10, <2>1, <2>2, <2>4
(* The last word of the piece is one that the burst waits for.             *)
<1>14. u.done + n <= u.req
  <2>1. \A i \in 1 .. n : W[g.written + i] = [tag |-> t, place |-> u.done + (i - 1), piece |-> m]
    BY <1>10, <1>11, <1>12, <1>13, ZenonT(40) DEF Answered
  <2>2. W[g.written + n] = [tag |-> t, place |-> u.done + (n - 1), piece |-> m]
    <3>1. n \in 1 .. n
      BY <1>8, <1>13
    <3> QED  BY <2>1, <3>1, Zenon
  <2>3. g.written + n \in 1 .. lw /\ g.written + n > g.written
    <3> HIDE DEF lw
    <3> QED  BY <1>8, <1>11, <1>13, SMTT(40)
  <2>4. g.stage[t] = "wait" /\ u.done + (n - 1) < g.recv[t]
    <3>1. W[g.written + n].tag = t /\ W[g.written + n].place = u.done + (n - 1)
      BY <2>2
    <3> QED  BY <2>3, <3>1 DEF Told, Coming
  <2>5. g.recv[t] <= u.req /\ g.recv[t] \in Nat
    <3>1. Coming(g)
      BY DEF Told
    <3>2. g.recv[t] <= Mine(g, t).words
      BY ONLY <1>8, <2>4, <3>1 DEF Coming
    <3>3. g.recv[t] \in Nat
      BY <1>8, GhostTypes
    <3> QED  BY ONLY <1>10, <3>2, <3>3
  <2> QED  BY <1>8, <2>4, <2>5, SMTT(40)
<1>15. /\ tagWordsLeft' = [tag |-> t, off |-> u.done, words |-> n, ioff |-> 0, req |-> u.req]
       /\ tagMap' = [tagMap EXCEPT ![t] = [req |-> u.req, done |-> u.done + n]]
  <2>1. Least(u.words, u.req - u.done) = n
    BY <1>4, <1>8, <1>14 DEF Least
  <2> QED  BY <1>3, <1>6, <2>1 DEF updateReadBurst2
<1>16. /\ tagMap'[t].req = u.req /\ tagMap'[t].done = u.done + n
       /\ \A v \in Tags : v # t => tagMap'[v] = tagMap[v]
  BY <1>1, <1>8, <1>15 DEF JoinTypeOK
<1>17. \A v \in Tags : Written(v)' = Written(v)
  <2> TAKE v \in Tags
  <2>1. CASE v = t
    <3>1. Written(v) = u.done - 0
      BY <1>5, <1>10, <2>1 DEF Written
    <3>2. Written(v)' = (u.done + n) - n
      BY <1>8, <1>13, <1>15, <1>16, <2>1 DEF Written
    <3> QED  BY <1>8, <3>1, <3>2
  <2>2. CASE v # t
    BY <1>5, <1>15, <1>16, <2>2 DEF Written
  <2> QED  BY <2>1, <2>2
<1> DEFINE h == [g EXCEPT !.joined = m]
<1>18. m \in Nat
  BY <1>11
<1> HIDE DEF m, q, r
<1>19. /\ h \in Ghost /\ h.asks = g.asks /\ h.taken = g.taken /\ h.bursts = g.bursts /\ h.cur = g.cur
       /\ h.sent = g.sent /\ h.turned = g.turned /\ h.read = g.read /\ h.flushed = g.flushed
       /\ h.stage = g.stage /\ h.recv = g.recv /\ h.pieces = g.pieces /\ h.joined = m
       /\ h.words = g.words /\ h.written = g.written
  BY <1>18 DEF Ghost
<1> HIDE DEF h
<1>20. \A v : Mine(h, v) = Mine(g, v) /\ Mine(h, v)' = Mine(h, v)
  BY <1>19 DEF Mine
<1>21. Staged(h)'
  <2>1. UNCHANGED <<orderTagMap, doneTagMap, doneMap, readDoneTagQ, doneShifter>>
    BY <1>5 DEF doneVars, orderVars
  <2>2. \A v \in Tags : Ready(v)' <=> Ready(v)
    BY <2>1 DEF Ready
  <2>3. \A v \in Tags :
             /\ g.stage[v] # "idle" => g.turned < g.cur[v] /\ g.cur[v] <= g.sent
             /\ Ready(v) <=> g.stage[v] = "ready"
             /\ g.cur[v] > g.flushed => tagMap[v].req = Mine(g, v).words
             /\ g.cur[v] > g.sent => g.recv[v] = 0 /\ tagMap[v].done = 0
             /\ \/ g.stage[v] \in {"passing", "ready"}
                \/ g.read < g.cur[v] /\ g.cur[v] <= g.turned
                => doneMap[v] = Mine(g, v).words
    BY DEF Told, Staged
  <2>4. ~(g.cur[t] > g.sent)
    <3>1. g.stage[t] = "wait"
      <4>1. m \in 1 .. lp /\ t = P[m].tag
        BY <1>10, <1>11
      <4>2. m > g.joined
        BY <1>11 DEF m
      <4> QED  BY <4>1, <4>2, Waits
    <3>2. g.cur[t] <= g.sent /\ g.cur[t] \in Nat /\ g.sent \in Nat
      BY <1>8, <2>3, <3>1, GhostTypes
    <3> QED  BY <3>2
  <2>5. ASSUME NEW v \in Tags
        PROVE  /\ g.cur[v] > g.flushed => tagMap'[v].req = Mine(g, v).words
               /\ g.cur[v] > g.sent => g.recv[v] = 0 /\ tagMap'[v].done = 0
    BY <1>10, <1>16, <2>3, <2>4
  <2>6. /\ \A k \in 1 .. Len(readDoneTagQ) :
             /\ g.stage[readDoneTagQ[k].tag] = "done"
             /\ readDoneTagQ[k].words = Mine(g, readDoneTagQ[k].tag).words
        /\ \A j, k \in 1 .. Len(readDoneTagQ) : readDoneTagQ[j].tag = readDoneTagQ[k].tag => j = k
        /\ \A k \in 1 .. Len(doneShifter) : g.stage[doneShifter[k]] = "passing"
        /\ \A j, k \in 1 .. Len(doneShifter) : doneShifter[j] = doneShifter[k] => j = k
    BY DEF Told, Staged
  <2> QED  BY <1>19, <1>20, <2>1, <2>2, <2>3, <2>5, <2>6 DEF Staged
<1>22. Headed(h)' = Headed(g) /\ Got(h)' = Got(g)
  <2>1. Headed(h)' = m + (q - 1) + r /\ Headed(g) = g.joined + q + r
    BY <1>5, <1>6, <1>19 DEF Headed, linkVars, q, r
  <2>2. Got(h)' = Got(g)
    BY <1>5, <1>19 DEF Got, linkVars
  <2>3. m + (q - 1) + r = g.joined + q + r
    BY <1>6, <1>11 DEF m
  <2> QED  BY <2>1, <2>2, <2>3
<1>23. Linked(h)'
  <2>1. \A k : Value(h, k)' = Value(g, k)
    BY <1>19, <1>20 DEF Value
  <2>2. UNCHANGED <<dmaReadWordQ, completionRecv, tlpQ>>
    BY <1>5 DEF linkVars
  <2> QED  BY <1>19, <1>22, <2>1, <2>2, ZenonT(40) DEF Told, Linked
<1>24. Joining(h)'
  <2>1. ASSUME NEW k \in 1 .. q - 1
        PROVE  LET v == burstUpdReqQ'[k] IN
                 /\ v.tag = P[m + k].tag /\ v.words = P[m + k].words
                 /\ v.done = P[m + k].place /\ v.done = tagMap'[v.tag].done
                 /\ v.req = Mine(g, v.tag).words
                 /\ readCompletionsb'[k] = v.tag
    <3>0. q \in Nat \ {0} /\ g.joined \in Nat /\ m = g.joined + 1
      BY <1>6, <1>11 DEF m
    <3>1. k + 1 \in 1 .. q /\ k + 1 # 1 /\ g.joined + (k + 1) = m + k /\ 1 \in 1 .. q
      BY <3>0
    <3>2. burstUpdReqQ'[k] = burstUpdReqQ[k + 1] /\ readCompletionsb'[k] = readCompletionsb[k + 1]
      BY <1>6, <1>7
    <3>3. burstUpdReqQ[k + 1].tag # t
      BY <1>2, <1>3, <1>9, <3>1
    <3>4. burstUpdReqQ[k + 1].tag \in Tags
      <4>1. burstUpdReqQ[k + 1] \in [tag : Tags, words : Nat, req : Lengths, done : Lengths]
        BY <1>1, <3>1, ElementOfSeq DEF JoinTypeOK, q
      <4> QED  BY <4>1
    <3>5. /\ burstUpdReqQ[k + 1].tag = P[m + k].tag
          /\ burstUpdReqQ[k + 1].words = P[m + k].words
          /\ burstUpdReqQ[k + 1].done = P[m + k].place
          /\ burstUpdReqQ[k + 1].done = tagMap[burstUpdReqQ[k + 1].tag].done
          /\ burstUpdReqQ[k + 1].req = Mine(g, burstUpdReqQ[k + 1].tag).words
          /\ readCompletionsb[k + 1] = burstUpdReqQ[k + 1].tag
      BY <1>9, <3>1
    <3> QED  BY <1>16, <3>2, <3>3, <3>4, <3>5
  <2>2. \A j, k \in 1 .. q - 1 : burstUpdReqQ'[j].tag = burstUpdReqQ'[k].tag => j = k
    <3> SUFFICES ASSUME NEW j \in 1 .. q - 1, NEW k \in 1 .. q - 1, burstUpdReqQ'[j].tag = burstUpdReqQ'[k].tag
                 PROVE  j = k
      OBVIOUS
    <3>1. j + 1 \in 1 .. q /\ k + 1 \in 1 .. q
      BY <1>6
    <3>2. j + 1 = k + 1
      BY <1>6, <1>9, <3>1, SMTT(40)
    <3> QED  BY <1>6, <3>2
  <2>3. \A k \in 1 .. r :
          LET j == m + (q - 1) + k IN
            readBurstQ[k].tag = P[j].tag /\ readBurstQ[k].words = P[j].words
    <3> TAKE k \in 1 .. r
    <3>1. m + (q - 1) + k = g.joined + q + k
      BY <1>6, <1>11 DEF m
    <3> QED  BY <1>9, <3>1
  <2>4. /\ Len(burstUpdReqQ') = q - 1 /\ readBurstQ' = readBurstQ
    BY <1>5, <1>6 DEF linkVars
  <2>5. /\ tagWordsLeft'.tag = t /\ tagWordsLeft'.off = u.done /\ tagWordsLeft'.words = n
        /\ tagWordsLeft'.ioff = 0 /\ tagWordsLeft'.req = u.req
    BY <1>15
  <2>6. /\ g.written + n = End(P, m)
        /\ t = P[m].tag /\ P[m].start <= g.written
        /\ u.done + 0 = P[m].place + (g.written - P[m].start)
        /\ u.req = Mine(g, t).words
        /\ tagMap'[t].done = u.done + 0 + n
    BY <1>8, <1>10, <1>11, <1>13, <1>16
  <2> QED  BY <1>19, <1>20, <2>1, <2>2, <2>3, <2>4, <2>5, <2>6 DEF Joining, r
<1>25. Coming(h)'
  <2>1. \A k \in 1 .. Len(W) : W[k].tag \in Tags
    BY Entries
  <2> QED  BY <1>17, <1>19, <1>20, <2>1 DEF Told, Coming
<1>26. Kept(h)'
  <2>1. readReorder' = readReorder
    BY <1>5
  <2> QED  BY <1>17, <1>19, <1>20, <2>1 DEF Told, Kept, Holds
<1>27. Told(h)'
  BY <1>1, <1>5, <1>19, <1>21, <1>23, <1>24, <1>25, <1>26, CutFrame, InOrderFrame, PagedFrame, OwnedFrame,
     ReadingFrame, AnsweredFrame, FlushedFrame
  DEF Told, askVars, splitVars, linkVars, doneVars, orderVars, outVars
<1> QED  BY <1>19, <1>27

(* A word is put behind those of its burst; the last completes the burst.  *)
LEMMA WriteReadBufferTold ==
  ASSUME ReadInv, NEW g \in Ghost, Told(g), writeReadBuffer
  PROVE  \E h \in Ghost : Told(h)'
<1>1. AskTypeOK /\ LinkTypeOK /\ JoinTypeOK /\ Joined /\ OrderTypeOK /\ OutTypeOK /\ Flushing
  BY DEF ReadInv, JoinInv, OutInv
<1> DEFINE P == g.pieces
           W == g.words
           lp == Len(P)
           lw == Len(W)
           wr == g.written
           k0 == wr + 1
           c == tagWordsLeft
           w == Len(dmaReadWordQ)
<1>2. PICK t : t = c.tag
  OBVIOUS
<1>3. PICK at : at = c.off + c.ioff
  OBVIOUS
<1>4. PICK n : n = c.words
  OBVIOUS
<1>5. PICK v : v = dmaReadWordQ[1]
  OBVIOUS
<1>6. PICK jo : jo = g.joined
  OBVIOUS
<1>7. PICK mw : mw = Mine(g, t).words
  OBVIOUS
<1>8. UNCHANGED <<askVars, splitVars, reads, tlpQ, completionRecv, readBurstQ,
                  readCompletionsb, burstUpdReqQ, doneMap, doneShifter, doneTagMap,
                  orderVars, outVars, freeReadTagQ, freeReadTagFQ, tagMap,
                  dmaReadTagOrderQ>>
  BY DEF writeReadBuffer
<1>9. /\ t \in Tags /\ n \in Nat /\ n > 0 /\ at \in Nat /\ c.off \in Nat /\ c.ioff \in Nat
      /\ at < MaxBurst /\ MaxBurst \in Nat
  <2>1. /\ c.off \in Nat /\ c.ioff \in Nat /\ c.words \in Nat /\ c.req \in 0 .. MaxBurst
        /\ c.words > 0 /\ MaxBurst \in Nat
    BY <1>1, EntryTypes DEF JoinTypeOK, writeReadBuffer, Lengths
  <2>2. t \in Tags /\ c.off + c.ioff + c.words <= c.req
    BY <1>1, <1>2, <2>1 DEF Joined
  <2>3. n \in Nat /\ n > 0 /\ at = c.off + c.ioff /\ at + n <= c.req
    BY <1>3, <1>4, <2>1, <2>2
  <2> QED  BY <2>1, <2>2, <2>3
<1>10. /\ w \in Nat \ {0} /\ Len(dmaReadWordQ') = w - 1 /\ Head(dmaReadWordQ) = v /\ v \in Words
       /\ \A i \in 1 .. w - 1 : dmaReadWordQ'[i] = dmaReadWordQ[i + 1]
  BY <1>1, <1>5, TakenOut DEF LinkTypeOK, writeReadBuffer
<1>11. /\ c.tag = P[jo].tag /\ P[jo].start <= wr
       /\ at = P[jo].place + (wr - P[jo].start)
       /\ c.req = mw /\ tagMap[t].done = at + n
       /\ wr + n = End(P, jo) /\ jo \in 1 .. lp /\ g.stage[t] = "wait"
  <2>1. c.words > 0
    BY DEF writeReadBuffer
  <2> QED  BY <1>2, <1>3, <1>4, <1>6, <1>7, <2>1, Waits DEF Told, Joining
<1>12. Answered(g)
  BY DEF Told
<1>13. /\ P[jo].start \in Nat /\ P[jo].words \in Nat /\ P[jo].place \in Nat /\ wr \in Nat /\ lw \in Nat
       /\ End(P, jo) = P[jo].start + P[jo].words /\ End(P, jo) <= lw
  BY <1>11, <1>12, PieceEnds, Entries, GhostTypes
<1>14. k0 \in 1 .. lw /\ W[k0].tag = t /\ W[k0].place = at
  <2> DEFINE s == P[jo].start
             pw == P[jo].words
             pl == P[jo].place
             i0 == k0 - s
             e == End(P, jo)
  <2>1. \A i \in 1 .. pw : W[s + i] = [tag |-> P[jo].tag, place |-> pl + (i - 1), piece |-> jo]
    BY <1>11, <1>12 DEF Answered
  <2>2. s \in Nat /\ pw \in Nat /\ pl \in Nat /\ wr + n = e /\ e = s + pw /\ e <= lw /\ s <= wr /\ at = pl + (wr - s)
    BY <1>11, <1>13
  <2> HIDE DEF s, pw, pl, e, lw
  <2>3. k0 \in 1 .. lw /\ i0 \in 1 .. pw /\ s + i0 = k0 /\ pl + (i0 - 1) = at
    <3>1. lw \in Nat /\ wr \in Nat /\ n \in Nat /\ n > 0
      BY <1>9, <1>13 DEF lw
    <3> HIDE DEF wr
    <3> QED  BY <2>2, <3>1
  <2> HIDE DEF i0
  <2>4. W[s + i0] = [tag |-> P[jo].tag, place |-> pl + (i0 - 1), piece |-> jo]
    BY <2>1, <2>3, Zenon
  <2>5. W[k0].tag = P[jo].tag /\ W[k0].place = pl + (i0 - 1)
    BY <2>3, <2>4
  <2> QED  BY <1>2, <1>11, <2>3, <2>5
<1>15. v = Mine(g, t).base + at
  <2>1. dmaReadWordQ[1] = Value(g, wr + 1)
    <3>1. 1 \in 1 .. w
      BY <1>10
    <3> QED  BY <3>1 DEF Told, Linked
  <2> QED  BY <1>5, <1>14, <2>1 DEF Value
<1>16. /\ \A k \in 1 .. lw : k > wr =>
            g.stage[W[k].tag] = "wait" /\ Written(W[k].tag) <= W[k].place /\ W[k].place < g.recv[W[k].tag]
       /\ \A j, k \in 1 .. lw :
            wr < j /\ j < k /\ W[j].tag = W[k].tag => W[j].place < W[k].place
       /\ \A u \in Tags : g.stage[u] = "wait" =>
            /\ g.recv[u] <= Mine(g, u).words /\ Written(u) \in 0 .. g.recv[u]
            /\ \A i \in 0 .. MaxBurst : Written(u) <= i /\ i < g.recv[u] =>
                 \E k \in 1 .. lw : k > wr /\ W[k].tag = u /\ W[k].place = i
  BY DEF Told, Coming
<1>17. k0 > wr /\ k0 \in Nat
  BY <1>13
<1>18. /\ at < g.recv[t] /\ g.recv[t] <= mw /\ g.recv[t] \in Nat /\ mw \in Nat
  <2>1. at < g.recv[t] /\ g.recv[t] <= mw /\ g.recv[t] \in Nat
    <3> HIDE DEF P, W, lw, lp, wr, k0
    <3>1. W[k0].place < g.recv[W[k0].tag]
      BY <1>14, <1>16, <1>17
    <3>2. g.recv[t] <= Mine(g, t).words
      BY <1>9, <1>11, <1>16
    <3>3. g.recv[t] \in Nat
      BY <1>9, GhostTypes
    <3> QED  BY <1>7, <1>14, <3>1, <3>2, <3>3
  <2>2. mw \in Nat
    <3>1. c.req \in Nat
      BY <1>1, EntryTypes DEF JoinTypeOK, Lengths
    <3> QED  BY <1>11, <3>1
  <2> QED  BY <2>1, <2>2
<1>19. PICK push \in BOOLEAN : push <=> (n = 1 /\ at + 1 >= mw)
  OBVIOUS
<1>20. push => n = 1 /\ at + 1 = mw /\ g.recv[t] = mw
  BY <1>9, <1>18, <1>19
<1> DEFINE x == [tag |-> t, words |-> at + 1]
<1>21. /\ tagWordsLeft' = [c EXCEPT !.words = n - 1, !.ioff = c.ioff + 1]
       /\ readReorder' = [readReorder EXCEPT ![t][at] = v]
       /\ push => readDoneTagQ' = Append(readDoneTagQ, x)
       /\ ~push => readDoneTagQ' = readDoneTagQ
  <2>1. c.words = 1 /\ (c.off + c.ioff) + 1 >= c.req <=> push
    BY <1>3, <1>4, <1>11, <1>19
  <2>2. /\ tagWordsLeft' = [c EXCEPT !.words = c.words - 1, !.ioff = c.ioff + 1]
        /\ readReorder' = [readReorder EXCEPT ![c.tag][c.off + c.ioff] = Head(dmaReadWordQ)]
        /\ IF c.words = 1 /\ (c.off + c.ioff) + 1 >= c.req
             THEN readDoneTagQ' = Append(readDoneTagQ, [tag |-> c.tag, words |-> (c.off + c.ioff) + 1])
             ELSE readDoneTagQ' = readDoneTagQ
    BY DEF writeReadBuffer
  <2> QED  BY <1>2, <1>3, <1>4, <1>10, <2>1, <2>2
<1>22. /\ tagWordsLeft'.tag = t /\ tagWordsLeft'.words = n - 1 /\ tagWordsLeft'.off = c.off
       /\ tagWordsLeft'.ioff = c.ioff + 1 /\ tagWordsLeft'.req = mw
       /\ tagWordsLeft'.off + tagWordsLeft'.ioff = at + 1
  <2>1. c \in [tag : Tags \cup {NoTag}, off : Lengths, words : Lengths, ioff : Lengths, req : Lengths]
    BY <1>1 DEF JoinTypeOK
  <2>2. c.off + (c.ioff + 1) = (c.off + c.ioff) + 1
    BY <1>9
  <2> QED  BY <1>2, <1>3, <1>11, <1>21, <2>1, <2>2
<1>23. /\ readReorder'[t][at] = v
       /\ \A i \in 0 .. MaxBurst - 1 : i # at => readReorder'[t][i] = readReorder[t][i]
       /\ \A u \in Tags : u # t => readReorder'[u] = readReorder[u]
  <2>1. readReorder' = [readReorder EXCEPT ![t] = [readReorder[t] EXCEPT ![at] = v]]
    BY <1>21
  <2>2. readReorder[t] \in [0 .. MaxBurst - 1 -> Words] /\ at \in 0 .. MaxBurst - 1
    BY <1>1, <1>9 DEF JoinTypeOK
  <2>3. readReorder'[t] = [readReorder[t] EXCEPT ![at] = v]
        /\ \A u \in Tags : u # t => readReorder'[u] = readReorder[u]
    BY <1>1, <1>9, <2>1 DEF JoinTypeOK
  <2> QED  BY <2>2, <2>3
<1>24. /\ Written(t) = at /\ Written(t)' = at + 1
       /\ \A u \in Tags : u # t => Written(u)' = Written(u)
  <2>1. Written(t) = (at + n) - n
    BY <1>2, <1>4, <1>9, <1>11 DEF Written
  <2>2. tagMap' = tagMap
    BY <1>8
  <2>3. Written(t)' = (at + n) - (n - 1)
    <3>1. CASE n - 1 > 0
      BY <1>11, <1>22, <2>2, <3>1 DEF Written
    <3>2. CASE ~(n - 1 > 0)
      <4>1. n - 1 = 0
        BY <1>9, <3>2
      <4>2. Written(t)' = (at + n) - 0
        BY <1>11, <1>22, <2>2, <3>2 DEF Written
      <4> QED  BY <4>1, <4>2
    <3> QED  BY <3>1, <3>2
  <2>4. \A u \in Tags : u # t => Written(u)' = Written(u)
    BY <1>2, <1>22, <2>2 DEF Written
  <2> QED  BY <1>9, <2>1, <2>3, <2>4
<1> DEFINE stage == [g.stage EXCEPT ![t] = IF push THEN "done" ELSE "wait"]
           h == [g EXCEPT !.stage = stage, !.written = k0]
<1>25. /\ stage \in [Tags -> Stages] /\ stage[t] = IF push THEN "done" ELSE "wait"
       /\ \A u \in Tags : u # t => stage[u] = g.stage[u]
  BY <1>9, GhostTypes DEF Stages
<1> HIDE DEF stage, k0
<1>26. /\ h \in Ghost /\ h.asks = g.asks /\ h.taken = g.taken /\ h.bursts = g.bursts /\ h.cur = g.cur
       /\ h.sent = g.sent /\ h.turned = g.turned /\ h.read = g.read /\ h.flushed = g.flushed
       /\ h.stage = stage /\ h.recv = g.recv /\ h.pieces = g.pieces /\ h.joined = g.joined
       /\ h.words = g.words /\ h.written = k0
  BY <1>17, <1>25 DEF Ghost
<1> HIDE DEF h
<1>27. \A u : Mine(h, u) = Mine(g, u) /\ Mine(h, u)' = Mine(h, u)
  BY <1>26 DEF Mine
<1>28. \A u \in Tags :
             /\ g.stage[u] # "idle" => g.turned < g.cur[u] /\ g.cur[u] <= g.sent
             /\ Ready(u) <=> g.stage[u] = "ready"
             /\ g.cur[u] > g.flushed => tagMap[u].req = Mine(g, u).words
             /\ g.cur[u] > g.sent => g.recv[u] = 0 /\ tagMap[u].done = 0
             /\ \/ g.stage[u] \in {"passing", "ready"}
                \/ g.read < g.cur[u] /\ g.cur[u] <= g.turned
                => doneMap[u] = Mine(g, u).words
  BY DEF Told, Staged
<1> HIDE DEF P, W, lp, lw, wr, c, w, x
<1>29. Staged(h)'
  <2> DEFINE d == Len(readDoneTagQ)
  <2>1. UNCHANGED <<orderTagMap, doneTagMap, doneMap, doneShifter, tagMap>>
    BY <1>8 DEF orderVars
  <2>2. \A u \in Tags : Ready(u)' <=> Ready(u)
    BY <2>1 DEF Ready
  <2>3. \A u \in Tags :
             /\ stage[u] # "idle" => g.stage[u] # "idle"
             /\ g.stage[u] = "ready" <=> stage[u] = "ready"
             /\ stage[u] \in {"passing", "ready"} => g.stage[u] \in {"passing", "ready"}
    BY <1>11, <1>25
  <2>6. /\ \A k \in 1 .. d :
             /\ g.stage[readDoneTagQ[k].tag] = "done"
             /\ readDoneTagQ[k].words = Mine(g, readDoneTagQ[k].tag).words
        /\ \A j, k \in 1 .. d : readDoneTagQ[j].tag = readDoneTagQ[k].tag => j = k
        /\ \A k \in 1 .. Len(doneShifter) : g.stage[doneShifter[k]] = "passing"
        /\ \A j, k \in 1 .. Len(doneShifter) : doneShifter[j] = doneShifter[k] => j = k
    BY DEF Told, Staged
  <2>7. \A k \in 1 .. d : readDoneTagQ[k].tag \in Tags
    <3> TAKE k \in 1 .. d
    <3>1. readDoneTagQ[k] \in [tag : Tags, words : Lengths]
      BY <1>1, ElementOfSeq DEF OrderTypeOK
    <3> QED  BY <3>1
  <2>8. \A k \in 1 .. d : readDoneTagQ[k].tag # t /\ stage[readDoneTagQ[k].tag] = "done"
    BY <1>11, <1>25, <2>6, <2>7
  <2>9. \A k \in 1 .. Len(doneShifter) : stage[doneShifter[k]] = "passing"
    <3> TAKE k \in 1 .. Len(doneShifter)
    <3>1. doneShifter[k] \in Tags
      BY <1>1, ElementOfSeq DEF OrderTypeOK
    <3> QED  BY <1>11, <1>25, <2>6, <3>1
  <2>10. /\ \A k \in 1 .. Len(readDoneTagQ') :
             /\ stage[readDoneTagQ'[k].tag] = "done"
             /\ readDoneTagQ'[k].words = Mine(g, readDoneTagQ'[k].tag).words
         /\ \A j, k \in 1 .. Len(readDoneTagQ') : readDoneTagQ'[j].tag = readDoneTagQ'[k].tag => j = k
    <3>1. CASE ~push
      BY <1>21, <2>6, <2>8, <3>1
    <3>2. CASE push
      <4>1. x \in [tag : Tags, words : Lengths] /\ x.tag = t /\ x.words = mw
        <5>1. at + 1 \in Lengths
          BY <1>9 DEF Lengths
        <5> QED  BY <1>9, <1>20, <3>2, <5>1 DEF x
      <4>2. /\ d \in Nat /\ Len(readDoneTagQ') = d + 1 /\ readDoneTagQ'[d + 1] = x
            /\ \A k \in 1 .. d : readDoneTagQ'[k] = readDoneTagQ[k]
        BY <1>1, <1>21, <3>2, <4>1, PutIn DEF OrderTypeOK
      <4>3. \A k \in 1 .. d + 1 : k \in 1 .. d \/ k = d + 1
        BY <4>2
      <4> HIDE DEF d
      <4>4. \A k \in 1 .. d + 1 :
              /\ stage[readDoneTagQ'[k].tag] = "done"
              /\ readDoneTagQ'[k].words = Mine(g, readDoneTagQ'[k].tag).words
        BY <1>7, <1>25, <2>6, <2>8, <3>2, <4>1, <4>2, <4>3
      <4>5. \A j, k \in 1 .. d + 1 : readDoneTagQ'[j].tag = readDoneTagQ'[k].tag => j = k
        BY <2>6, <2>8, <4>1, <4>2, <4>3
      <4> QED  BY <4>2, <4>4, <4>5
    <3> QED  BY <3>1, <3>2
  <2> HIDE DEF d
  <2> QED  BY <1>26, <1>27, <1>28, <2>1, <2>2, <2>3, <2>6, <2>9, <2>10 DEF Staged
<1>30. Reading(h)'
  <2> SUFFICES ASSUME NEW r \in reads
               PROVE  /\ stage[r.tag] = "wait" /\ r.words > 0
                      /\ g.recv[r.tag] + r.words = Mine(g, r.tag).words
                      /\ r.bus = Mine(g, r.tag).base + g.recv[r.tag]
    BY <1>8, <1>26, <1>27 DEF Reading
  <2>1. r.tag \in Tags /\ r.words \in Nat
    BY <1>1, EntryTypes DEF LinkTypeOK, Burst, Lengths
  <2>2. /\ g.stage[r.tag] = "wait" /\ r.words > 0
        /\ g.recv[r.tag] + r.words = Mine(g, r.tag).words
        /\ r.bus = Mine(g, r.tag).base + g.recv[r.tag]
    BY DEF Told, Reading
  <2>3. stage[r.tag] = "wait"
    <3>1. CASE r.tag # t
      BY <1>25, <2>1, <2>2, <3>1
    <3>2. CASE r.tag = t /\ ~push
      BY <1>25, <3>2
    <3>3. CASE r.tag = t /\ push
      <4>1. g.recv[t] + r.words = mw
        BY <1>7, <2>2, <3>3
      <4> QED  BY <1>18, <1>20, <2>1, <2>2, <3>3, <4>1
    <3> QED  BY <3>1, <3>2, <3>3
  <2> QED  BY <2>2, <2>3
<1>31. Got(h)' = Got(g) /\ Headed(h)' = Headed(g)
  <2>1. Got(h)' = k0 + (w - 1) /\ Got(g) = wr + w
    BY <1>10, <1>26 DEF Got, w, wr
  <2>2. Headed(h)' = Headed(g)
    BY <1>8, <1>26 DEF Headed
  <2> QED  BY <1>10, <1>13, <2>1, <2>2 DEF k0
<1>32. Linked(h)'
  <2>1. \A k : Value(h, k)' = Value(g, k)
    BY <1>26, <1>27 DEF Value
  <2>2. \A k \in 1 .. w - 1 : dmaReadWordQ'[k] = Value(g, k0 + k)
    <3> TAKE k \in 1 .. w - 1
    <3>1. k + 1 \in 1 .. w /\ wr + (k + 1) = k0 + k
      <4>1. w \in Nat /\ wr \in Nat /\ k \in 1 .. w - 1 /\ k0 = wr + 1
        BY <1>10, <1>13 DEF k0
      <4> HIDE DEF w, wr, k0
      <4> QED  BY ONLY <4>1
    <3>2. dmaReadWordQ[k + 1] = Value(g, wr + (k + 1))
      <4>1. Linked(g)
        BY DEF Told
      <4> QED  BY <3>1, <4>1 DEF Linked, w, wr
    <3> QED  BY <1>10, <3>1, <3>2
  <2>3. Len(dmaReadWordQ') = w - 1 /\ tlpQ' = tlpQ /\ completionRecv' = completionRecv
    BY <1>8, <1>10, SMTT(40)
  <2> QED  BY <1>26, <1>31, <2>1, <2>2, <2>3, ZenonT(40) DEF Told, Linked
<1>33. Joining(h)'
  <2>1. k0 + (n - 1) = End(P, jo)
    BY <1>9, <1>11, <1>13 DEF k0
  <2>2. /\ t = P[jo].tag /\ P[jo].start <= k0
        /\ at + 1 = P[jo].place + (k0 - P[jo].start)
        /\ mw = Mine(g, t).words
        /\ tagMap[t].done = (at + 1) + (n - 1)
    <3> DEFINE s == P[jo].start
               pl == P[jo].place
    <3>1. s \in Nat /\ pl \in Nat /\ s <= wr /\ at = pl + (wr - s)
      BY <1>11, <1>13
    <3> HIDE DEF s, pl
    <3>2. s <= k0 /\ at + 1 = pl + (k0 - s) /\ at + n = (at + 1) + (n - 1)
      BY <1>9, <1>13, <3>1 DEF k0
    <3> QED  BY <1>2, <1>7, <1>11, <3>2 DEF s, pl, c
  <2>3. UNCHANGED <<tagMap, burstUpdReqQ, readCompletionsb, readBurstQ>>
    BY <1>8
  <2>4. /\ \A k \in 1 .. Len(burstUpdReqQ) :
             LET u == burstUpdReqQ[k] IN
               /\ u.tag = P[jo + k].tag /\ u.words = P[jo + k].words
               /\ u.done = P[jo + k].place /\ u.done = tagMap[u.tag].done
               /\ u.req = Mine(g, u.tag).words
               /\ readCompletionsb[k] = u.tag
        /\ \A j, k \in 1 .. Len(burstUpdReqQ) :
             burstUpdReqQ[j].tag = burstUpdReqQ[k].tag => j = k
        /\ \A k \in 1 .. Len(readBurstQ) :
             LET m == jo + Len(burstUpdReqQ) + k IN
               readBurstQ[k].tag = P[m].tag /\ readBurstQ[k].words = P[m].words
    BY <1>6 DEF Told, Joining, P
  <2>5. h.written + tagWordsLeft'.words = End(h.pieces, h.joined)
    BY <1>6, <1>22, <1>26, <2>1 DEF P
  <2>6. /\ tagWordsLeft'.tag = h.pieces[h.joined].tag /\ h.pieces[h.joined].start <= h.written
        /\ tagWordsLeft'.off + tagWordsLeft'.ioff
             = h.pieces[h.joined].place + (h.written - h.pieces[h.joined].start)
        /\ tagWordsLeft'.req = Mine(h, tagWordsLeft'.tag).words
        /\ tagMap'[tagWordsLeft'.tag].done
             = tagWordsLeft'.off + tagWordsLeft'.ioff + tagWordsLeft'.words
    BY <1>6, <1>22, <1>26, <1>27, <2>2, <2>3 DEF P
  <2>7. \A k \in 1 .. Len(burstUpdReqQ') :
          LET u == burstUpdReqQ'[k] IN
            /\ u.tag = h.pieces[h.joined + k].tag /\ u.words = h.pieces[h.joined + k].words
            /\ u.done = h.pieces[h.joined + k].place /\ u.done = tagMap'[u.tag].done
            /\ u.req = Mine(h, u.tag).words
            /\ readCompletionsb'[k] = u.tag
    BY <1>6, <1>26, <1>27, <2>3, <2>4 DEF P
  <2>8. \A k \in 1 .. Len(readBurstQ') :
          LET m == h.joined + Len(burstUpdReqQ') + k IN
            readBurstQ'[k].tag = h.pieces[m].tag /\ readBurstQ'[k].words = h.pieces[m].words
    BY <1>6, <1>26, <2>3, <2>4 DEF P
  <2> QED  BY <1>26, <1>27, <2>3, <2>4, <2>5, <2>6, <2>7, <2>8 DEF Joining
<1>34. \A k \in 1 .. lw : k > k0 => k > wr /\ k0 < k
  BY <1>13 DEF k0
<1>35. \A k \in 1 .. lw : W[k].tag \in Tags /\ W[k].place \in Nat
  BY Entries DEF W, lw
<1>36. ASSUME NEW k \in 1 .. lw, k > k0, W[k].tag = t
       PROVE  ~push /\ at + 1 <= W[k].place
  <2>1. at < W[k].place
    BY <1>14, <1>16, <1>17, <1>34, <1>36
  <2>2. W[k].place < g.recv[t]
    BY <1>16, <1>34, <1>36
  <2> QED  BY <1>9, <1>18, <1>20, <1>35, <2>1, <2>2
<1>37. Coming(h)'
  <2>1. \A k \in 1 .. lw : k > k0 =>
            /\ stage[W[k].tag] = "wait"
            /\ Written(W[k].tag)' <= W[k].place /\ W[k].place < g.recv[W[k].tag]
    <3> SUFFICES ASSUME NEW k \in 1 .. lw, k > k0
                 PROVE  /\ stage[W[k].tag] = "wait"
                        /\ Written(W[k].tag)' <= W[k].place /\ W[k].place < g.recv[W[k].tag]
      OBVIOUS
    <3>1. /\ g.stage[W[k].tag] = "wait" /\ Written(W[k].tag) <= W[k].place
          /\ W[k].place < g.recv[W[k].tag]
      BY <1>16, <1>34
    <3>2. CASE W[k].tag = t
      BY <1>24, <1>25, <1>36, <3>1, <3>2
    <3>3. CASE W[k].tag # t
      BY <1>24, <1>25, <1>35, <3>1, <3>3
    <3> QED  BY <3>2, <3>3
  <2>2. \A j, k \in 1 .. lw : k0 < j /\ j < k /\ W[j].tag = W[k].tag => W[j].place < W[k].place
    BY <1>16, <1>34
  <2>3. ASSUME NEW u \in Tags, stage[u] = "wait"
        PROVE  /\ g.recv[u] <= Mine(g, u).words /\ Written(u)' \in 0 .. g.recv[u]
               /\ \A i \in 0 .. MaxBurst : Written(u)' <= i /\ i < g.recv[u] =>
                    \E k \in 1 .. lw : k > k0 /\ W[k].tag = u /\ W[k].place = i
    <3>1. g.stage[u] = "wait"
      BY <1>11, <1>25, <2>3
    <3>2. /\ g.recv[u] <= Mine(g, u).words /\ Written(u) \in 0 .. g.recv[u]
          /\ \A i \in 0 .. MaxBurst : Written(u) <= i /\ i < g.recv[u] =>
               \E k \in 1 .. lw : k > wr /\ W[k].tag = u /\ W[k].place = i
      BY <1>16, <3>1
    <3>3. \A k \in 1 .. lw : k > wr => k > k0 \/ k = k0
      BY <1>13 DEF k0
    <3>4. CASE u = t
      <4>1. Written(u)' \in 0 .. g.recv[u]
        BY <1>9, <1>18, <1>24, <3>4
      <4>2. ASSUME NEW i \in 0 .. MaxBurst, Written(u)' <= i, i < g.recv[u]
            PROVE  \E k \in 1 .. lw : k > k0 /\ W[k].tag = u /\ W[k].place = i
        <5>1. at + 1 <= i /\ i \in Nat
          BY <1>9, <1>24, <3>4, <4>2
        <5>2. Written(u) <= i /\ i # at
          BY <1>9, <1>24, <3>4, <5>1
        <5>3. PICK k \in 1 .. lw : k > wr /\ W[k].tag = u /\ W[k].place = i
          BY <3>2, <4>2, <5>2
        <5>4. k # k0
          BY <1>14, <5>2, <5>3
        <5> QED  BY <3>3, <5>3, <5>4
      <4> QED  BY <3>2, <4>1, <4>2
    <3>5. CASE u # t
      <4>1. Written(u)' = Written(u)
        BY <1>24, <3>5
      <4>2. \A k \in 1 .. lw : k > wr /\ W[k].tag = u => k > k0
        BY <1>14, <3>3, <3>5
      <4> QED  BY <3>2, <4>1, <4>2
    <3> QED  BY <3>4, <3>5
  <2> QED  BY <1>26, <1>27, <2>1, <2>2, <2>3 DEF Coming, W, lw
<1>38. Kept(h)'
  <2>1. \A u \in Tags :
            /\ g.stage[u] = "wait" => Holds(g, u, Written(u))
            /\ g.stage[u] \in {"done", "passing", "ready"} => Holds(g, u, Mine(g, u).words)
            /\ g.flushed < g.cur[u] /\ g.cur[u] <= g.turned => Holds(g, u, Mine(g, u).words)
    BY DEF Told, Kept
  <2>2. \A i \in 0 .. MaxBurst - 1 : i < at + 1 => readReorder'[t][i] = Mine(g, t).base + i
    <3> SUFFICES ASSUME NEW i \in 0 .. MaxBurst - 1, i < at + 1
                 PROVE  readReorder'[t][i] = Mine(g, t).base + i
      OBVIOUS
    <3>1. CASE i = at
      BY <1>15, <1>23, <3>1
    <3>2. CASE i # at
      <4>1. i < at
        BY <1>9, <3>2
      <4>2. Holds(g, t, at)
        BY <1>9, <1>11, <1>24, <2>1
      <4> QED  BY <1>23, <3>2, <4>1, <4>2 DEF Holds
    <3> QED  BY <3>1, <3>2
  <2>3. \A u \in Tags : \A z : u # t /\ Holds(g, u, z) =>
           \A i \in 0 .. MaxBurst - 1 : i < z => readReorder'[u][i] = Mine(g, u).base + i
    BY <1>23 DEF Holds
  <2>4. ASSUME NEW u \in Tags
        PROVE  /\ stage[u] = "wait" =>
                    \A i \in 0 .. MaxBurst - 1 : i < Written(u)' => readReorder'[u][i] = Mine(g, u).base + i
               /\ stage[u] \in {"done", "passing", "ready"} \/ (g.flushed < g.cur[u] /\ g.cur[u] <= g.turned) =>
                    \A i \in 0 .. MaxBurst - 1 : i < Mine(g, u).words => readReorder'[u][i] = Mine(g, u).base + i
    <3>1. CASE u = t
      <4>1. ~(g.cur[t] <= g.turned)
        <5>1. g.turned < g.cur[t] /\ g.turned \in Nat /\ g.cur[t] \in Nat
          BY <1>9, <1>11, <1>28, GhostTypes
        <5> QED  BY <5>1
      <4>2. stage[u] \in {"done", "passing", "ready"} => Mine(g, u).words = at + 1
        BY <1>7, <1>20, <1>25, <3>1
      <4> QED  BY <1>24, <2>2, <3>1, <4>1, <4>2
    <3>2. CASE u # t
      <4>1. Written(u)' = Written(u) /\ stage[u] = g.stage[u]
        BY <1>24, <1>25, <3>2
      <4> QED  BY <2>1, <2>3, <3>2, <4>1
    <3> QED  BY <3>1, <3>2
  <2> QED  BY <1>26, <1>27, <2>4 DEF Kept, Holds
<1>39. Flushed(h)'
  <2> DEFINE f == readFlushTag
             end == End(g.bursts, g.flushed)
  <2>1. /\ Len(delivered) + Len(dmaReadOutQ) + f.left = end
        /\ \A k \in 1 .. Len(dmaReadOutQ) : dmaReadOutQ[k] = asked[Len(delivered) + k]
        /\ f.left > 0 =>
             /\ f.words <= end
             /\ \A i \in 0 .. MaxBurst - 1 : f.words - f.left <= i /\ i < f.words =>
                  readReorder[f.tag][i] = asked[(end - f.words) + i + 1]
             /\ \A k \in 1 .. lw : k > wr => W[k].tag # f.tag
    BY DEF Told, Flushed, lw, W, wr
  <2>2. f.left > 0 => f.tag \in Tags /\ f.tag # t
    BY <1>1, <1>14, <1>17, <2>1 DEF Flushing
  <2>3. f.left > 0 => readReorder'[f.tag] = readReorder[f.tag]
    BY <1>23, <2>2
  <2>4. f.left > 0 => \A k \in 1 .. lw : k > k0 => W[k].tag # f.tag
    BY <1>34, <2>1
  <2>5. UNCHANGED <<readFlushTag, delivered, dmaReadOutQ, asked>>
    BY <1>8 DEF outVars, askVars
  <2> QED  BY <1>26, <2>1, <2>3, <2>4, <2>5 DEF Flushed, lw, W
<1>40. Told(h)'
  BY <1>1, <1>8, <1>26, <1>29, <1>30, <1>32, <1>33, <1>37, <1>38, <1>39, CutFrame, InOrderFrame,
     PagedFrame, OwnedFrame, AnsweredFrame
  DEF Told, askVars, splitVars, orderVars
<1> QED  BY <1>26, <1>40

(* The root complex answers the next words of a burst: they follow those   *)
(* it answered before, and a piece more is on the link.                    *)
LEMMA RootComplexTold ==
  ASSUME ReadInv, NEW g \in Ghost, Told(g), NEW t \in Tags, RootComplex(t)
  PROVE  \E h \in Ghost : Told(h)'
<1>1. AskTypeOK /\ LinkTypeOK /\ JoinTypeOK /\ Joined /\ OutTypeOK /\ Flushing
  BY DEF ReadInv, JoinInv, OutInv
<1>2. UNCHANGED <<askVars, splitVars, completionRecv, dmaReadWordQ, readBurstQ,
                  joinVars, doneVars, orderVars, outVars,
                  freeReadTagQ, freeReadTagFQ, tagMap, dmaReadTagOrderQ>>
  BY DEF RootComplex
<1>3. PICK r \in reads, n \in 1 .. MaxBurst :
        /\ r.tag = t /\ n <= r.words
        /\ tlpQ' = tlpQ \o <<[head |-> TRUE, tag |-> t, val |-> n]>>
                        \o [i \in 1 .. n |-> [head |-> FALSE, tag |-> t,
                                              val |-> r.bus + i - 1]]
        /\ reads' = (reads \ {r}) \cup
             (IF n = r.words THEN {}
              ELSE {[tag |-> t, words |-> r.words - n, bus |-> r.bus + n]})
  BY DEF RootComplex
<1> DEFINE P == g.pieces
           W == g.words
           lp == Len(P)
           lw == Len(W)
           lq == Len(tlpQ)
           got == Got(g)
           hd == Headed(g)
           wr == g.written
<1>4. PICK rc : rc = g.recv[t]
  OBVIOUS
<1>5. PICK b : b = Mine(g, t).base
  OBVIOUS
<1>6. PICK mw : mw = Mine(g, t).words
  OBVIOUS
<1>7. /\ r.words \in Nat /\ r.words <= MaxBurst /\ r.bus \in Nat
      /\ r = [tag |-> t, words |-> r.words, bus |-> r.bus]
      /\ n \in Nat /\ n > 0 /\ n <= r.words /\ MaxBurst \in Nat
  <2>1. r \in [tag : Tags, words : Lengths, bus : Nat] /\ MaxBurst \in Nat
    BY <1>1, EntryTypes DEF LinkTypeOK, Burst
  <2> QED  BY <1>3, <2>1 DEF Lengths
<1>8. g.stage[t] = "wait" /\ rc + r.words = mw /\ r.bus = b + rc /\ rc \in Nat
  <2>1. /\ g.stage[r.tag] = "wait" /\ g.recv[r.tag] + r.words = Mine(g, r.tag).words
        /\ r.bus = Mine(g, r.tag).base + g.recv[r.tag]
    BY DEF Told, Reading
  <2>2. g.recv[t] \in Nat
    BY GhostTypes
  <2> QED  BY <1>3, <1>4, <1>5, <1>6, <2>1, <2>2
<1>9. g.turned < g.cur[t] /\ g.cur[t] <= g.sent /\ g.sent \in Nat /\ g.cur[t] \in Nat
      /\ g.sent <= Len(g.bursts)
  <2>1. g.turned < g.cur[t] /\ g.cur[t] <= g.sent
    BY <1>8 DEF Told, Staged
  <2>2. Len(g.bursts) = g.sent + Len(dmaPageReadReqQ) /\ Len(dmaPageReadReqQ) \in Nat
    BY <1>1, LenProperties DEF Told, Paged, AskTypeOK
  <2> QED  BY <2>1, <2>2, GhostTypes
<1>10. b \in Nat /\ mw \in 1 .. MaxBurst
  <2>1. g.cur[t] \in 1 .. Len(g.bursts)
    <3>1. Len(g.bursts) \in Nat /\ g.turned \in Nat
      BY GhostTypes, Entries
    <3> QED  BY <1>9, <3>1
  <2> QED  BY <1>5, <1>6, <2>1, Entries DEF Mine
<1>11. lp \in Nat /\ lw \in Nat /\ got \in Nat /\ hd \in Nat /\ hd <= lp /\ got <= lw
       /\ wr \in Nat /\ wr <= got
  BY Waits, GhostTypes
<1> DEFINE x == [tag |-> t, place |-> rc, words |-> n, start |-> lw]
           N == [i \in 1 .. n |-> [tag |-> t, place |-> rc + (i - 1), piece |-> lp + 1]]
           P2 == Append(P, x)
           W2 == W \o N
<1>12. x \in PieceEntry /\ x.tag = t /\ x.place = rc /\ x.words = n /\ x.start = lw
  BY <1>7, <1>8, <1>11 DEF PieceEntry
<1>13. N \in Seq(WordEntry) /\ Len(N) = n
       /\ \A i \in 1 .. n : N[i] = [tag |-> t, place |-> rc + (i - 1), piece |-> lp + 1]
  <2>1. \A i \in 1 .. n : [tag |-> t, place |-> rc + (i - 1), piece |-> lp + 1] \in WordEntry
    <3> TAKE i \in 1 .. n
    <3>1. rc + (i - 1) \in Nat /\ lp + 1 \in Nat
      BY <1>7, <1>8, <1>11, SMTT(40)
    <3> QED  BY <3>1 DEF WordEntry
  <2>2. N \in [1 .. n -> WordEntry] /\ \A i \in 1 .. n : N[i] = [tag |-> t, place |-> rc + (i - 1), piece |-> lp + 1]
    BY <2>1
  <2> HIDE DEF N
  <2> QED  BY <1>7, <2>2, SeqDef, LenProperties
<1>14. /\ P2 \in Seq(PieceEntry) /\ Len(P2) = lp + 1 /\ P2[lp + 1] = x
       /\ \A m \in 1 .. lp : P2[m] = P[m]
  BY <1>12, GhostTypes, PutIn
<1>15. Answered(g)
  BY DEF Told
<1>16. /\ Tiles(P2, lw + n)
       /\ \A m \in 0 .. lp : End(P2, m) = End(P, m)
       /\ End(P2, lp + 1) = lw + n
  <2>1. Tiles(P, lw) /\ P \in Seq(PieceEntry) /\ Spans(PieceEntry)
    BY <1>15, GhostTypes, EntryTypes DEF Answered
  <2>2. x \in PieceEntry /\ x.words = n /\ x.start = lw
    BY <1>12
  <2> HIDE DEF x, P, lw
  <2>3. /\ Tiles(P2, lw + n)
        /\ \A m \in 0 .. Len(P) : End(P2, m) = End(P, m)
        /\ End(P2, Len(P) + 1) = lw + n
    BY <2>1, <2>2, TilesAppend
  <2> QED  BY <2>3 DEF P
<1> HIDE DEF x, N
<1>17. /\ W2 \in Seq(WordEntry) /\ Len(W2) = lw + n
       /\ \A k \in 1 .. lw : W2[k] = W[k]
       /\ \A i \in 1 .. n : W2[lw + i] = [tag |-> t, place |-> rc + (i - 1), piece |-> lp + 1]
  <2> DEFINE u == W2
  <2>1. /\ u \in Seq(WordEntry) /\ Len(u) = lw + n
        /\ \A k \in 1 .. lw + n : u[k] = IF k <= lw THEN W[k] ELSE N[k - lw]
    BY <1>13, GhostTypes, ConcatProperties, ZenonT(40)
  <2> HIDE DEF u, W, lw
  <2>2. \A k \in 1 .. lw : u[k] = W[k]
    <3> TAKE k \in 1 .. lw
    <3>1. k \in 1 .. lw + n /\ k <= lw
      BY <1>7, <1>11
    <3> QED  BY <2>1, <3>1
  <2>3. \A i \in 1 .. n : u[lw + i] = [tag |-> t, place |-> rc + (i - 1), piece |-> lp + 1]
    <3> TAKE i \in 1 .. n
    <3> DEFINE k == lw + i
    <3>1. k \in 1 .. lw + n /\ ~(k <= lw) /\ k - lw = i
      BY <1>7, <1>11
    <3> HIDE DEF k
    <3>2. u[k] = N[k - lw]
      BY <2>1, <3>1
    <3> QED  BY <1>13, <3>1, <3>2 DEF k
  <2> QED  BY <2>1, <2>2, <2>3 DEF u, W, lw
<1> HIDE DEF P2, W2
<1>17a. \A i \in 1 .. n : /\ W2[lw + i].tag = t /\ W2[lw + i].place = rc + (i - 1)
                          /\ W2[lw + i].piece = lp + 1
  <2> TAKE i \in 1 .. n
  <2> DEFINE e == W2[lw + i]
             lq1 == lp + 1
             pl == rc + (i - 1)
  <2>1. e = [tag |-> t, place |-> pl, piece |-> lq1]
    BY <1>17
  <2> HIDE DEF e, lq1, pl
  <2>2. e.tag = t /\ e.place = pl /\ e.piece = lq1
    BY <2>1
  <2> QED  BY <2>2 DEF e, lq1, pl
<1> DEFINE recv == [g.recv EXCEPT ![t] = rc + n]
           h == [g EXCEPT !.pieces = P2, !.words = W2, !.recv = recv]
<1>18. /\ recv \in [Tags -> Nat] /\ recv[t] = rc + n
       /\ \A u \in Tags : u # t => recv[u] = g.recv[u]
  BY <1>7, <1>8, GhostTypes
<1> HIDE DEF recv
<1>19. /\ h \in Ghost /\ h.asks = g.asks /\ h.taken = g.taken /\ h.bursts = g.bursts /\ h.cur = g.cur
       /\ h.sent = g.sent /\ h.turned = g.turned /\ h.read = g.read /\ h.flushed = g.flushed
       /\ h.stage = g.stage /\ h.recv = recv /\ h.pieces = P2 /\ h.joined = g.joined
       /\ h.words = W2 /\ h.written = g.written
  BY <1>14, <1>17, <1>18 DEF Ghost
<1> HIDE DEF h
<1>20. \A u : Mine(h, u) = Mine(g, u) /\ Mine(h, u)' = Mine(h, u)
  BY <1>19 DEF Mine
<1>21. \A k \in 1 .. lw + n : k \in 1 .. lw \/ \E i \in 1 .. n : k = lw + i
  <2> HIDE DEF lw
  <2> TAKE k \in 1 .. lw + n
  <2>1. k \in 1 .. lw \/ (k - lw \in 1 .. n /\ k = lw + (k - lw))
    BY <1>7, <1>11, SMTT(40)
  <2> QED  BY <2>1
<1>22. Staged(h)'
  <2>1. UNCHANGED <<orderTagMap, doneTagMap, doneMap, doneShifter, readDoneTagQ, tagMap>>
    BY <1>2 DEF orderVars, doneVars
  <2>2. \A u \in Tags : Ready(u)' <=> Ready(u)
    BY <2>1 DEF Ready
  <2>3. \A u \in Tags : g.cur[u] > g.sent => recv[u] = g.recv[u]
    <3>1. ~(g.cur[t] > g.sent)
      BY <1>9
    <3> QED  BY <1>18, <3>1
  <2> QED  BY <1>19, <1>20, <2>1, <2>2, <2>3 DEF Told, Staged
<1>23. Reading(h)'
  <2> SUFFICES ASSUME NEW s \in reads'
               PROVE  /\ g.stage[s.tag] = "wait" /\ s.words > 0
                      /\ recv[s.tag] + s.words = Mine(g, s.tag).words
                      /\ s.bus = Mine(g, s.tag).base + recv[s.tag]
    BY <1>19, <1>20 DEF Reading
  <2>1. CASE s \in reads /\ s # r
    <3>1. /\ g.stage[s.tag] = "wait" /\ s.words > 0
          /\ g.recv[s.tag] + s.words = Mine(g, s.tag).words
          /\ s.bus = Mine(g, s.tag).base + g.recv[s.tag]
      BY <2>1 DEF Told, Reading
    <3>2. s \in [tag : Tags, words : Lengths, bus : Nat] /\ s.words \in Nat
      BY <1>1, <1>7, <2>1 DEF LinkTypeOK, Burst, Lengths
    <3>3. s.tag # t
      <4> SUFFICES ASSUME s.tag = t PROVE FALSE
        OBVIOUS
      <4>1. rc + s.words = mw /\ s.bus = b + rc
        BY <1>4, <1>5, <1>6, <3>1
      <4>2. s.words = r.words /\ s.bus = r.bus
        BY <1>7, <1>8, <3>2, <4>1
      <4>3. s = [tag |-> t, words |-> r.words, bus |-> r.bus]
        BY <3>2, <4>2
      <4> QED  BY <1>7, <2>1, <4>3
    <3> QED  BY <1>18, <3>1, <3>2, <3>3
  <2>2. CASE ~(s \in reads /\ s # r)
    <3>1. n # r.words /\ s = [tag |-> t, words |-> r.words - n, bus |-> r.bus + n]
      BY <1>3, <2>2
    <3>2. s.tag = t /\ s.words = r.words - n /\ s.bus = r.bus + n
      BY <3>1
    <3>3. r.words - n > 0 /\ (rc + n) + (r.words - n) = mw /\ r.bus + n = b + (rc + n)
      BY <1>7, <1>8, <1>10, <3>1
    <3> QED  BY <1>5, <1>6, <1>8, <1>18, <3>2, <3>3
  <2> QED  BY <2>1, <2>2
<1>24. Answered(h)'
  <2>1. ASSUME NEW m \in 1 .. lp + 1, NEW k \in 1 .. P2[m].words
        PROVE  W2[P2[m].start + k] =
                 [tag |-> P2[m].tag, place |-> P2[m].place + (k - 1), piece |-> m]
    <3>1. CASE m = lp + 1
      BY <1>12, <1>14, <1>17, <2>1, <3>1
    <3>2. CASE m # lp + 1
      <4>1. m \in 1 .. lp
        BY <1>11, <3>2
      <4>2. W[P[m].start + k] = [tag |-> P[m].tag, place |-> P[m].place + (k - 1), piece |-> m]
        BY <1>14, <1>15, <2>1, <4>1 DEF Answered
      <4>3. P[m].start + k \in 1 .. lw
        <5> DEFINE s == P[m].start
                   w == P[m].words
        <5>1. s \in Nat /\ w \in Nat /\ s + w <= lw /\ k \in 1 .. w
          BY <1>14, <1>15, <2>1, <4>1, PieceEnds, Entries
        <5> HIDE DEF s, w, lw
        <5>2. s + k \in 1 .. lw
          BY <1>11, <5>1
        <5> QED  BY <5>2 DEF s
      <4> QED  BY <1>14, <1>17, <4>1, <4>2, <4>3
    <3> QED  BY <3>1, <3>2
  <2>2. ASSUME NEW k \in 1 .. lw + n
        PROVE  LET m == W2[k].piece IN
                 m \in 1 .. lp + 1 /\ P2[m].start < k /\ k <= End(P2, m)
    <3>1. CASE k \in 1 .. lw
      <4>1. PICK m : m = W[k].piece
        OBVIOUS
      <4>2. m \in 1 .. lp /\ P[m].start < k /\ k <= End(P, m)
        BY <1>15, <3>1, <4>1 DEF Answered
      <4>3. m \in 0 .. lp /\ m \in 1 .. lp + 1
        BY <1>11, <4>2
      <4> QED  BY <1>14, <1>16, <1>17, <3>1, <4>1, <4>2, <4>3
    <3>2. CASE \E i \in 1 .. n : k = lw + i
      <4>1. PICK i \in 1 .. n : k = lw + i
        BY <3>2
      <4>2. W2[k].piece = lp + 1
        BY <1>17a, <4>1
      <4>3. lw < k /\ k <= lw + n /\ lp + 1 \in 1 .. lp + 1
        <5> HIDE DEF lw, lp
        <5> QED  BY <1>7, <1>11, <4>1
      <4> QED  BY <1>12, <1>14, <1>16, <4>2, <4>3
    <3> QED  BY <1>21, <3>1, <3>2
  <2> QED  BY <1>14, <1>16, <1>17, <1>19, <2>1, <2>2 DEF Answered
<1>25. Got(h)' = got /\ Headed(h)' = hd
  BY <1>2, <1>19 DEF Got, Headed, joinVars
<1>26. /\ Len(tlpQ') = (lq + 1) + n /\ lq \in Nat
       /\ \A i \in 1 .. lq : tlpQ'[i] = tlpQ[i]
       /\ tlpQ'[lq + 1].tag = t /\ tlpQ'[lq + 1].val = n
       /\ \A i \in 1 .. n : tlpQ'[(lq + 1) + i].val = b + (rc + (i - 1))
  <2> DEFINE a == [head |-> TRUE, tag |-> t, val |-> n]
             q == tlpQ \o <<a>>
             d == [i \in 1 .. n |-> [head |-> FALSE, tag |-> t, val |-> r.bus + i - 1]]
             B == Beat
  <2>1. a \in B /\ a.tag = t /\ a.val = n
    BY <1>7 DEF Beat
  <2>2. /\ d \in [1 .. n -> B]
        /\ \A i \in 1 .. n : d[i] = [head |-> FALSE, tag |-> t, val |-> r.bus + i - 1]
    <3>1. \A i \in 1 .. n : [head |-> FALSE, tag |-> t, val |-> r.bus + i - 1] \in B
      <4> TAKE i \in 1 .. n
      <4>1. r.bus + i - 1 \in Nat
        BY <1>7
      <4> QED  BY <4>1 DEF Beat
    <3> QED  BY <3>1
  <2>3. tlpQ' = q \o d /\ tlpQ \in Seq(B)
    BY <1>1, <1>3 DEF LinkTypeOK
  <2>4. <<a>> \in Seq(B) /\ Len(<<a>>) = 1 /\ <<a>>[1] = a
    BY <2>1
  <2> HIDE DEF a, d, B
  <2>5. d \in Seq(B) /\ Len(d) = n
    BY <1>7, <2>2, SeqDef, LenProperties
  <2>6. lq \in Nat
    BY <2>3, LenProperties
  <2> DEFINE o == <<a>>
  <2> HIDE DEF o
  <2>7. /\ q \in Seq(B) /\ Len(q) = lq + 1
        /\ \A i \in 1 .. lq + 1 : q[i] = IF i <= lq THEN tlpQ[i] ELSE o[i - lq]
    BY <2>3, <2>4, ConcatProperties DEF o
  <2> DEFINE z == tlpQ'
  <2> HIDE DEF q
  <2>8. /\ Len(z) = (lq + 1) + n
        /\ \A i \in 1 .. (lq + 1) + n : z[i] = IF i <= lq + 1 THEN q[i] ELSE d[i - (lq + 1)]
    <3>1. z = q \o d /\ q \in Seq(B) /\ d \in Seq(B)
      BY <2>3, <2>5, <2>7
    <3> HIDE DEF z
    <3>2. /\ Len(z) = Len(q) + Len(d)
          /\ \A i \in 1 .. Len(q) + Len(d) : z[i] = IF i <= Len(q) THEN q[i] ELSE d[i - Len(q)]
      BY <3>1, ConcatProperties
    <3>3. Len(q) = lq + 1 /\ Len(d) = n
      BY <2>5, <2>7
    <3> QED  BY <3>2, <3>3
  <2> HIDE DEF z, lq
  <2>9. \A i \in 1 .. lq : z[i] = tlpQ[i]
    <3> TAKE i \in 1 .. lq
    <3>1. i \in 1 .. lq + 1 /\ i \in 1 .. (lq + 1) + n /\ i <= lq /\ i <= lq + 1
      BY <1>7, <2>6
    <3> QED  BY <2>7, <2>8, <3>1
  <2>10. z[lq + 1] = a
    <3> DEFINE i == lq + 1
    <3>1. i \in 1 .. lq + 1 /\ i \in 1 .. (lq + 1) + n /\ ~(i <= lq) /\ i <= lq + 1 /\ i - lq = 1
      BY <1>7, <2>6
    <3> HIDE DEF i
    <3>2. z[i] = q[i] /\ q[i] = o[1]
      BY <2>7, <2>8, <3>1
    <3> QED  BY <2>4, <3>2 DEF i, o
  <2>11. \A i \in 1 .. n : z[(lq + 1) + i].val = b + (rc + (i - 1))
    <3> TAKE i \in 1 .. n
    <3> DEFINE j == (lq + 1) + i
    <3>1. j \in 1 .. (lq + 1) + n /\ ~(j <= lq + 1) /\ j - (lq + 1) = i
      BY <1>7, <2>6
    <3> HIDE DEF j
    <3>2. z[j] = d[i]
      BY <2>8, <3>1
    <3>3. r.bus + i - 1 = b + (rc + (i - 1))
      BY <1>8, <1>10
    <3> QED  BY <2>2, <3>2, <3>3 DEF j
  <2> QED  BY <2>1, <2>6, <2>8, <2>9, <2>10, <2>11 DEF z
<1>27. /\ got + completionRecv.words = End(P, hd)
       /\ completionRecv.words > 0 => completionRecv.words <= P[hd].words
       /\ lq + got + hd = lw + lp
       /\ \A m \in 1 .. lp : m > hd =>
            LET e == tlpQ[(P[m].start + m) - (got + hd)] IN e.tag = P[m].tag /\ e.val = P[m].words
       /\ \A k \in 1 .. lw : k > got =>
            tlpQ[(k + W[k].piece) - (got + hd)].val = Value(g, k)
       /\ \A k \in 1 .. Len(dmaReadWordQ) : dmaReadWordQ[k] = Value(g, wr + k)
  BY DEF Told, Linked
<1>28. /\ \A m \in 1 .. lp : m > hd => (P[m].start + m) - (got + hd) \in 1 .. lq
       /\ \A k \in 1 .. lw : k > got => (k + W[k].piece) - (got + hd) \in 1 .. lq
  BY LinkPlaces
<1>29. \A k \in 1 .. lw : Value(h, k)' = Value(g, k)
  BY <1>17, <1>19, <1>20 DEF Value
<1>30. \A i \in 1 .. n : Value(h, lw + i)' = b + (rc + (i - 1))
  <2> TAKE i \in 1 .. n
  <2>1. W2[lw + i].tag = t /\ W2[lw + i].place = rc + (i - 1)
    BY <1>17a
  <2> QED  BY <1>5, <1>19, <1>20, <2>1 DEF Value
<1>31. \A k \in 1 .. Len(dmaReadWordQ) : wr + k \in 1 .. lw
  <2>1. got = wr + Len(dmaReadWordQ) /\ Len(dmaReadWordQ) \in Nat
    BY Waits DEF Got
  <2> QED  BY <1>11, <2>1
<1> HIDE DEF P, W, lp, lw, lq, got, hd, wr
<1>32. Linked(h)'
  <2>1. hd <= Len(P2) /\ hd \in 0 .. lp
    BY <1>11, <1>14
  <2>2. got + completionRecv.words = End(P2, hd)
    BY <1>16, <1>27, <2>1
  <2>3. completionRecv.words > 0 => completionRecv.words <= P2[hd].words
    <3>1. hd = 0 => ~(completionRecv.words > 0)
      <4> SUFFICES ASSUME hd = 0, completionRecv.words > 0 PROVE FALSE
        OBVIOUS
      <4>1. got + completionRecv.words = 0
        BY <1>27 DEF End
      <4>2. completionRecv.words \in Nat
        BY <1>1 DEF LinkTypeOK
      <4> QED  BY <1>11, <4>1, <4>2
    <3>2. hd # 0 => hd \in 1 .. lp
      BY <2>1
    <3> QED  BY <1>14, <1>27, <3>1, <3>2
  <2>4. Len(tlpQ') + got + hd = Len(W2) + Len(P2)
    <3>1. ((lq + 1) + n) + got + hd = (lw + n) + (lp + 1)
      <4>1. lq + got + hd = lw + lp
        BY <1>27
      <4>2. lq \in Nat
        BY <1>26
      <4> QED  BY <1>7, <1>11, <4>1, <4>2
    <3> QED  BY <1>14, <1>17, <1>26, <3>1
  <2>5. ASSUME NEW m \in 1 .. lp + 1, m > hd
        PROVE  LET e == tlpQ'[(P2[m].start + m) - (got + hd)] IN
                 e.tag = P2[m].tag /\ e.val = P2[m].words
    <3>1. CASE m = lp + 1
      <4>1. (lw + (lp + 1)) - (got + hd) = lq + 1
        <5>1. lq + got + hd = lw + lp
          BY <1>27
        <5>2. lq \in Nat
          BY <1>26
        <5> QED  BY <1>11, <5>1, <5>2
      <4> QED  BY <1>12, <1>14, <1>26, <3>1, <4>1
    <3>2. CASE m # lp + 1
      <4>1. m \in 1 .. lp
        BY <1>11, <3>2
      <4>2. PICK i : i = (P[m].start + m) - (got + hd)
        OBVIOUS
      <4>3. i \in 1 .. lq
        BY <1>28, <2>5, <4>1, <4>2
      <4>4. tlpQ[i].tag = P[m].tag /\ tlpQ[i].val = P[m].words
        BY <1>27, <2>5, <4>1, <4>2
      <4> QED  BY <1>14, <1>26, <4>1, <4>2, <4>3, <4>4
    <3> QED  BY <3>1, <3>2
  <2>6. ASSUME NEW k \in 1 .. lw + n, k > got
        PROVE  tlpQ'[(k + W2[k].piece) - (got + hd)].val = Value(h, k)'
    <3>1. CASE k \in 1 .. lw
      <4>1. PICK i : i = (k + W[k].piece) - (got + hd)
        OBVIOUS
      <4>2. i \in 1 .. lq
        BY <1>28, <2>6, <3>1, <4>1
      <4>3. tlpQ[i].val = Value(g, k)
        BY <1>27, <2>6, <3>1, <4>1
      <4> QED  BY <1>17, <1>26, <1>29, <3>1, <4>1, <4>2, <4>3
    <3>2. CASE \E i \in 1 .. n : k = lw + i
      <4>1. PICK i \in 1 .. n : k = lw + i
        BY <3>2
      <4>2. W2[k].piece = lp + 1
        BY <1>17a, <4>1
      <4>3. (k + (lp + 1)) - (got + hd) = (lq + 1) + i
        <5>1. lq + got + hd = lw + lp
          BY <1>27
        <5>2. lq \in Nat /\ k = lw + i /\ i \in Nat
          BY <1>26, <4>1
        <5> QED  BY <1>11, <5>1, <5>2
      <4> QED  BY <1>26, <1>30, <4>1, <4>2, <4>3
    <3> QED  BY <1>21, <3>1, <3>2
  <2>7. \A k \in 1 .. Len(dmaReadWordQ) : dmaReadWordQ[k] = Value(h, wr + k)'
    BY <1>27, <1>29, <1>31
  <2>8. UNCHANGED <<completionRecv, dmaReadWordQ>> /\ h.written = wr /\ h.pieces = P2 /\ h.words = W2
    BY <1>2, <1>19 DEF wr
  <2> QED  BY <1>14, <1>17, <1>25, <2>1, <2>2, <2>3, <2>4, <2>5, <2>6, <2>7, <2>8 DEF Linked
<1>33. Joining(h)'
  <2> DEFINE c == tagWordsLeft
             jo == g.joined
             a == Len(burstUpdReqQ)
             d == Len(readBurstQ)
  <2>1. UNCHANGED <<tagWordsLeft, tagMap, burstUpdReqQ, readCompletionsb, readBurstQ>>
    BY <1>2 DEF joinVars
  <2>2. jo \in 0 .. lp /\ (c.words > 0 => jo \in 1 .. lp)
    BY Waits DEF lp, P
  <2>3. hd = jo + a + d /\ a \in Nat /\ d \in Nat /\ jo \in Nat /\ hd <= lp
    BY <1>11, GhostTypes, Waits DEF Headed, hd
  <2>4. /\ \A k \in 1 .. a : jo + k \in 1 .. lp
        /\ \A k \in 1 .. d : jo + a + k \in 1 .. lp
    <3> HIDE DEF jo, a, d
    <3> QED  BY <1>11, <2>3
  <2>5. /\ wr + c.words = End(P, jo)
        /\ c.words > 0 =>
             /\ c.tag = P[jo].tag /\ P[jo].start <= wr
             /\ c.off + c.ioff = P[jo].place + (wr - P[jo].start)
             /\ c.req = Mine(g, c.tag).words
             /\ tagMap[c.tag].done = c.off + c.ioff + c.words
        /\ \A k \in 1 .. a :
             LET u == burstUpdReqQ[k] IN
               /\ u.tag = P[jo + k].tag /\ u.words = P[jo + k].words
               /\ u.done = P[jo + k].place /\ u.done = tagMap[u.tag].done
               /\ u.req = Mine(g, u.tag).words
               /\ readCompletionsb[k] = u.tag
        /\ \A j, k \in 1 .. a : burstUpdReqQ[j].tag = burstUpdReqQ[k].tag => j = k
        /\ \A k \in 1 .. d :
             LET m == jo + a + k IN
               readBurstQ[k].tag = P[m].tag /\ readBurstQ[k].words = P[m].words
    BY DEF Told, Joining, P, wr
  <2>6. /\ wr + c.words = End(P2, jo)
        /\ c.words > 0 =>
             /\ c.tag = P2[jo].tag /\ P2[jo].start <= wr
             /\ c.off + c.ioff = P2[jo].place + (wr - P2[jo].start)
    BY <1>14, <1>16, <2>2, <2>5
  <2>7. \A k \in 1 .. a :
             LET u == burstUpdReqQ[k] IN
               /\ u.tag = P2[jo + k].tag /\ u.words = P2[jo + k].words
               /\ u.done = P2[jo + k].place
    BY <1>14, <2>4, <2>5
  <2>8. \A k \in 1 .. d :
             LET m == jo + a + k IN
               readBurstQ[k].tag = P2[m].tag /\ readBurstQ[k].words = P2[m].words
    BY <1>14, <2>4, <2>5
  <2> QED  BY <1>19, <1>20, <2>1, <2>5, <2>6, <2>7, <2>8 DEF Joining, wr
<1>34. UNCHANGED <<tagMap, tagWordsLeft>> /\ \A u : Written(u)' = Written(u)
  BY <1>2 DEF joinVars, Written
<1>35. /\ \A k \in 1 .. lw : k > wr =>
            g.stage[W[k].tag] = "wait" /\ Written(W[k].tag) <= W[k].place /\ W[k].place < g.recv[W[k].tag]
       /\ \A j, k \in 1 .. lw :
            wr < j /\ j < k /\ W[j].tag = W[k].tag => W[j].place < W[k].place
       /\ \A u \in Tags : g.stage[u] = "wait" =>
            /\ g.recv[u] <= Mine(g, u).words /\ Written(u) \in 0 .. g.recv[u]
            /\ \A i \in 0 .. MaxBurst : Written(u) <= i /\ i < g.recv[u] =>
                 \E k \in 1 .. lw : k > wr /\ W[k].tag = u /\ W[k].place = i
  BY DEF Told, Coming, W, lw, wr
<1>36. /\ \A k \in 1 .. lw : W[k].tag \in Tags /\ W[k].place \in Nat
       /\ \A u \in Tags : g.recv[u] \in Nat /\ recv[u] \in Nat /\ g.recv[u] <= recv[u]
  <2>1. \A k \in 1 .. lw : W[k].tag \in Tags /\ W[k].place \in Nat
    BY Entries DEF W, lw
  <2>2. \A u \in Tags : g.recv[u] \in Nat
    BY GhostTypes
  <2>3. \A u \in Tags : recv[u] \in Nat /\ g.recv[u] <= recv[u]
    <3> TAKE u \in Tags
    <3>1. CASE u = t
      BY <1>4, <1>7, <1>8, <1>18, <3>1
    <3>2. CASE u # t
      BY <1>18, <2>2, <3>2
    <3> QED  BY <3>1, <3>2
  <2> QED  BY <2>1, <2>2, <2>3
<1>37. Written(t) \in 0 .. rc
  BY <1>4, <1>8, <1>35
<1>38. /\ \A k \in 1 .. lw : W2[k].tag = W[k].tag /\ W2[k].place = W[k].place
       /\ \A i \in 1 .. n : W2[lw + i].tag = t /\ W2[lw + i].place = rc + (i - 1) /\ lw + i > wr
                            /\ lw + i \in 1 .. lw + n
  <2>1. \A i \in 1 .. n : lw + i > wr /\ lw + i \in 1 .. lw + n
    BY <1>7, <1>11
  <2>2. \A k \in 1 .. lw : W2[k].tag = W[k].tag /\ W2[k].place = W[k].place
    BY <1>17
  <2> QED  BY <1>17a, <2>1, <2>2
<1>39. Coming(h)'
  <2>1. ASSUME NEW k \in 1 .. lw + n, k > wr
        PROVE  /\ g.stage[W2[k].tag] = "wait"
               /\ Written(W2[k].tag) <= W2[k].place /\ W2[k].place < recv[W2[k].tag]
    <3>1. CASE k \in 1 .. lw
      <4>1. /\ g.stage[W[k].tag] = "wait" /\ Written(W[k].tag) <= W[k].place
            /\ W[k].place < g.recv[W[k].tag]
        BY <1>35, <2>1, <3>1
      <4>2. W[k].place < recv[W[k].tag]
        <5>1. W[k].place \in Nat /\ g.recv[W[k].tag] \in Nat /\ recv[W[k].tag] \in Nat
              /\ g.recv[W[k].tag] <= recv[W[k].tag]
          BY <1>36, <3>1
        <5> QED  BY <4>1, <5>1
      <4> QED  BY <1>38, <3>1, <4>1, <4>2
    <3>2. CASE \E i \in 1 .. n : k = lw + i
      <4>1. PICK i \in 1 .. n : k = lw + i
        BY <3>2
      <4>2. W2[k].tag = t /\ W2[k].place = rc + (i - 1)
        BY <1>38, <4>1
      <4>3. Written(t) <= rc + (i - 1) /\ rc + (i - 1) < rc + n
        BY <1>7, <1>8, <1>37
      <4> QED  BY <1>8, <1>18, <4>2, <4>3
    <3> QED  BY <1>21, <3>1, <3>2
  <2>2. ASSUME NEW j \in 1 .. lw + n, NEW k \in 1 .. lw + n,
               wr < j, j < k, W2[j].tag = W2[k].tag
        PROVE  W2[j].place < W2[k].place
    <3>1. CASE k \in 1 .. lw
      <4>1. j \in 1 .. lw
        BY <1>11, <2>2, <3>1
      <4> QED  BY <1>35, <1>38, <2>2, <3>1, <4>1
    <3>2. CASE \E i \in 1 .. n : k = lw + i
      <4>1. PICK i \in 1 .. n : k = lw + i
        BY <3>2
      <4>2. W2[k].tag = t /\ W2[k].place = rc + (i - 1)
        BY <1>38, <4>1
      <4>3. CASE j \in 1 .. lw
        <5>1. W[j].tag = t /\ W[j].place < rc
          BY <1>4, <1>35, <1>38, <2>2, <4>2, <4>3
        <5>2. W[j].place \in Nat
          BY <1>36, <4>3
        <5>3. W[j].place < rc + (i - 1)
          BY <1>8, <5>1, <5>2
        <5> QED  BY <1>38, <4>2, <4>3, <5>3
      <4>4. CASE \E l \in 1 .. n : j = lw + l
        <5>1. PICK l \in 1 .. n : j = lw + l
          BY <4>4
        <5>2. W2[j].place = rc + (l - 1)
          BY <1>38, <5>1
        <5>3. l < i
          BY <1>11, <2>2, <4>1, <5>1
        <5>4. rc + (l - 1) < rc + (i - 1)
          BY <1>8, <5>3
        <5> QED  BY <4>2, <5>2, <5>4
      <4> QED  BY <1>21, <4>3, <4>4
    <3> QED  BY <1>21, <3>1, <3>2
  <2>3. ASSUME NEW u \in Tags, g.stage[u] = "wait"
        PROVE  /\ recv[u] <= Mine(g, u).words /\ Written(u) \in 0 .. recv[u]
               /\ \A i \in 0 .. MaxBurst : Written(u) <= i /\ i < recv[u] =>
                    \E k \in 1 .. lw + n : k > wr /\ W2[k].tag = u /\ W2[k].place = i
    <3>1. /\ g.recv[u] <= Mine(g, u).words /\ Written(u) \in 0 .. g.recv[u]
          /\ \A i \in 0 .. MaxBurst : Written(u) <= i /\ i < g.recv[u] =>
               \E k \in 1 .. lw : k > wr /\ W[k].tag = u /\ W[k].place = i
      BY <1>35, <2>3
    <3>2. recv[u] <= Mine(g, u).words
      <4>1. CASE u = t
        <5>1. rc + n <= mw
          BY <1>7, <1>8
        <5> QED  BY <1>6, <1>18, <4>1, <5>1
      <4>2. CASE u # t
        BY <1>18, <3>1, <4>2
      <4> QED  BY <4>1, <4>2
    <3>3. Written(u) \in 0 .. recv[u]
      <4>1. g.recv[u] \in Nat /\ recv[u] \in Nat /\ g.recv[u] <= recv[u]
        BY <1>36
      <4> QED  BY <3>1, <4>1
    <3>4. ASSUME NEW i \in 0 .. MaxBurst, Written(u) <= i, i < recv[u]
          PROVE  \E k \in 1 .. lw + n : k > wr /\ W2[k].tag = u /\ W2[k].place = i
      <4>1. CASE i < g.recv[u]
        <5>1. PICK k \in 1 .. lw : k > wr /\ W[k].tag = u /\ W[k].place = i
          BY <3>1, <3>4, <4>1
        <5>2. k \in 1 .. lw + n
          BY <1>7, <1>11
        <5> QED  BY <1>38, <5>1, <5>2
      <4>2. CASE ~(i < g.recv[u])
        <5>1. u = t
          BY <1>18, <3>4, <4>2
        <5>2. rc <= i /\ i < rc + n /\ i \in Nat
          BY <1>4, <1>7, <1>8, <1>18, <3>4, <4>2, <5>1
        <5> DEFINE l == (i - rc) + 1
        <5>3. l \in 1 .. n /\ rc + (l - 1) = i
          BY <1>7, <1>8, <5>2
        <5> HIDE DEF l
        <5>4. W2[lw + l].tag = t /\ W2[lw + l].place = i /\ lw + l > wr /\ lw + l \in 1 .. lw + n
          BY <1>38, <5>3
        <5> QED  BY <5>1, <5>4
      <4> QED  BY <4>1, <4>2
    <3> QED  BY <3>2, <3>3, <3>4
  <2>4. \A k : g.stage[W2[k].tag] = h.stage[W2[k].tag]
    BY <1>19
  <2> QED  BY <1>17, <1>19, <1>20, <1>34, <2>1, <2>2, <2>3 DEF Coming, wr
<1>40. Kept(h)'
  <2>1. readReorder' = readReorder
    BY <1>2 DEF joinVars
  <2> QED  BY <1>19, <1>20, <1>34, <2>1 DEF Told, Kept, Holds
<1>41. Flushed(h)'
  <2> DEFINE f == readFlushTag
             end == End(g.bursts, g.flushed)
  <2>1. /\ Len(delivered) + Len(dmaReadOutQ) + f.left = end
        /\ \A k \in 1 .. Len(dmaReadOutQ) : dmaReadOutQ[k] = asked[Len(delivered) + k]
        /\ f.left > 0 =>
             /\ f.words <= end
             /\ \A i \in 0 .. MaxBurst - 1 : f.words - f.left <= i /\ i < f.words =>
                  readReorder[f.tag][i] = asked[(end - f.words) + i + 1]
             /\ \A k \in 1 .. lw : k > wr => W[k].tag # f.tag
    BY DEF Told, Flushed, lw, W, wr
  <2>2. f.left > 0 => f.tag # t
    BY DEF RootComplex
  <2>3. f.left > 0 => \A k \in 1 .. lw + n : k > wr => W2[k].tag # f.tag
    BY <1>21, <1>38, <2>1, <2>2
  <2>4. UNCHANGED <<readFlushTag, delivered, dmaReadOutQ, asked, readReorder>>
    BY <1>2 DEF outVars, askVars, joinVars
  <2> QED  BY <1>17, <1>19, <2>1, <2>3, <2>4 DEF Flushed, wr
<1>42. Told(h)'
  BY <1>2, <1>19, <1>22, <1>23, <1>24, <1>32, <1>33, <1>39, <1>40, <1>41, CutFrame, InOrderFrame,
     PagedFrame, OwnedFrame
  DEF Told, askVars, splitVars, orderVars
<1> QED  BY <1>19, <1>42

-----------------------------------------------------------------------------
(* The inductive invariant of what is handed over: something that has      *)
(* happened explains the state.                                            *)
WordsInv == ReadInv /\ \E g \in Ghost : Told(g)

(* At the start nothing has happened.                                      *)
LEMMA TellStart ==
  ASSUME Init
  PROVE  \E g \in Ghost : Told(g)
<1> DEFINE none == [t \in Tags |-> 0]
           idle == [t \in Tags |-> "idle"]
           g == [asks |-> <<>>, taken |-> 0, bursts |-> <<>>, cur |-> none,
                 sent |-> 0, turned |-> 0, read |-> 0, flushed |-> 0,
                 stage |-> idle, recv |-> none, pieces |-> <<>>, joined |-> 0,
                 words |-> <<>>, written |-> 0]
<1>1. none \in [Tags -> Nat] /\ idle \in [Tags -> Stages]
      /\ \A t \in Tags : none[t] = 0 /\ idle[t] = "idle"
  BY DEF Stages
<1> HIDE DEF none, idle
<1>2. /\ g \in Ghost /\ g.asks = <<>> /\ g.taken = 0 /\ g.bursts = <<>> /\ g.cur = none
      /\ g.sent = 0 /\ g.turned = 0 /\ g.read = 0 /\ g.flushed = 0 /\ g.stage = idle
      /\ g.recv = none /\ g.pieces = <<>> /\ g.joined = 0 /\ g.words = <<>> /\ g.written = 0
  BY <1>1 DEF Ghost
<1> HIDE DEF g
<1>3. End(<<>>, 0) = 0 /\ Tiles(<<>>, 0)
  BY DEF End, Tiles
<1>4. Cut(g)
  BY <1>2, <1>3 DEF Init, Cut
<1>5. InOrder(g)
  BY <1>2 DEF Init, InOrder
<1>6. Paged(g)
  <2>1. Pages = <<>>
    BY DEF Init, Pages
  <2> QED  BY <1>2, <2>1 DEF Init, Paged
<1>7. Owned(g)
  <2>1. /\ freeReadTagQ \in Seq(Tags)
        /\ \A i, j \in DOMAIN freeReadTagQ : freeReadTagQ[i] = freeReadTagQ[j] => i = j
    BY ReadStart DEF ReadInv, AskTypeOK, Init
  <2>2. Free = freeReadTagQ
    BY <2>1, ConcatEmptySeq DEF Init, Free
  <2>3. \A k \in 1 .. Len(Free) : Free[k] \in Tags
    BY <2>1, <2>2, ElementOfSeq
  <2>4. \A j, k \in 1 .. Len(Free) : Free[j] = Free[k] => j = k
    BY <2>1, <2>2, LenProperties
  <2>5. \A t \in Tags : g.cur[t] = 0
    BY <1>1, <1>2
  <2> QED  BY <1>2, <2>3, <2>4, <2>5 DEF Owned
<1>8. Staged(g)
  <2>1. \A t \in Tags : /\ g.cur[t] = 0 /\ g.stage[t] = "idle" /\ ~Ready(t)
    BY <1>1, <1>2 DEF Init, Ready
  <2> QED  BY <1>2, <2>1 DEF Init, Staged
<1>9. Reading(g)
  BY DEF Init, Reading
<1>10. Answered(g)
  BY <1>2, <1>3 DEF Answered
<1>11. Linked(g)
  BY <1>2, <1>3 DEF Init, Linked, Got, Headed
<1>12. Joining(g)
  BY <1>2, <1>3 DEF Init, Joining
<1>13. Coming(g)
  <2>1. \A t \in Tags : g.stage[t] # "wait"
    BY <1>1, <1>2
  <2> QED  BY <1>2, <2>1 DEF Coming
<1>14. Kept(g)
  <2>1. \A t \in Tags : g.cur[t] = 0 /\ g.stage[t] = "idle"
    BY <1>1, <1>2
  <2> QED  BY <1>2, <2>1 DEF Kept
<1>15. Flushed(g)
  BY <1>2, <1>3 DEF Init, Flushed
<1>16. Told(g)
  BY <1>4, <1>5, <1>6, <1>7, <1>8, <1>9, <1>10, <1>11, <1>12, <1>13, <1>14, <1>15 DEF Told
<1> QED  BY <1>2, <1>16

(* Every step can be told.                                                 *)
LEMMA TellStep ==
  ASSUME ReadInv, NEW g \in Ghost, Told(g), [Next]_vars
  PROVE  \E h \in Ghost : Told(h)'
<1>1. ASSUME UNCHANGED vars PROVE Told(g)'
  <2>1. UNCHANGED <<askVars, splitVars, linkVars, joinVars, doneVars, orderVars, outVars,
                    freeReadTagQ, freeReadTagFQ, tagMap, dmaReadTagOrderQ>>
    BY <1>1 DEF vars
  <2>2. LinkTypeOK
    BY DEF ReadInv
  <2> QED
    BY <2>1, <2>2, CutFrame, InOrderFrame, PagedFrame, OwnedFrame, StagedFrame, ReadingFrame,
       AnsweredFrame, LinkedFrame, JoiningFrame, ComingFrame, KeptFrame, FlushedFrame
    DEF Told, askVars, splitVars, linkVars, joinVars, doneVars, orderVars, outVars
<1>2. ASSUME NEW r \in Requests, dmaReadReq(r) PROVE \E h \in Ghost : Told(h)'
  BY <1>2, DmaReadReqTold
<1>3. ASSUME NEW t \in Tags, RootComplex(t) PROVE \E h \in Ghost : Told(h)'
  BY <1>3, RootComplexTold
<1>4. ASSUME dmaReadWord PROVE Told(g)'
  BY <1>4, DmaReadWordTold
<1>5. ASSUME flushReadTag PROVE \E h \in Ghost : Told(h)'
  BY <1>5, FlushStartTold, FlushGoOnTold
<1>6. ASSUME Rules PROVE \E h \in Ghost : Told(h)'
  BY <1>5, <1>6, SplitDmaReadReqTold, SplitDmaReadReq2Told, RelayBufIdxTold,
     GenerateDmaReadTLPTold, FilterStatReadTLPTold, ProcCompletionTLPTold,
     UpdateReadBurst1Told, UpdateReadBurst2Told, WriteReadBufferTold, ApplyDoneMapTold,
     ProcDoneShiftTold, ShiftOrderTold, CompareOrderTold, ReqDoneTagTold, RelayFreeTold
  DEF Rules
<1> QED  BY <1>1, <1>2, <1>3, <1>4, <1>6 DEF Next

(* ... and so the invariant is inductive.                                  *)
LEMMA WordsStart == Init => WordsInv
BY ReadStart, TellStart DEF WordsInv

(* Every step preserves the invariant: the record of the next state is     *)
(* the one that TellStep finds.                                            *)
LEMMA WordsStep == WordsInv /\ [Next]_vars => WordsInv'
<1> SUFFICES ASSUME WordsInv, [Next]_vars PROVE WordsInv'
  OBVIOUS
<1>1. PICK g \in Ghost : Told(g)
  BY DEF WordsInv
<1>2. \E h \in Ghost : Told(h)'
  BY <1>1, TellStep DEF WordsInv
<1>3. ReadInv'
  BY ReadStep DEF WordsInv
<1> QED  BY <1>2, <1>3 DEF WordsInv

(* A bit of doneTagMap that differs from that of orderTagMap belongs to a  *)
(* burst whose tag is still in the order queues.                           *)
LEMMA ReadyWaits == WordsInv => DoneTagsWait
<1> SUFFICES ASSUME WordsInv, NEW t \in Tags, Ready(t) PROVE InOrderQueues(t)
  BY DEF DoneTagsWait
<1>1. PICK g \in Ghost : Told(g)
  BY DEF WordsInv
<1> DEFINE a == Len(orderShifter)
           b == Len(dmaReadTagOrderQ)
           k == g.cur[t] - g.turned
<1>2. ReadInv
  BY DEF WordsInv
<1>3. g.stage[t] = "ready" /\ g.turned < g.cur[t] /\ g.cur[t] <= g.sent
  BY <1>1 DEF Told, Staged
<1>4. /\ a \in Nat /\ b \in Nat /\ g.turned \in Nat /\ g.cur[t] \in Nat
      /\ g.sent = g.turned + a + b
      /\ DOMAIN orderShifter = 1 .. a /\ DOMAIN dmaReadTagOrderQ = 1 .. b
  <2>1. orderShifter \in Seq(Tags) /\ dmaReadTagOrderQ \in Seq(Tags)
    BY <1>2 DEF ReadInv, OrderTypeOK
  <2> QED  BY <1>1, <1>2, <2>1, Bounds, GhostTypes, LenProperties
<1>5. Mine(g, t).tag = t
  BY <1>1, <1>3, <1>4 DEF Told, Owned
<1>6. /\ \A i \in 1 .. a : orderShifter[i] = g.bursts[g.turned + i].tag
      /\ \A i \in 1 .. b : dmaReadTagOrderQ[i] = g.bursts[(g.turned + a) + i].tag
  BY <1>1 DEF Told, InOrder
<1>7. CASE k <= a
  <2>1. k \in 1 .. a /\ g.turned + k = g.cur[t]
    BY <1>3, <1>4, <1>7
  <2>2. orderShifter[k] = t
    BY <1>5, <1>6, <2>1 DEF Mine
  <2> QED  BY <1>4, <2>1, <2>2 DEF InOrderQueues
<1>8. CASE ~(k <= a)
  <2>1. k - a \in 1 .. b /\ (g.turned + a) + (k - a) = g.cur[t]
    BY <1>3, <1>4, <1>8
  <2>2. dmaReadTagOrderQ[k - a] = t
    BY <1>5, <1>6, <2>1 DEF Mine
  <2> QED  BY <1>4, <2>1, <2>2 DEF InOrderQueues
<1> QED  BY <1>7, <1>8

(* A complete burst whose turn has not come is in the order queues.        *)
THEOREM DoneTagsAlwaysWait == Spec => []DoneTagsWait
BY WordsStart, WordsStep, ReadyWaits, PTL DEF Spec

-----------------------------------------------------------------------------
(* What is left of a sequence when another is put behind it.               *)
LEMMA RestOfConcat ==
  ASSUME NEW S, NEW a \in Seq(S), NEW w \in Seq(S), w # <<>>, NEW d \in 0 .. Len(a)
  PROVE  SubSeq(a \o w, d + 1, Len(a \o w)) = SubSeq(a, d + 1, Len(a)) \o w
<1> DEFINE n == Len(a)
           m == Len(w)
           c == a \o w
<1>1. n \in Nat /\ m \in Nat /\ m > 0 /\ c \in Seq(S) /\ Len(c) = n + m
      /\ \A i \in 1 .. n + m : c[i] = IF i <= n THEN a[i] ELSE w[i - n]
  BY ConcatProperties, LenProperties, EmptySeq
<1> DEFINE x == SubSeq(c, d + 1, n + m)
           y == SubSeq(a, d + 1, n)
<1> HIDE DEF n, m, c
<1>2. d \in Nat /\ d <= n
  BY <1>1 DEF n
<1>3. /\ x \in Seq(S) /\ Len(x) = (n + m) - d
      /\ \A i \in 1 .. (n + m) - d : x[i] = c[d + i]
  <2>1. \A i \in d + 1 .. n + m : c[i] \in S
    <3> TAKE i \in d + 1 .. n + m
    <3>1. i \in 1 .. Len(c)
      BY <1>1, <1>2
    <3> QED  BY <1>1, <3>1, ElementOfSeq
  <2>2. /\ x \in Seq(S)
        /\ Len(x) = IF d + 1 <= n + m THEN ((n + m) - (d + 1)) + 1 ELSE 0
        /\ \A i \in 1 .. ((n + m) - (d + 1)) + 1 : x[i] = c[((d + 1) + i) - 1]
    BY <1>1, <1>2, <2>1, SubSeqProperties
  <2> HIDE DEF x
  <2>3. ((n + m) - (d + 1)) + 1 = (n + m) - d /\ d + 1 <= n + m
    BY <1>1, <1>2
  <2>4. \A i \in 1 .. (n + m) - d : ((d + 1) + i) - 1 = d + i
    BY <1>1, <1>2
  <2> QED  BY <2>2, <2>3, <2>4
<1>4. /\ y \in Seq(S) /\ Len(y) = n - d
      /\ \A i \in 1 .. n - d : y[i] = a[d + i]
  <2>1. \A i \in d + 1 .. n : a[i] \in S
    <3> TAKE i \in d + 1 .. n
    <3>1. i \in 1 .. Len(a)
      BY <1>1, <1>2 DEF n
    <3> QED  BY <3>1, ElementOfSeq
  <2>2. /\ y \in Seq(S)
        /\ Len(y) = IF d + 1 <= n THEN (n - (d + 1)) + 1 ELSE 0
        /\ \A i \in 1 .. (n - (d + 1)) + 1 : y[i] = a[((d + 1) + i) - 1]
    BY <1>1, <1>2, <2>1, SubSeqProperties
  <2> HIDE DEF y
  <2>3. (n - (d + 1)) + 1 = n - d /\ (~(d + 1 <= n) => n - d = 0)
    BY <1>1, <1>2
  <2>4. \A i \in 1 .. n - d : ((d + 1) + i) - 1 = d + i
    BY <1>1, <1>2
  <2> QED  BY <2>2, <2>3, <2>4
<1> HIDE DEF x, y
<1>5. /\ y \o w \in Seq(S) /\ Len(y \o w) = (n - d) + m
      /\ \A i \in 1 .. (n - d) + m : (y \o w)[i] = IF i <= n - d THEN y[i] ELSE w[i - (n - d)]
  <2>1. /\ y \o w \in Seq(S) /\ Len(y \o w) = Len(y) + Len(w)
        /\ \A i \in 1 .. Len(y) + Len(w) : (y \o w)[i] = IF i <= Len(y) THEN y[i] ELSE w[i - Len(y)]
    BY <1>4, ConcatProperties
  <2>2. Len(y) = n - d /\ Len(w) = m
    BY <1>4 DEF m
  <2> QED  BY <2>1, <2>2
<1> DEFINE z == y \o w
           l == (n - d) + m
<1>6. l \in Nat /\ (n + m) - d = l
  BY <1>1, <1>2
<1> HIDE DEF z
<1>7. \A i \in 1 .. l : x[i] = z[i]
  <2> TAKE i \in 1 .. l
  <2>1. x[i] = IF d + i <= n THEN a[d + i] ELSE w[(d + i) - n]
    <3>1. d + i \in 1 .. n + m
      BY <1>1, <1>2
    <3>2. x[i] = c[d + i]
      BY <1>3, <1>6
    <3> QED  BY <1>1, <3>1, <3>2
  <2>2. CASE i <= n - d
    <3>1. d + i <= n /\ i \in 1 .. n - d
      BY <1>1, <1>2, <2>2
    <3> QED  BY <1>4, <1>5, <2>1, <2>2, <3>1 DEF z
  <2>3. CASE ~(i <= n - d)
    <3>1. ~(d + i <= n) /\ (d + i) - n = i - (n - d)
      BY <1>1, <1>2, <2>3
    <3> QED  BY <1>5, <2>1, <2>3, <3>1 DEF z
  <2> QED  BY <2>2, <2>3
<1>8. x \in Seq(S) /\ z \in Seq(S) /\ Len(x) = l /\ Len(z) = l
  BY <1>3, <1>5, <1>6 DEF z
<1> HIDE DEF l
<1>9. x = z
  BY <1>7, <1>8, SeqEqual
<1> QED  BY <1>1, <1>9 DEF x, y, z, n, m, c

(* A request adds its words to those still to come; a word handed over is  *)
(* the first of them; no other rule touches either.                        *)
LEMMA OrderedStart == Init => Ordered!ReadInit
<1> SUFFICES ASSUME Init PROVE Ordered!ReadInit
  OBVIOUS
<1>1. asked = <<>> /\ delivered = <<>>
  BY DEF Init
<1>2. SubSeq(asked, 1, 0) = <<>>
  BY SubSeqEmpty
<1>3. Pending = <<>>
  BY <1>1, <1>2 DEF Pending
<1> QED  BY <1>1, <1>3 DEF Ordered!ReadInit

(* Every step is one of OrderedRead, or leaves its variables as they were. *)
LEMMA OrderedStep ==
  WordsInv /\ [Next]_vars => [Ordered!ReadNext]_<<Pending, delivered>>
<1> SUFFICES ASSUME WordsInv, [Next]_vars PROVE [Ordered!ReadNext]_<<Pending, delivered>>
  OBVIOUS
<1>1. PICK g \in Ghost : Told(g)
  BY DEF WordsInv
<1>2. ReadInv
  BY DEF WordsInv
<1> DEFINE n == Len(asked)
           d == Len(delivered)
<1>3. n \in Nat /\ d \in Nat /\ asked \in Seq(Nat) /\ delivered \in Seq(Nat)
  BY <1>2, LenProperties DEF ReadInv, AskTypeOK, Words
<1>4. d <= n
  <2>1. d + Len(dmaReadOutQ) + readFlushTag.left = End(g.bursts, g.flushed)
    BY <1>1 DEF Told, Flushed
  <2>2. End(g.bursts, g.flushed) \in Nat /\ End(g.bursts, g.flushed) <= n
    BY <1>1, <1>2, Bounds
  <2>3. OutTypeOK
    BY <1>2 DEF ReadInv, OutInv
  <2>4. Len(dmaReadOutQ) \in Nat /\ readFlushTag.left \in Nat
    BY <2>3, EntryTypes, LenProperties DEF OutTypeOK
  <2> HIDE DEF n, d
  <2> QED  BY <1>3, <2>1, <2>2, <2>4
<1>5. ASSUME UNCHANGED <<asked, delivered>> PROVE UNCHANGED <<Pending, delivered>>
  BY <1>5 DEF Pending
<1>6. ASSUME UNCHANGED vars PROVE UNCHANGED <<asked, delivered>>
  BY <1>6 DEF vars, askVars, outVars
<1>7. ASSUME NEW r \in Requests, dmaReadReq(r) PROVE Ordered!Ask(r)
  <2> DEFINE w == WordsAsked(r)
  <2>1. r.words \in Nat \ {0} /\ w \in Seq(Nat) /\ Len(w) = r.words
    <3>1. r.addr \in Nat /\ r.words \in Nat \ {0}
      BY ReadAssumption
    <3>2. \A i \in 1 .. r.words : BusAddr(r.addr + i - 1) \in Nat
      <4> TAKE i \in 1 .. r.words
      <4>1. r.addr + i - 1 \in Nat
        BY <3>1
      <4> QED  BY <4>1, BusTypes
    <3>3. w \in [1 .. r.words -> Nat]
      BY <3>2 DEF WordsAsked
    <3> HIDE DEF w
    <3>4. w \in Seq(Nat) /\ Len(w) = r.words
      BY <3>1, <3>3, SeqDef, LenProperties
    <3> QED  BY <3>1, <3>4
  <2>2. asked' = asked \o w /\ delivered' = delivered
    BY <1>7 DEF dmaReadReq, outVars
  <2> HIDE DEF w
  <2>3. Pending' = Pending \o w
    <3>1. d \in 0 .. n /\ w # <<>>
      BY <1>3, <1>4, <2>1
    <3>2. SubSeq(asked \o w, d + 1, Len(asked \o w)) = SubSeq(asked, d + 1, Len(asked)) \o w
      BY <1>3, <2>1, <3>1, RestOfConcat
    <3> QED  BY <2>2, <3>2 DEF Pending
  <2> QED  BY <2>2, <2>3 DEF Ordered!Ask, w
<1>8. ASSUME dmaReadWord PROVE Ordered!Deliver
  <2>1. d < n /\ Head(dmaReadOutQ) = asked[d + 1]
    BY <1>1, <1>2, <1>8, DmaReadWordTold
  <2>2. asked' = asked /\ delivered' = Append(delivered, Head(dmaReadOutQ))
    BY <1>8 DEF dmaReadWord, askVars
  <2>3. Head(dmaReadOutQ) \in Nat
    <3>1. d + 1 \in 1 .. n
      BY <1>3, <2>1
    <3> QED  BY <1>3, <2>1, <3>1, ElementOfSeq
  <2>4. Len(delivered') = d + 1
    BY <1>3, <2>2, <2>3, AppendProperties
  <2>5. /\ Head(SubSeq(asked, d + 1, n)) = asked[d + 1]
        /\ Tail(SubSeq(asked, d + 1, n)) = SubSeq(asked, (d + 1) + 1, n)
        /\ SubSeq(asked, d + 1, n) # <<>>
    <3>1. d + 1 \in 1 .. n /\ n \in d + 1 .. n
      BY <1>3, <2>1
    <3>2. \A i \in d + 1 .. n : asked[i] \in Nat
      BY <1>3, ElementOfSeq
    <3> DEFINE z == SubSeq(asked, d + 1, n)
    <3>3. z \in Seq(Nat) /\ Len(z) = (n - (d + 1)) + 1
      BY <1>3, <2>1, <3>2, SubSeqProperties
    <3>4. (n - (d + 1)) + 1 # 0
      BY <1>3, <2>1
    <3> HIDE DEF z, n, d
    <3>5. z # <<>>
      BY <3>3, <3>4, EmptySeq
    <3> QED  BY <1>3, <3>1, <3>5, HeadTailOfSubSeq DEF z, n, d
  <2>6. Pending = SubSeq(asked, d + 1, n) /\ Pending' = SubSeq(asked, (d + 1) + 1, n)
    BY <2>2, <2>4 DEF Pending
  <2> QED  BY <2>1, <2>2, <2>5, <2>6 DEF Ordered!Deliver
<1>9. ASSUME Rules PROVE UNCHANGED <<asked, delivered>>
  BY <1>9 DEF Rules, splitDmaReadReq, splitDmaReadReq2, relayBufIdxRead, generateDmaReadTLP,
     filterStatReadTLP, procCompletionTLP, updateReadBurst1, updateReadBurst2,
     writeReadBuffer, applyDoneMap, procDoneShift, shiftOrder, compareOrder, reqDoneTag,
     flushReadTag, relayFreeReadTag, askVars, outVars
<1>10. ASSUME NEW t \in Tags, RootComplex(t) PROVE UNCHANGED <<asked, delivered>>
  BY <1>10 DEF RootComplex, askVars, outVars
<1> QED  BY <1>5, <1>6, <1>7, <1>8, <1>9, <1>10 DEF Next, Ordered!ReadNext

(* The words come in the order of asking, each exactly once.               *)
THEOREM ReadComesInOrder == Spec => ReadsInOrder
BY WordsStart, WordsStep, OrderedStart, OrderedStep, PTL DEF Spec, ReadsInOrder, Ordered!ReadSpec
=============================================================================
