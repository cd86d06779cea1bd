--------------------------- MODULE MsgQueueProofs ---------------------------
(***************************************************************************)
(* Theorems about MsgQueue, for every number of slots, width of message    *)
(* numbers, depth of the queues and messages that MsgAssumption allows.    *)
(***************************************************************************)
EXTENDS MsgQueue, SequenceTheorems, FiniteSetTheorems, TLAPS

Regs     == 0 .. 4
Counters == {16, 17}
DownWord == {d \in [reg : Regs \cup Counters, val : Nat] :
               /\ d.reg \in Regs => d.val \in 0 .. MaxWords
               /\ d.reg = 16 => d.val \in Idx
               /\ d.reg = 17 => d.val = 0}
UserWord == [reg : Regs, val : 0 .. MaxWords]
UpWord   == [slot : SlotNo, first : BOOLEAN, data : DmaWord]
Copied   == [word : Msg, head : Msg]

(* A queue takes a state a to a state b, one entry after the other, by     *)
(* moves <<state, entry, state>> of M.                                     *)
Path(S, q, a, b, M) ==
  \E st \in [0 .. Len(q) -> S] :
    /\ st[0] = a /\ st[Len(q)] = b
    /\ \A k \in 1 .. Len(q) : <<st[k - 1], q[k], st[k]>> \in M

-----------------------------------------------------------------------------
(* The types of what both directions use.                                  *)
ProgramTypes ==
  /\ start \in {"clear", "received", "index", "ready"}
  /\ rpc \in {"call", "scan", "copy", "done"} /\ i \in 0 .. Slots /\ found \in BOOLEAN
  /\ rpc = "copy" => i < Slots
  /\ recvd \in Nat /\ nextrecvidx \in Idx /\ nextrecvoff \in SlotNo
  /\ recvList \in Seq(Copied) /\ taken \in Seq(Copied) /\ received \in Seq(Copied)
  /\ regs \in Seq(Regs) /\ words \in 0 .. MaxWords
  /\ slots \in [SlotNo -> [word : Msg, head : Msg, idx : Idx]]
  /\ down \in Seq(DownWord) /\ Len(down) <= DownCap
  /\ up \in Seq(UpWord)
EnqTypes ==
  /\ enqReceivedIdx \in Idx /\ enqIdx \in Idx /\ enqOffset \in SlotNo /\ enqState \in 0 .. 2
  /\ enq2Q \in Seq(Msg) /\ Len(enq2Q) <= UserCap /\ enqh2Q \in Seq(Msg)
  /\ Len(enqh2Q) <= UserCap /\ enqDataQ \in Seq(Msg)
  /\ wm00 \in Seq(SlotNo) /\ Len(wm00) <= FifoCap
  /\ enqDmaWriteQ \in Seq(DmaWord) /\ Len(enqDmaWriteQ) <= DmaCap
  /\ writing \in [slot : SlotNo, left : 0 .. 2]
  /\ msgs \in Msg /\ sent \in Seq(Msg)
IoTypes ==
  /\ userWriteQ \in Seq(UserWord) /\ Len(userWriteQ) <= FifoCap /\ writeBuf \in Buffers
  /\ ioRecvQ \in Seq(Buffers) /\ Len(ioRecvQ) <= RecvCap /\ arrived \in Seq(Buffers)
  /\ offered \in [regs : Buffers, all : Seq(Buffers)]
TypeInv == ProgramTypes /\ EnqTypes /\ IoTypes

-----------------------------------------------------------------------------
(* Messages to the FPGA: the words on their way turn what the registers    *)
(* hold, and the messages complete so far, into what was offered.          *)
Progress == [regs : Buffers, n : Nat]
WordMoves(all) ==
  {m \in Progress \X DownWord \X Progress :
     LET b == [m[1].regs EXCEPT ![m[2].reg] = m[2].val] IN
       /\ m[2].reg \in Counters => m[3] = m[1]
       /\ m[2].reg \in 1 .. 4 => m[3] = [regs |-> b, n |-> m[1].n]
       /\ m[2].reg = 0 => /\ m[3] = [regs |-> b, n |-> m[1].n + 1]
                          /\ m[3].n \in 1 .. Len(all) /\ all[m[3].n] = b}
WordInv ==
  /\ \E mid \in Progress :
       /\ Path(Progress, userWriteQ, [regs |-> writeBuf, n |-> Len(arrived) + Len(ioRecvQ)],
               mid, WordMoves(offered.all))
       /\ Path(Progress, down, mid, [regs |-> offered.regs, n |-> Len(offered.all)],
               WordMoves(offered.all))
  /\ \A k \in 1 .. Len(arrived) : k \in 1 .. Len(offered.all) /\ arrived[k] = offered.all[k]
  /\ \A k \in 1 .. Len(ioRecvQ) :
       /\ Len(arrived) + k \in 1 .. Len(offered.all)
       /\ ioRecvQ[k] = offered.all[Len(arrived) + k]

-----------------------------------------------------------------------------
(* Messages to the host, since the program has started: how many the FPGA  *)
(* has given a slot, has given a number, whose write it has asked for; how *)
(* many of their words it has queued, sent and the host's memory received. *)
Started  == Len(sent) - Len(enq2Q)
Numbered == Len(sent) - Len(enqh2Q)
Issued   == Started - Len(wm00)
Queued   == 2 * Numbered + (IF enqState = 2 THEN 1 ELSE 0)
Gone     == Queued - Len(enqDmaWriteQ)
Landed   == Gone - Len(up)

SentInv ==
  /\ Len(sent) <= msgs
  /\ \A k \in 1 .. Len(sent) : sent[k] = (msgs - Len(sent)) + k
QueueInv ==
  /\ Len(enq2Q) <= Len(sent) /\ Len(enqh2Q) <= Len(sent)
  /\ Started = Numbered + (IF enqState = 0 THEN 0 ELSE 1)
  /\ \A k \in 1 .. Len(enq2Q) : enq2Q[k] = sent[Started + k]
  /\ \A k \in 1 .. Len(enqh2Q) : enqh2Q[k] = sent[Numbered + k]
  /\ enqDataQ = IF enqState = 1 THEN <<sent[Started]>> ELSE <<>>

(* Message k, from 0 on, is in this slot, if the first is in slot b: the   *)
(* FPGA goes on where it was when the program starts again.                *)
Slot(b, k) == (b + k) % Slots
Body(k) == [val |-> sent[k + 1], idx |-> 0]
Last(k) == [val |-> sent[k + 1], idx |-> k % IdxMod]
WriteInv(b) ==
  /\ enqOffset = Slot(b, Started)
  /\ Gone = 2 * Issued - writing.left
  /\ \A k \in 1 .. Len(wm00) : wm00[k] = Slot(b, Issued + (k - 1))
  /\ writing.left > 0 => writing.slot = Slot(b, Issued - 1)
  /\ \A k \in 1 .. Len(enqDmaWriteQ), m \in Msg :
       /\ Gone + k = 2 * m + 1 => enqDmaWriteQ[k] = Body(m)
       /\ Gone + k = 2 * m + 2 => enqDmaWriteQ[k] = Last(m)
UpInv(b) ==
  /\ 0 <= Landed
  /\ \A k \in 1 .. Len(up), m \in Msg :
       /\ Landed + k = 2 * m + 1 => up[k] = [slot |-> Slot(b, m), first |-> TRUE, data |-> Body(m)]
       /\ Landed + k = 2 * m + 2 => up[k] = [slot |-> Slot(b, m), first |-> FALSE, data |-> Last(m)]

(* A slot has what landed in it last; messages before the first are those  *)
(* the constructor has cleared.                                            *)
Val(k) == IF k < 0 THEN 0 ELSE sent[k + 1]
Num(k) == IF k < 0 THEN ClearedIdx ELSE k % IdxMod
SlotsInv(b) ==
  start # "clear" =>
    \A k \in -Slots .. MaxMsgs :
      /\ 2 * k < Landed /\ Landed <= 2 * (k + Slots) => slots[Slot(b, k)].word = Val(k)
      /\ 2 * k + 1 < Landed /\ Landed <= 2 * (k + Slots) + 1 =>
           slots[Slot(b, k)].head = Val(k) /\ slots[Slot(b, k)].idx = Num(k)

-----------------------------------------------------------------------------
(* The receiver.                                                           *)
ScanInv(b) ==
  /\ nextrecvidx = Len(taken) % IdxMod
  /\ nextrecvoff = (Len(taken) - recvd) % Slots
  /\ recvd <= Len(taken)
  /\ rpc = "call" => i = 0 /\ recvd = 0 /\ ~found
  /\ found <=> recvd > 0
  /\ found => i = b + recvd
  /\ rpc = "copy" => i = b + recvd /\ i < Slots /\ 2 * Len(taken) + 1 < Landed
TakenInv ==
  /\ 2 * Len(taken) <= Landed /\ Started <= Len(taken) + Slots
  /\ \A k \in 1 .. Len(taken) : taken[k] = Whole(sent[k])
  /\ Len(received) + Len(recvList) = Len(taken) /\ Len(recvList) <= Slots
  /\ \A k \in 1 .. Len(received) : received[k] = taken[k]
  /\ \A k \in 1 .. Len(recvList) : recvList[k] = taken[(Len(taken) + 1) - k]
  /\ rpc # "call" => Len(recvList) = recvd

-----------------------------------------------------------------------------
(* The two counters.  While they are reset nothing is under way, and the   *)
(* resets are behind all that the process before has reported; then, the   *)
(* reports in down take the number the FPGA has, R, to that of the last    *)
(* scan.                                                                   *)
Reset(k) == down[k] = [reg |-> 16, val |-> 0]
ReceivedReset ==
  \/ enqReceivedIdx = 0 /\ \A k \in 1 .. Len(down) : down[k].reg # 16
  \/ \E j \in 1 .. Len(down) : Reset(j) /\ \A k \in 1 .. Len(down) : k > j => down[k].reg # 16
IndexReset ==
  \E j \in 1 .. Len(down) : /\ down[j].reg = 17
                            /\ \A k \in 1 .. Len(down) : k > j => down[k].reg \in Regs
ResetInv ==
  /\ Resetting => sent = <<>>
  /\ start # "ready" => rpc = "call"
  /\ start = "index" => ReceivedReset
  /\ start = "ready" /\ Resetting => ReceivedReset /\ IndexReset

Reported == Len(taken) - recvd
Reports == {m \in Nat \X DownWord \X Nat :
              /\ m[2].reg # 17
              /\ m[2].reg \in Regs => m[3] = m[1]
              /\ m[2].reg = 16 => m[1] <= m[3] /\ m[2].val = m[3] % IdxMod}
CreditInv ==
  ~Resetting =>
    /\ enqIdx = Numbered % IdxMod
    /\ \E R \in 0 .. Reported :
         /\ enqReceivedIdx = R % IdxMod /\ Started <= R + Slots
         /\ Path(0 .. Reported, down, R, Reported, Reports)

RingInv(b) == WriteInv(b) /\ UpInv(b) /\ SlotsInv(b) /\ ScanInv(b)
(* The invariant: somewhere in the page is the first slot of this start.   *)
Inv(b) == SentInv /\ QueueInv /\ TakenInv /\ ResetInv /\ CreditInv /\ RingInv(b)
SomeInv == \E b \in SlotNo : Inv(b)

-----------------------------------------------------------------------------
(* Paths.                                                                  *)
(* An empty queue leaves the state as it is.                               *)
LEMMA PathEmpty ==
  ASSUME NEW S, NEW a \in S, NEW M
  PROVE  Path(S, <<>>, a, a, M)
<1> DEFINE st == [k \in 0 .. 0 |-> a]
<1>1. Len(<<>>) = 0 /\ st \in [0 .. 0 -> S] /\ st[0] = a
  OBVIOUS
<1> HIDE DEF st
<1> QED  BY <1>1 DEF Path

(* A path begins and ends in its states.                                   *)
LEMMA PathEnds ==
  ASSUME NEW S, NEW E, NEW q \in Seq(E), NEW a, NEW b, NEW M, Path(S, q, a, b, M)
  PROVE  a \in S /\ b \in S /\ (q = <<>> => a = b)
<1>1. Len(q) \in Nat /\ (q = <<>> => Len(q) = 0)
  OBVIOUS
<1> QED  BY <1>1 DEF Path

(* An entry put in makes one more move at the end.                         *)
LEMMA PathAppend ==
  ASSUME NEW S, NEW E, NEW q \in Seq(E), NEW e \in E, NEW a, NEW b, NEW c \in S, NEW M,
         Path(S, q, a, b, M), <<b, e, c>> \in M
  PROVE  Path(S, Append(q, e), a, c, M)
<1> DEFINE r == Append(q, e)
<1>1. /\ Len(q) \in Nat /\ Len(r) = Len(q) + 1 /\ r[Len(q) + 1] = e
      /\ \A k \in 1 .. Len(q) : r[k] = q[k]
  OBVIOUS
<1>2. PICK st \in [0 .. Len(q) -> S] :
        /\ st[0] = a /\ st[Len(q)] = b
        /\ \A k \in 1 .. Len(q) : <<st[k - 1], q[k], st[k]>> \in M
  BY DEF Path
<1> DEFINE more == [k \in 0 .. Len(q) + 1 |-> IF k <= Len(q) THEN st[k] ELSE c]
<1> HIDE DEF r
<1>3. /\ more \in [0 .. Len(r) -> S] /\ more[0] = a /\ more[Len(r)] = c
      /\ \A k \in 0 .. Len(q) : more[k] = st[k]
  BY <1>1, <1>2
<1> HIDE DEF more
<1>4. ASSUME NEW k \in 1 .. Len(r)
      PROVE  <<more[k - 1], r[k], more[k]>> \in M
  <2>1. CASE k = Len(q) + 1
    <3>1. r[k] = e /\ more[k] = c /\ more[k - 1] = b
      BY <1>1, <1>2, <1>3, <2>1
    <3> QED  BY <3>1
  <2>2. CASE k \in 1 .. Len(q)
    <3>1. r[k] = q[k] /\ more[k] = st[k] /\ more[k - 1] = st[k - 1]
      BY <1>1, <1>3, <2>2
    <3> QED  BY <1>2, <2>2, <3>1
  <2> QED  BY <1>1, <2>1, <2>2
<1>5. Path(S, r, a, c, M)
  BY <1>3, <1>4 DEF Path
<1> QED  BY <1>5 DEF r

(* Taking the first entry out makes the first move.                        *)
LEMMA PathTail ==
  ASSUME NEW S, NEW E, NEW q \in Seq(E), q # <<>>, NEW a, NEW b, NEW M, Path(S, q, a, b, M)
  PROVE  \E c \in S : <<a, Head(q), c>> \in M /\ Path(S, Tail(q), c, b, M)
<1> DEFINE r == Tail(q)
<1>1. /\ Len(q) \in Nat \ {0} /\ Len(r) = Len(q) - 1 /\ Head(q) = q[1]
      /\ \A k \in 1 .. Len(r) : r[k] = q[k + 1]
  OBVIOUS
<1>2. PICK st \in [0 .. Len(q) -> S] :
        /\ st[0] = a /\ st[Len(q)] = b
        /\ \A k \in 1 .. Len(q) : <<st[k - 1], q[k], st[k]>> \in M
  BY DEF Path
<1> DEFINE rest == [k \in 0 .. Len(q) - 1 |-> st[k + 1]]
<1> HIDE DEF r
<1>3. /\ rest \in [0 .. Len(r) -> S] /\ rest[0] = st[1] /\ rest[Len(r)] = b
      /\ \A k \in 0 .. Len(r) : rest[k] = st[k + 1]
  BY <1>1, <1>2
<1> HIDE DEF rest
<1>4. ASSUME NEW k \in 1 .. Len(r)
      PROVE  <<rest[k - 1], r[k], rest[k]>> \in M
  <2>1. /\ r[k] = q[k + 1] /\ rest[k] = st[k + 1] /\ rest[k - 1] = st[(k + 1) - 1]
        /\ k + 1 \in 1 .. Len(q)
    BY <1>1, <1>3
  <2>2. <<st[(k + 1) - 1], q[k + 1], st[k + 1]>> \in M
    BY <1>2, <2>1
  <2> QED  BY <2>1, <2>2
<1>5. Path(S, r, st[1], b, M)
  BY <1>3, <1>4 DEF Path
<1>6. st[1] \in S /\ <<a, Head(q), st[1]>> \in M
  <2>1. 1 \in 1 .. Len(q) /\ 1 - 1 = 0
    BY <1>1
  <2>2. <<st[1 - 1], q[1], st[1]>> \in M
    BY <1>2, <2>1
  <2> QED  BY <1>1, <1>2, <2>1, <2>2
<1> QED  BY <1>5, <1>6 DEF r

-----------------------------------------------------------------------------
(* A queue after an entry is put in, or taken out.                         *)
LEMMA PutIn ==
  ASSUME NEW S, NEW s \in Seq(S), NEW x \in S
  PROVE  /\ Append(s, x) \in Seq(S) /\ Len(Append(s, x)) = Len(s) + 1 /\ Len(s) \in Nat
         /\ \A k \in 1 .. Len(s) : Append(s, x)[k] = s[k] /\ s[k] \in S
         /\ Append(s, x)[Len(s) + 1] = x
<1>1. \A k \in 1 .. Len(s) : s[k] \in S
  BY ElementOfSeq
<1> QED  BY <1>1, AppendProperties, LenProperties

LEMMA TakenOut ==
  ASSUME NEW S, NEW s \in Seq(S), s # <<>>
  PROVE  /\ Tail(s) \in Seq(S) /\ Len(Tail(s)) = Len(s) - 1 /\ Len(s) \in Nat \ {0}
         /\ \A k \in 1 .. Len(s) - 1 : Tail(s)[k] = s[k + 1]
         /\ Head(s) = s[1] /\ s[1] \in S
<1>1. Len(s) \in Nat /\ Len(s) # 0
  BY LenProperties, EmptySeq
<1>2. s[1] \in S
  BY <1>1, ElementOfSeq
<1> QED  BY <1>1, <1>2, HeadTailProperties

-----------------------------------------------------------------------------
(* Numbers modulo n.                                                       *)
LEMMA Times ==
  ASSUME NEW n \in Nat \ {0}, NEW p \in Int, NEW q \in Int
  PROVE  /\ n * p \in Int /\ n * (p - q) = n * p - n * q /\ n * (p + q) = n * p + n * q
         /\ (p > q => n * p - n * q >= n)
<1>1. /\ n * p \in Int /\ n * (p - q) = n * p - n * q /\ n * (p + q) = n * p + n * q
  OBVIOUS
<1>2. ASSUME p > q PROVE n * p - n * q >= n
  <2>1. ASSUME NEW d \in Nat PROVE n * (d + 1) >= n
    OBVIOUS
  <2>2. (p - q) - 1 \in Nat
    BY <1>2
  <2>3. n * (((p - q) - 1) + 1) >= n
    BY <2>1, <2>2
  <2>4. ((p - q) - 1) + 1 = p - q
    OBVIOUS
  <2> QED BY <1>1, <2>3, <2>4
<1> QED BY <1>1, <1>2

(* A remainder is what is left of a multiple.                              *)
LEMMA Rest ==
  ASSUME NEW n \in Nat \ {0}, NEW a \in Int
  PROVE  a % n \in 0 .. n - 1 /\ a \div n \in Int /\ a = n * (a \div n) + (a % n)
OBVIOUS

(* A number has one remainder.                                             *)
LEMMA OneRest ==
  ASSUME NEW n \in Nat \ {0}, NEW q \in Int, NEW r \in 0 .. n - 1
  PROVE  (n * q + r) % n = r
<1> DEFINE a == n * q + r
<1>1. a \in Int /\ n * q \in Int
  BY Times
<1>2. a % n \in 0 .. n - 1 /\ a \div n \in Int /\ a = n * (a \div n) + (a % n)
  BY <1>1, Rest
<1>3. PICK p : p = a \div n
  OBVIOUS
<1>4. PICK m : m = a % n
  OBVIOUS
<1>5. m \in 0 .. n - 1 /\ p \in Int /\ n * q + r = n * p + m
  BY <1>2, <1>3, <1>4
<1>6. n * p \in Int /\ (p > q => n * p - n * q >= n) /\ (q > p => n * q - n * p >= n)
  BY <1>5, Times
<1>7. p = q
  BY <1>1, <1>5, <1>6
<1> QED  BY <1>1, <1>4, <1>5, <1>7

(* A multiple of n does not change it.                                     *)
LEMMA Shifted ==
  ASSUME NEW n \in Nat \ {0}, NEW q \in Int, NEW x \in Int
  PROVE  (x + n * q) % n = x % n /\ n * q \in Int
<1>1. PICK p \in Int, r \in 0 .. n - 1 : x = n * p + r /\ x % n = r
  BY Rest
<1>2. n * p \in Int /\ n * q \in Int /\ n * (p + q) = n * p + n * q
  BY Times
<1>3. x + n * q = n * (p + q) + r
  BY <1>1, <1>2
<1>4. (n * (p + q) + r) % n = r
  BY <1>1, OneRest
<1> QED  BY <1>1, <1>2, <1>3, <1>4

(* A number that is small enough is its own.                               *)
LEMMA Modulo ==
  ASSUME NEW n \in Nat \ {0}, NEW a \in Int
  PROVE  /\ a % n \in 0 .. n - 1
         /\ a \in 0 .. n - 1 => a % n = a
<1>1. a % n \in 0 .. n - 1
  BY Rest
<1>2. ASSUME a \in 0 .. n - 1 PROVE a % n = a
  <2>1. (n * 0 + a) % n = a
    BY <1>2, OneRest
  <2>2. n * 0 + a = a
    OBVIOUS
  <2> QED  BY <2>1, <2>2
<1> QED  BY <1>1, <1>2

(* A counter modulo n keeps in step with the number it counts, as does a   *)
(* difference of two; numbers less than n apart are told apart.            *)
LEMMA InStep ==
  ASSUME NEW n \in Nat \ {0}, NEW a \in Int, NEW c \in Int
  PROVE  /\ ((a % n) + c) % n = (a + c) % n
         /\ ((a % n) - (c % n)) % n = (a - c) % n
         /\ a % n = c % n /\ a - c < n /\ c - a < n => a = c
<1>1. PICK p \in Int, r \in 0 .. n - 1 : a = n * p + r /\ a % n = r
  BY Rest
<1>2. PICK q \in Int, s \in 0 .. n - 1 : c = n * q + s /\ c % n = s
  BY Rest
<1>3. /\ n * p \in Int /\ n * q \in Int /\ n * (p - q) = n * p - n * q
      /\ (p > q => n * p - n * q >= n) /\ (q > p => n * q - n * p >= n)
  BY Times
<1>4. (r + c) % n = (a + c) % n
  <2>1. PICK x \in Int : x = r + c
    OBVIOUS
  <2>2. (x + n * p) % n = x % n
    BY Shifted
  <2>3. x + n * p = a + c
    BY <1>1, <1>3, <2>1
  <2> QED  BY <2>1, <2>2, <2>3
<1>5. (r - s) % n = (a - c) % n
  <2>1. PICK x \in Int : x = r - s
    OBVIOUS
  <2>2. PICK d \in Int : d = p - q
    OBVIOUS
  <2>3. (x + n * d) % n = x % n
    BY Shifted
  <2>4. x + n * d = a - c
    BY <1>1, <1>2, <1>3, <2>1, <2>2
  <2> QED  BY <2>1, <2>3, <2>4
<1>6. ASSUME r = s, a - c < n, c - a < n PROVE a = c
  <2>1. p = q
    BY <1>1, <1>2, <1>3, <1>6
  <2> QED  BY <1>1, <1>2, <1>6, <2>1
<1> QED  BY <1>1, <1>2, <1>4, <1>5, <1>6

(* Of n numbers in a row, one is in each class.                            *)
LEMMA Reached ==
  ASSUME NEW n \in Nat \ {0}, NEW b \in Int, NEW lo \in Int, NEW s \in 0 .. n - 1
  PROVE  \E k \in lo .. lo + (n - 1) : (b + k) % n = s
<1>1. PICK d \in 0 .. n - 1 : d = (s - (b + lo)) % n
  BY Modulo
<1>2. PICK x \in Int, y \in Int : x = b + lo /\ y = s - x
  OBVIOUS
<1>3. d = y % n
  BY <1>1, <1>2
<1>4. (d + x) % n = (y + x) % n
  BY <1>3, InStep
<1>5. y + x = s /\ s % n = s /\ d + x = b + (lo + d)
  BY <1>2, Modulo
<1>6. (b + (lo + d)) % n = s /\ lo + d \in lo .. lo + (n - 1)
  BY <1>4, <1>5
<1> QED  BY <1>6

(* Which message a word is of, and whether it is the first of its two.     *)
LEMMA Halves ==
  \A n, m \in Nat : /\ 2 * n + 1 = 2 * m + 1 => m = n
                    /\ 2 * n + 2 = 2 * m + 2 => m = n
                    /\ 2 * n + 1 # 2 * m + 2 /\ 2 * n + 2 # 2 * m + 1
OBVIOUS

-----------------------------------------------------------------------------
(* At the start every variable has its type.                               *)
LEMMA TypeStart == Init => TypeInv
<1> SUFFICES ASSUME Init PROVE TypeInv
  OBVIOUS
<1> USE MsgAssumption
<1>1. ClearedIdx \in Idx /\ 0 \in Idx /\ 0 \in Msg /\ 0 \in SlotNo /\ IdxMod \in Nat
  BY DEF ClearedIdx, Idx, Msg, SlotNo
<1>2. ProgramTypes
  <2>1. Cleared \in [SlotNo -> [word : Msg, head : Msg, idx : Idx]]
    <3>1. [word |-> 0, head |-> 0, idx |-> ClearedIdx] \in [word : Msg, head : Msg, idx : Idx]
      BY <1>1
    <3>2. Cleared = [s \in SlotNo |-> [word |-> 0, head |-> 0, idx |-> ClearedIdx]]
      BY DEF Cleared, SlotNo
    <3> QED  BY <3>1, <3>2
  <2>2. /\ start = "clear" /\ rpc = "call" /\ i = 0 /\ found = FALSE /\ recvd = 0 /\ words = 0
        /\ nextrecvidx = 0 /\ nextrecvoff = 0 /\ slots = Cleared
        /\ recvList = <<>> /\ taken = <<>> /\ received = <<>> /\ regs = <<>> /\ down = <<>>
        /\ up = <<>>
    BY DEF Init
  <2>3. /\ i \in 0 .. Slots /\ words \in 0 .. MaxWords /\ Len(down) <= DownCap
    BY <2>2
  <2>4. \A S : <<>> \in Seq(S)
    OBVIOUS
  <2>5. /\ recvList \in Seq(Copied) /\ taken \in Seq(Copied) /\ received \in Seq(Copied)
        /\ regs \in Seq(Regs) /\ down \in Seq(DownWord) /\ up \in Seq(UpWord)
    BY <2>2, <2>4
  <2> QED  BY <1>1, <2>1, <2>2, <2>3, <2>5 DEF ProgramTypes
<1>3. EnqTypes
  BY <1>1 DEF Init, EnqTypes, SlotNo, Msg
<1>4. IoTypes
  BY DEF Init, IoTypes, Buffers
<1> QED  BY <1>2, <1>3, <1>4 DEF TypeInv

(* The program's steps.                                                    *)
LEMMA WriteTypes ==
  ASSUME ProgramTypes, NEW r, NEW v, Write(r, v), [reg |-> r, val |-> v] \in DownWord
  PROVE  down' \in Seq(DownWord) /\ Len(down') <= DownCap
BY PutIn, MsgAssumption DEF Write, ProgramTypes

(* The numbers the steps make have their types.                            *)
LEMMA Numbers ==
  /\ 0 \in Idx /\ ClearedIdx \in Idx /\ 0 \in SlotNo
  /\ \A k \in Int : k % IdxMod \in Idx /\ k % Slots \in SlotNo
  /\ \A k \in Idx : Next32(k) \in Idx
  /\ [reg |-> 16, val |-> 0] \in DownWord /\ [reg |-> 17, val |-> 0] \in DownWord
<1>1. IdxMod \in Nat \ {0} /\ Slots \in Nat \ {0}
  BY MsgAssumption
<1>2. \A k \in Int : k % IdxMod \in Idx /\ k % Slots \in SlotNo
  BY <1>1, Modulo DEF Idx, SlotNo
<1>3. \A k \in Idx : Next32(k) \in Idx
  <2> TAKE k \in Idx
  <2>1. k + 1 \in Int
    BY <1>1 DEF Idx
  <2> QED  BY <1>2, <2>1 DEF Next32
<1>4. 0 \in Idx /\ ClearedIdx \in Idx /\ 0 \in SlotNo
  BY <1>1 DEF Idx, ClearedIdx, SlotNo
<1> QED  BY <1>2, <1>3, <1>4 DEF DownWord, Regs, Counters

(* What the steps of the program do to its own variables.                  *)
LEMMA ProgramTypesStep ==
  ASSUME ProgramTypes,
         Construct \/ Receiver \/ startSend \/ sendReg \/ Restart
  PROVE  ProgramTypes'
<1>1. /\ start \in {"clear", "received", "index", "ready"} /\ rpc \in {"call", "scan", "copy", "done"}
      /\ i \in 0 .. Slots /\ (rpc = "copy" => i < Slots) /\ found \in BOOLEAN
      /\ recvd \in Nat /\ nextrecvidx \in Idx /\ nextrecvoff \in SlotNo
  BY DEF ProgramTypes
<1>2. /\ recvList \in Seq(Copied) /\ taken \in Seq(Copied) /\ received \in Seq(Copied)
      /\ regs \in Seq(Regs) /\ words \in 0 .. MaxWords
  BY DEF ProgramTypes
<1>3. slots \in [SlotNo -> [word : Msg, head : Msg, idx : Idx]]
  BY DEF ProgramTypes
<1>4. down \in Seq(DownWord) /\ Len(down) <= DownCap /\ up \in Seq(UpWord)
  BY DEF ProgramTypes
<1>5. /\ Slots \in Nat \ {0} /\ MaxMsgs \in Nat /\ MaxWords \in Nat /\ IdxMod \in Nat /\ 0 \in 0 .. Slots
  BY MsgAssumption
<1>6. CASE Construct
  <2>1. slots' \in [SlotNo -> [word : Msg, head : Msg, idx : Idx]]
    <3>1. Cleared \in [SlotNo -> [word : Msg, head : Msg, idx : Idx]]
      BY <1>5, Numbers DEF Cleared, SlotNo, Msg
    <3> QED  BY <1>3, <1>6, <3>1 DEF Construct
  <2>2. down' \in Seq(DownWord) /\ Len(down') <= DownCap
    <3>1. ASSUME NEW r \in {16, 17}, Write(r, 0) PROVE down' \in Seq(DownWord) /\ Len(down') <= DownCap
      BY <3>1, WriteTypes, Numbers
    <3> QED  BY <1>4, <1>6, <3>1 DEF Construct
  <2>3. /\ start' \in {"clear", "received", "index", "ready"}
        /\ UNCHANGED <<rpc, i, found, recvd, nextrecvidx, nextrecvoff, recvList, taken, received,
                       regs, words, up>>
    BY <1>6 DEF Construct, recvVars, sendVars
  <2> QED  BY <1>1, <1>2, <1>4, <2>1, <2>2, <2>3 DEF ProgramTypes
<1>7. CASE recvWord
  <2>1. /\ rpc' \in {"call", "scan"}
        /\ UNCHANGED <<start, i, found, recvd, nextrecvidx, nextrecvoff, taken, regs, words, slots,
                       down, up>>
    BY <1>7, <1>1 DEF recvWord, sendVars
  <2>2. recvList' \in Seq(Copied) /\ received' \in Seq(Copied)
    <3>1. CASE recvList # <<>>
      <4>1. Len(recvList) \in Nat \ {0} /\ \A k \in 1 .. Len(recvList) : recvList[k] \in Copied
        BY <1>2, <3>1, LenProperties, EmptySeq, ElementOfSeq
      <4>2. SubSeq(recvList, 1, Len(recvList) - 1) \in Seq(Copied)
        <5>1. \A k \in 1 .. Len(recvList) - 1 : recvList[k] \in Copied
          BY <4>1
        <5> QED  BY <4>1, <5>1, SubSeqProperties
      <4>3. Append(received, recvList[Len(recvList)]) \in Seq(Copied)
        <5>1. recvList[Len(recvList)] \in Copied
          BY <4>1
        <5> QED  BY <1>2, <5>1, PutIn
      <4> QED  BY <1>7, <3>1, <4>2, <4>3 DEF recvWord
    <3>2. CASE recvList = <<>>
      BY <1>2, <1>7, <3>2 DEF recvWord
    <3> QED  BY <3>1, <3>2
  <2> QED  BY <1>1, <1>2, <1>3, <1>4, <2>1, <2>2 DEF ProgramTypes
<1>8. CASE scanSlot
  <2>1. i' \in 0 .. Slots /\ rpc' \in {"call", "scan", "copy", "done"} /\ (rpc' = "copy" => i' < Slots)
    BY <1>1, <1>5, <1>8 DEF scanSlot
  <2>2. UNCHANGED <<start, found, recvd, nextrecvidx, nextrecvoff, recvList, taken, received, regs,
                    words, slots, down, up>>
    BY <1>8 DEF scanSlot, sendVars
  <2> QED  BY <1>1, <1>2, <1>3, <1>4, <2>1, <2>2 DEF ProgramTypes
<1>9. CASE copySlot
  <2>1. SlotAt(i) \in SlotNo
    <3>1. i + nextrecvoff \in Int
      BY <1>1, <1>5 DEF SlotNo
    <3> QED  BY <3>1, Numbers DEF SlotAt
  <2>2. [word |-> slots[SlotAt(i)].word, head |-> slots[SlotAt(i)].head] \in Copied
    BY <1>3, <2>1 DEF Copied
  <2>3. recvList' \in Seq(Copied) /\ taken' \in Seq(Copied)
    <3>1. PICK m \in Copied : recvList' = <<m>> \o recvList /\ taken' = Append(taken, m)
      BY <1>9, <2>2 DEF copySlot
    <3>2. <<m>> \in Seq(Copied)
      OBVIOUS
    <3> QED  BY <1>2, <3>1, <3>2, PutIn, ConcatProperties
  <2>4. /\ rpc = "copy" /\ i' = i + 1 /\ recvd' = recvd + 1 /\ nextrecvidx' = Next32(nextrecvidx)
        /\ found' = TRUE /\ rpc' = "scan"
        /\ UNCHANGED <<start, nextrecvoff, received, regs, words, slots, down, up>>
    BY <1>9 DEF copySlot, sendVars
  <2>5. i' \in 0 .. Slots /\ recvd' \in Nat
    BY <1>1, <1>5, <2>4
  <2>6. nextrecvidx' \in Idx
    BY <1>1, <2>4, Numbers
  <2> QED  BY <1>1, <1>2, <1>3, <1>4, <2>3, <2>4, <2>5, <2>6 DEF ProgramTypes
<1>10. CASE endScan
  <2>1. down' \in Seq(DownWord) /\ Len(down') <= DownCap
    <3>1. [reg |-> 16, val |-> nextrecvidx] \in DownWord
      BY <1>1, <1>5 DEF DownWord, Regs, Counters, Idx
    <3>2. CASE Write(16, nextrecvidx)
      BY <3>1, <3>2, WriteTypes
    <3> QED  BY <1>4, <1>10, <3>2 DEF endScan
  <2>2. nextrecvoff' \in SlotNo
    <3>1. nextrecvoff + recvd \in Int
      BY <1>1, <1>5 DEF SlotNo
    <3> QED  BY <1>10, <3>1, Numbers DEF endScan
  <2>3. /\ rpc' = "call" /\ i' = 0 /\ found' = FALSE /\ recvd' = 0
        /\ UNCHANGED <<start, nextrecvidx, recvList, taken, received, regs, words, slots, up>>
    BY <1>10 DEF endScan, sendVars
  <2> QED  BY <1>1, <1>2, <1>3, <1>4, <1>5, <2>1, <2>2, <2>3 DEF ProgramTypes
<1>11. CASE startSend
  <2>1. words' \in 0 .. MaxWords
    BY <1>2, <1>5, <1>11 DEF startSend
  <2>2. regs' \in Seq(Regs)
    <3>1. Long \in Seq(Regs) /\ Short \in Seq(Regs)
      BY DEF Long, Short, Regs
    <3> QED  BY <1>11, <3>1 DEF startSend
  <2>3. UNCHANGED <<start, rpc, i, found, recvd, nextrecvidx, nextrecvoff, recvList, taken, received,
                    slots, down, up>>
    BY <1>11 DEF startSend, recvVars
  <2> QED  BY <1>1, <1>2, <1>3, <1>4, <2>1, <2>2, <2>3 DEF ProgramTypes
<1>12. CASE sendReg
  <2>1. Head(regs) \in Regs /\ Tail(regs) \in Seq(Regs)
    <3>1. regs # <<>>
      BY <1>12 DEF sendReg
    <3> QED  BY <1>2, <3>1, TakenOut
  <2>2. [reg |-> Head(regs), val |-> words] \in DownWord
    <3>1. Head(regs) \in 0 .. 4 /\ words \in 0 .. MaxWords /\ MaxWords \in Nat
      BY <1>2, <1>5, <2>1 DEF Regs
    <3> QED  BY <3>1 DEF DownWord, Regs, Counters
  <2>3. down' \in Seq(DownWord) /\ Len(down') <= DownCap
    <3>1. Write(Head(regs), words)
      BY <1>12 DEF sendReg
    <3> QED  BY <2>2, <3>1, WriteTypes
  <2>4. /\ regs' = Tail(regs)
        /\ UNCHANGED <<start, rpc, i, found, recvd, nextrecvidx, nextrecvoff, recvList, taken,
                       received, words, slots, up>>
    BY <1>12 DEF sendReg, recvVars
  <2> QED  BY <1>1, <1>2, <1>3, <1>4, <2>1, <2>3, <2>4 DEF ProgramTypes
<1>13. CASE Restart
  <2>1. 0 \in SlotNo /\ 0 \in Idx /\ <<>> \in Seq(Copied) /\ <<>> \in Seq(Regs)
    BY Numbers, EmptySeq
  <2>2. /\ start' = "clear" /\ rpc' = "call" /\ i' = 0 /\ found' = FALSE /\ recvd' = 0
        /\ nextrecvidx' = 0 /\ nextrecvoff' = 0 /\ recvList' = <<>> /\ regs' = <<>>
        /\ taken' = <<>> /\ received' = <<>>
        /\ UNCHANGED <<words, slots, down, up>>
    BY <1>13 DEF Restart
  <2> QED  BY <1>1, <1>2, <1>3, <1>4, <1>5, <2>1, <2>2 DEF ProgramTypes
<1> QED  BY <1>6, <1>7, <1>8, <1>9, <1>10, <1>11, <1>12, <1>13 DEF Receiver

(* The FPGA's steps.                                                       *)
LEMMA DownTypes ==
  ASSUME TypeInv, procFC
  PROVE  ProgramTypes' /\ EnqTypes' /\ IoTypes'
<1>1. down \in Seq(DownWord) /\ Len(down) <= DownCap /\ down # <<>> /\ down' = Tail(down)
  BY DEF TypeInv, ProgramTypes, procFC
<1>2. down' \in Seq(DownWord) /\ Len(down') <= DownCap /\ Head(down) \in DownWord
  BY <1>1, TakenOut, MsgAssumption
<1>3. ProgramTypes'
  <2>1. UNCHANGED <<start, recvVars, sendVars, slots, up>>
    BY DEF procFC
  <2> QED  BY <1>2, <2>1 DEF TypeInv, ProgramTypes, recvVars, sendVars
<1>4. EnqTypes'
  <2>1. enqReceivedIdx' \in Idx /\ enqIdx' \in Idx
    <3>1. enqReceivedIdx \in Idx /\ enqIdx \in Idx /\ 0 \in Idx
      BY Numbers DEF TypeInv, EnqTypes
    <3> QED  BY <1>2, <3>1 DEF procFC, DownWord
  <2>2. UNCHANGED <<enqOffset, enqState, enq2Q, enqh2Q, enqDataQ, wm00, enqDmaWriteQ, writing,
                    msgs, sent>>
    BY DEF procFC
  <2> QED  BY <2>1, <2>2 DEF TypeInv, EnqTypes
<1>5. IoTypes'
  <2>1. userWriteQ' \in Seq(UserWord) /\ Len(userWriteQ') <= FifoCap
    <3>1. userWriteQ \in Seq(UserWord) /\ Len(userWriteQ) <= FifoCap
      BY DEF TypeInv, IoTypes
    <3>2. CASE Head(down).reg < 16 /\ Len(userWriteQ) < FifoCap /\ userWriteQ' = Append(userWriteQ, Head(down))
      <4>1. Head(down) \in UserWord
        BY <1>2, <3>2 DEF DownWord, UserWord, Regs, Counters
      <4> QED  BY <3>1, <3>2, <4>1, PutIn, MsgAssumption
    <3> QED  BY <3>1, <3>2 DEF procFC
  <2>2. UNCHANGED <<writeBuf, ioRecvQ, arrived, offered>>
    BY DEF procFC, sendVars
  <2> QED  BY <2>1, <2>2 DEF TypeInv, IoTypes
<1> QED  BY <1>3, <1>4, <1>5

(* What the steps of DMAWideCtrl do to theirs.                             *)
LEMMA EnqTypesStep ==
  ASSUME TypeInv,
         enq \/ startEnqPacket \/ sendEnqPacket \/ sendEnqIdx \/ issuedmaWrite \/ senddmaWriteData \/ Restart
  PROVE  EnqTypes'
<1>1. /\ enqReceivedIdx \in Idx /\ enqIdx \in Idx /\ enqOffset \in SlotNo /\ enqState \in 0 .. 2
      /\ enq2Q \in Seq(Msg) /\ Len(enq2Q) <= UserCap /\ enqh2Q \in Seq(Msg)
      /\ Len(enqh2Q) <= UserCap /\ enqDataQ \in Seq(Msg)
  BY DEF TypeInv, EnqTypes
<1>2. /\ wm00 \in Seq(SlotNo) /\ Len(wm00) <= FifoCap
      /\ enqDmaWriteQ \in Seq(DmaWord) /\ Len(enqDmaWriteQ) <= DmaCap
      /\ writing \in [slot : SlotNo, left : 0 .. 2]
      /\ msgs \in Msg /\ sent \in Seq(Msg)
  BY DEF TypeInv, EnqTypes
<1>3. /\ UserCap \in Nat /\ FifoCap \in Nat /\ DmaCap \in Nat /\ MaxMsgs \in Nat
      /\ Len(enq2Q) \in Nat /\ Len(enqh2Q) \in Nat /\ Len(wm00) \in Nat /\ Len(enqDmaWriteQ) \in Nat
  BY <1>1, <1>2, MsgAssumption, LenProperties
<1>4. CASE enq
  <2>1. msgs' \in Msg
    BY <1>2, <1>3, <1>4 DEF enq, Msg
  <2>2. /\ sent' \in Seq(Msg) /\ enq2Q' \in Seq(Msg) /\ enqh2Q' \in Seq(Msg)
        /\ Len(enq2Q') <= UserCap /\ Len(enqh2Q') <= UserCap
    <3>1. /\ sent' = Append(sent, msgs') /\ enq2Q' = Append(enq2Q, msgs') /\ enqh2Q' = Append(enqh2Q, msgs')
          /\ Len(enq2Q) < UserCap /\ Len(enqh2Q) < UserCap
      BY <1>4 DEF enq
    <3> QED  BY <1>1, <1>2, <1>3, <2>1, <3>1, PutIn
  <2>3. UNCHANGED <<enqReceivedIdx, enqIdx, enqOffset, enqState, enqDataQ, wm00, enqDmaWriteQ, writing>>
    BY <1>4 DEF enq
  <2> QED  BY <1>1, <1>2, <2>1, <2>2, <2>3 DEF EnqTypes
<1>5. CASE startEnqPacket
  <2>1. /\ enq2Q # <<>> /\ Len(wm00) < FifoCap /\ enq2Q' = Tail(enq2Q)
        /\ enqDataQ' = Append(enqDataQ, Head(enq2Q)) /\ wm00' = Append(wm00, enqOffset)
        /\ enqOffset' = (enqOffset + 1) % Slots /\ enqState' = 1
        /\ UNCHANGED <<enqReceivedIdx, enqIdx, enqh2Q, enqDmaWriteQ, writing, msgs, sent>>
    BY <1>5 DEF startEnqPacket
  <2>2. enq2Q' \in Seq(Msg) /\ Len(enq2Q') <= UserCap /\ Head(enq2Q) \in Msg
    BY <1>1, <1>3, <2>1, TakenOut
  <2>3. enqDataQ' \in Seq(Msg) /\ wm00' \in Seq(SlotNo) /\ Len(wm00') <= FifoCap
    BY <1>1, <1>2, <1>3, <2>1, <2>2, PutIn
  <2>4. enqOffset' \in SlotNo
    <3>1. enqOffset + 1 \in Int
      BY <1>1, MsgAssumption DEF SlotNo
    <3> QED  BY <2>1, <3>1, Numbers
  <2> QED  BY <1>1, <1>2, <2>1, <2>2, <2>3, <2>4 DEF EnqTypes
<1>6. CASE sendEnqPacket
  <2>1. /\ enqDataQ # <<>> /\ Len(enqDmaWriteQ) < DmaCap /\ enqDataQ' = Tail(enqDataQ) /\ enqState' = 2
        /\ enqDmaWriteQ' = Append(enqDmaWriteQ, [val |-> Head(enqDataQ), idx |-> 0])
        /\ UNCHANGED <<enqReceivedIdx, enqIdx, enqOffset, enq2Q, enqh2Q, wm00, writing, msgs, sent>>
    BY <1>6 DEF sendEnqPacket
  <2>2. enqDataQ' \in Seq(Msg) /\ Head(enqDataQ) \in Msg
    BY <1>1, <2>1, TakenOut
  <2>3. [val |-> Head(enqDataQ), idx |-> 0] \in DmaWord
    BY <2>2, Numbers DEF DmaWord
  <2>4. enqDmaWriteQ' \in Seq(DmaWord) /\ Len(enqDmaWriteQ') <= DmaCap
    BY <1>2, <1>3, <2>1, <2>3, PutIn
  <2> QED  BY <1>1, <1>2, <2>1, <2>2, <2>4 DEF EnqTypes
<1>7. CASE sendEnqIdx
  <2>1. /\ enqh2Q # <<>> /\ Len(enqDmaWriteQ) < DmaCap /\ enqh2Q' = Tail(enqh2Q) /\ enqState' = 0
        /\ enqIdx' = Next32(enqIdx)
        /\ enqDmaWriteQ' = Append(enqDmaWriteQ, [val |-> Head(enqh2Q), idx |-> enqIdx])
        /\ UNCHANGED <<enqReceivedIdx, enqOffset, enq2Q, enqDataQ, wm00, writing, msgs, sent>>
    BY <1>7 DEF sendEnqIdx
  <2>2. enqh2Q' \in Seq(Msg) /\ Len(enqh2Q') <= UserCap /\ Head(enqh2Q) \in Msg
    BY <1>1, <1>3, <2>1, TakenOut
  <2>3. [val |-> Head(enqh2Q), idx |-> enqIdx] \in DmaWord
    BY <1>1, <2>2 DEF DmaWord
  <2>4. enqDmaWriteQ' \in Seq(DmaWord) /\ Len(enqDmaWriteQ') <= DmaCap
    BY <1>2, <1>3, <2>1, <2>3, PutIn
  <2>5. enqIdx' \in Idx
    BY <1>1, <2>1, Numbers
  <2> QED  BY <1>1, <1>2, <2>1, <2>2, <2>4, <2>5 DEF EnqTypes
<1>8. CASE issuedmaWrite
  <2>1. /\ wm00 # <<>> /\ wm00' = Tail(wm00) /\ writing' = [slot |-> Head(wm00), left |-> 2]
        /\ UNCHANGED <<enqReceivedIdx, enqIdx, enqOffset, enqState, enq2Q, enqh2Q, enqDataQ,
                       enqDmaWriteQ, msgs, sent>>
    BY <1>8 DEF issuedmaWrite
  <2>2. wm00' \in Seq(SlotNo) /\ Len(wm00') <= FifoCap /\ Head(wm00) \in SlotNo
    BY <1>2, <1>3, <2>1, TakenOut
  <2> QED  BY <1>1, <1>2, <2>1, <2>2 DEF EnqTypes
<1>9. CASE senddmaWriteData
  <2>1. /\ enqDmaWriteQ # <<>> /\ enqDmaWriteQ' = Tail(enqDmaWriteQ) /\ writing.left > 0
        /\ writing' = [writing EXCEPT !.left = @ - 1]
        /\ UNCHANGED <<enqReceivedIdx, enqIdx, enqOffset, enqState, enq2Q, enqh2Q, enqDataQ, wm00,
                       msgs, sent>>
    BY <1>9 DEF senddmaWriteData
  <2>2. enqDmaWriteQ' \in Seq(DmaWord) /\ Len(enqDmaWriteQ') <= DmaCap
    BY <1>2, <1>3, <2>1, TakenOut
  <2>3. writing' \in [slot : SlotNo, left : 0 .. 2]
    BY <1>2, <2>1
  <2> QED  BY <1>1, <1>2, <2>1, <2>2, <2>3 DEF EnqTypes
<1>10. CASE Restart
  <2>1. /\ sent' = <<>>
        /\ UNCHANGED <<enqReceivedIdx, enqIdx, enqOffset, enqState, enq2Q, enqh2Q, enqDataQ, wm00,
                       enqDmaWriteQ, writing, msgs>>
    BY <1>10 DEF Restart
  <2>2. <<>> \in Seq(Msg)
    BY EmptySeq
  <2> QED  BY <1>1, <1>2, <2>1, <2>2 DEF EnqTypes
<1> QED  BY <1>4, <1>5, <1>6, <1>7, <1>8, <1>9, <1>10

(* Host memory and the words on their way to it.                           *)
LEMMA MemoryTypes ==
  ASSUME TypeInv, senddmaWriteData \/ Land
  PROVE  ProgramTypes'
<1>1. /\ up \in Seq(UpWord) /\ slots \in [SlotNo -> [word : Msg, head : Msg, idx : Idx]]
  BY DEF TypeInv, ProgramTypes
<1>2. CASE senddmaWriteData
  <2>1. [slot |-> writing.slot, first |-> writing.left = 2, data |-> Head(enqDmaWriteQ)] \in UpWord
    <3>1. writing.slot \in SlotNo
      BY DEF TypeInv, EnqTypes
    <3>2. Head(enqDmaWriteQ) \in DmaWord
      <4>1. enqDmaWriteQ \in Seq(DmaWord) /\ enqDmaWriteQ # <<>>
        BY <1>2 DEF TypeInv, EnqTypes, senddmaWriteData
      <4> QED  BY <4>1, TakenOut
    <3> QED  BY <3>1, <3>2 DEF UpWord
  <2>2. up' \in Seq(UpWord)
    BY <1>1, <1>2, <2>1, PutIn DEF senddmaWriteData
  <2>3. UNCHANGED <<start, recvVars, sendVars, slots, down>>
    BY <1>2 DEF senddmaWriteData
  <2> QED  BY <2>2, <2>3 DEF TypeInv, ProgramTypes, recvVars, sendVars
<1>3. CASE Land
  <2>1. Head(up) \in UpWord /\ up' \in Seq(UpWord)
    <3>1. up # <<>> /\ up' = Tail(up)
      BY <1>3 DEF Land
    <3> QED  BY <1>1, <3>1, TakenOut
  <2>2. slots' \in [SlotNo -> [word : Msg, head : Msg, idx : Idx]]
    <3>1. PICK w \in UpWord : w = Head(up)
      BY <2>1
    <3>2. slots' = IF w.first THEN [slots EXCEPT ![w.slot].word = w.data.val]
                   ELSE [slots EXCEPT ![w.slot].head = w.data.val, ![w.slot].idx = w.data.idx]
      BY <1>3, <3>1 DEF Land
    <3>3. w.slot \in SlotNo /\ w.data.val \in Msg /\ w.data.idx \in Idx
      BY DEF UpWord, DmaWord
    <3> QED  BY <1>1, <3>2, <3>3
  <2>3. UNCHANGED <<start, recvVars, sendVars, down>>
    BY <1>3 DEF Land
  <2> QED  BY <2>1, <2>2, <2>3 DEF TypeInv, ProgramTypes, recvVars, sendVars
<1> QED  BY <1>2, <1>3

(* A register of the FPGA written with a word.                             *)
LEMMA BufferKept ==
  ASSUME NEW b \in Buffers, NEW r, NEW v \in 0 .. MaxWords
  PROVE  [b EXCEPT ![r] = v] \in Buffers
BY DEF Buffers

(* The queues to user logic, and what was offered.                         *)
LEMMA IoTypesStep ==
  ASSUME TypeInv, sendReg \/ userWriteReq \/ deq
  PROVE  IoTypes'
<1>1. /\ userWriteQ \in Seq(UserWord) /\ Len(userWriteQ) <= FifoCap /\ writeBuf \in Buffers
      /\ ioRecvQ \in Seq(Buffers) /\ Len(ioRecvQ) <= RecvCap /\ arrived \in Seq(Buffers)
      /\ offered \in [regs : Buffers, all : Seq(Buffers)]
  BY DEF TypeInv, IoTypes
<1>2. FifoCap \in Nat /\ RecvCap \in Nat /\ MaxWords \in Nat
  BY MsgAssumption
<1>3. CASE sendReg
  <2>1. PICK r \in Regs : r = Head(regs)
    <3>1. regs \in Seq(Regs) /\ regs # <<>>
      BY <1>3 DEF TypeInv, ProgramTypes, sendReg
    <3> QED  BY <3>1, TakenOut
  <2>2. offered' = [offered EXCEPT !.regs[r] = words,
                      !.all = IF r = 0 THEN Append(@, [offered.regs EXCEPT ![0] = words]) ELSE @]
    BY <1>3, <2>1 DEF sendReg
  <2>3. words \in 0 .. MaxWords
    BY DEF TypeInv, ProgramTypes
  <2>4. [offered.regs EXCEPT ![0] = words] \in Buffers /\ [offered.regs EXCEPT ![r] = words] \in Buffers
    BY <1>1, <2>3 DEF Buffers, Regs
  <2>5. Append(offered.all, [offered.regs EXCEPT ![0] = words]) \in Seq(Buffers)
    BY <1>1, <2>4, PutIn
  <2>6. offered' \in [regs : Buffers, all : Seq(Buffers)]
    BY <1>1, <2>2, <2>4, <2>5
  <2>7. UNCHANGED ioVars
    BY <1>3 DEF sendReg
  <2> QED  BY <1>1, <2>6, <2>7 DEF IoTypes, ioVars
<1>4. CASE userWriteReq
  <2>1. Head(userWriteQ) \in UserWord
    BY <1>1, <1>4, TakenOut DEF userWriteReq
  <2>2. userWriteQ' \in Seq(UserWord) /\ Len(userWriteQ') <= FifoCap
    <3>1. userWriteQ # <<>> /\ userWriteQ' = Tail(userWriteQ)
      BY <1>4 DEF userWriteReq
    <3> QED  BY <1>1, <1>2, <3>1, TakenOut
  <2>3. PICK buf \in Buffers :
          buf = [writeBuf EXCEPT ![Head(userWriteQ).reg] = Head(userWriteQ).val]
    <3>1. Head(userWriteQ).val \in 0 .. MaxWords
      BY <2>1 DEF UserWord
    <3>2. [writeBuf EXCEPT ![Head(userWriteQ).reg] = Head(userWriteQ).val] \in Buffers
      BY <1>1, <3>1, BufferKept
    <3> QED  BY <3>2
  <2>4. /\ writeBuf' = buf
        /\ \/ Len(ioRecvQ) < RecvCap /\ ioRecvQ' = Append(ioRecvQ, buf)
           \/ UNCHANGED ioRecvQ
    BY <1>4, <2>3 DEF userWriteReq
  <2>5. ioRecvQ' \in Seq(Buffers) /\ Len(ioRecvQ') <= RecvCap
    <3>1. /\ Append(ioRecvQ, buf) \in Seq(Buffers) /\ Len(Append(ioRecvQ, buf)) = Len(ioRecvQ) + 1
          /\ Len(ioRecvQ) \in Nat
      BY <1>1, PutIn
    <3>2. CASE Len(ioRecvQ) < RecvCap /\ ioRecvQ' = Append(ioRecvQ, buf)
      BY ONLY <1>2, <3>1, <3>2
    <3>3. CASE UNCHANGED ioRecvQ
      BY <1>1, <3>3
    <3> QED  BY <2>4, <3>2, <3>3
  <2>6. UNCHANGED <<arrived, offered>>
    BY <1>4 DEF userWriteReq, sendVars
  <2> QED  BY <1>1, <2>2, <2>4, <2>5, <2>6 DEF IoTypes
<1>5. CASE deq
  <2>1. /\ ioRecvQ # <<>> /\ ioRecvQ' = Tail(ioRecvQ) /\ arrived' = Append(arrived, Head(ioRecvQ))
        /\ UNCHANGED <<userWriteQ, writeBuf, offered>>
    BY <1>5 DEF deq, sendVars
  <2>2. ioRecvQ' \in Seq(Buffers) /\ Len(ioRecvQ') <= RecvCap /\ Head(ioRecvQ) \in Buffers
    BY <1>1, <1>2, <2>1, TakenOut
  <2>3. arrived' \in Seq(Buffers)
    BY <1>1, <2>1, <2>2, PutIn
  <2> QED  BY <1>1, <2>1, <2>2, <2>3 DEF IoTypes
<1> QED  BY <1>3, <1>4, <1>5

(* Every step keeps the types.                                             *)
LEMMA TypeStep ==
  ASSUME TypeInv, [Next]_vars
  PROVE  TypeInv'
<1>1. ASSUME UNCHANGED <<enqReceivedIdx, enqVars>> PROVE EnqTypes'
  BY <1>1 DEF TypeInv, EnqTypes, enqVars
<1>2. ASSUME UNCHANGED <<ioVars, offered>> PROVE IoTypes'
  BY <1>2 DEF TypeInv, IoTypes, ioVars
<1>3. ASSUME UNCHANGED <<start, recvVars, sendVars, slots, down, up>> PROVE ProgramTypes'
  BY <1>3 DEF TypeInv, ProgramTypes, recvVars, sendVars
<1>4. CASE Construct \/ Receiver \/ startSend
  <2>1. ProgramTypes'
    BY <1>4, ProgramTypesStep DEF TypeInv
  <2>2. UNCHANGED <<enqReceivedIdx, enqVars, ioVars, offered>>
    BY <1>4 DEF Construct, Receiver, recvWord, scanSlot, copySlot, endScan, startSend, sendVars
  <2> QED  BY <1>1, <1>2, <2>1, <2>2 DEF TypeInv
<1>5. CASE sendReg
  <2>1. UNCHANGED <<enqReceivedIdx, enqVars>>
    BY <1>5 DEF sendReg
  <2> QED  BY <1>1, <1>5, <2>1, ProgramTypesStep, IoTypesStep DEF TypeInv
<1>6. CASE Restart
  <2>1. UNCHANGED <<ioVars, offered>>
    BY <1>6 DEF Restart
  <2> QED  BY <1>2, <1>6, <2>1, ProgramTypesStep, EnqTypesStep DEF TypeInv
<1>7. CASE procFC
  BY <1>7, DownTypes DEF TypeInv
<1>8. CASE userWriteReq \/ deq
  <2>1. UNCHANGED <<enqReceivedIdx, enqVars, start, recvVars, sendVars, slots, down, up>>
    BY <1>8 DEF userWriteReq, deq
  <2> QED  BY <1>1, <1>3, <1>8, <2>1, IoTypesStep DEF TypeInv
<1>9. CASE enq \/ startEnqPacket \/ sendEnqPacket \/ sendEnqIdx \/ issuedmaWrite
  <2>1. UNCHANGED <<ioVars, start, recvVars, sendVars, slots, down, up>>
    BY <1>9 DEF enq, startEnqPacket, sendEnqPacket, sendEnqIdx, issuedmaWrite
  <2> QED  BY <1>2, <1>3, <1>9, <2>1, EnqTypesStep DEF TypeInv, sendVars
<1>10. CASE senddmaWriteData
  <2>1. UNCHANGED <<ioVars, offered>>
    BY <1>10 DEF senddmaWriteData, sendVars
  <2> QED  BY <1>2, <1>10, <2>1, EnqTypesStep, MemoryTypes DEF TypeInv
<1>11. CASE Land
  <2>1. UNCHANGED <<ioVars, offered, enqReceivedIdx, enqVars>>
    BY <1>11 DEF Land, sendVars
  <2> QED  BY <1>1, <1>2, <1>11, <2>1, MemoryTypes DEF TypeInv
<1>12. CASE UNCHANGED vars
  BY <1>1, <1>2, <1>3, <1>12 DEF vars, TypeInv, sendVars
<1> QED  BY <1>4, <1>5, <1>6, <1>7, <1>8, <1>9, <1>10, <1>11, <1>12 DEF Next, Rules

(* More moves allow no fewer paths.                                        *)
LEMMA PathWider ==
  ASSUME NEW S, NEW q, NEW a, NEW b, NEW M, NEW N, Path(S, q, a, b, M), M \subseteq N
  PROVE  Path(S, q, a, b, N)
BY DEF Path

-----------------------------------------------------------------------------
(* Messages to the FPGA.                                                   *)
LEMMA WordStart == Init => WordInv
<1> SUFFICES ASSUME Init PROVE WordInv
  OBVIOUS
<1> DEFINE p == [regs |-> [r \in 0 .. 4 |-> 0], n |-> 0]
<1>1. p \in Progress
  BY MsgAssumption DEF Progress, Buffers
<1>2. /\ userWriteQ = <<>> /\ down = <<>> /\ ioRecvQ = <<>> /\ arrived = <<>> /\ offered.all = <<>>
      /\ writeBuf = [r \in 0 .. 4 |-> 0] /\ offered.regs = [r \in 0 .. 4 |-> 0]
  BY DEF Init
<1>3. Path(Progress, <<>>, p, p, WordMoves(offered.all))
  BY <1>1, PathEmpty
<1>4. Len(arrived) + Len(ioRecvQ) = 0 /\ Len(offered.all) = 0 /\ Len(arrived) = 0 /\ Len(ioRecvQ) = 0
  BY <1>2
<1>5. \E mid \in Progress :
       /\ Path(Progress, userWriteQ, [regs |-> writeBuf, n |-> Len(arrived) + Len(ioRecvQ)],
               mid, WordMoves(offered.all))
       /\ Path(Progress, down, mid, [regs |-> offered.regs, n |-> Len(offered.all)],
               WordMoves(offered.all))
  BY <1>1, <1>2, <1>3, <1>4
<1> QED  BY <1>4, <1>5 DEF WordInv

(* Steps that touch no word to the FPGA.                                   *)
LEMMA WordsKept ==
  ASSUME WordInv, UNCHANGED <<down, offered, userWriteQ, writeBuf, ioRecvQ, arrived>>
  PROVE  WordInv'
<1>1. \A all : WordMoves(all)' = WordMoves(all)
  BY DEF WordMoves
<1> QED  BY <1>1 DEF WordInv

(* A counter that is set is no word of a message.                          *)
LEMMA CounterWritten ==
  ASSUME TypeInv, WordInv, UNCHANGED <<offered, userWriteQ, writeBuf, ioRecvQ, arrived>>,
         NEW r \in Counters, NEW v, Write(r, v), [reg |-> r, val |-> v] \in DownWord
  PROVE  WordInv'
<1> DEFINE e   == [reg |-> r, val |-> v]
           all == offered.all
           to  == [regs |-> offered.regs, n |-> Len(all)]
<1>1. down \in Seq(DownWord) /\ down' = Append(down, e) /\ e \in DownWord
  BY DEF TypeInv, ProgramTypes, Write
<1>2. PICK mid \in Progress :
       /\ Path(Progress, userWriteQ, [regs |-> writeBuf, n |-> Len(arrived) + Len(ioRecvQ)],
               mid, WordMoves(all))
       /\ Path(Progress, down, mid, to, WordMoves(all))
  BY DEF WordInv
<1>3. to \in Progress
  BY <1>1, <1>2, PathEnds
<1>4. <<to, e, to>> \in WordMoves(all)
  <2>1. e.reg \in Counters /\ e.reg \notin 1 .. 4 /\ e.reg # 0
    BY DEF Counters
  <2> HIDE DEF e, to
  <2> QED  BY <1>1, <1>3, <2>1 DEF WordMoves
<1>5. Path(Progress, down', mid, to, WordMoves(all))
  BY <1>1, <1>2, <1>3, <1>4, PathAppend
<1> QED  BY <1>2, <1>5 DEF WordInv, WordMoves

(* A word that is offered moves the registers as sendReg does.             *)
LEMMA RegMoves ==
  ASSUME NEW all, NEW p \in Progress, NEW c \in Progress, NEW e \in DownWord, e.reg \in Regs,
         NEW b, b = [p.regs EXCEPT ![e.reg] = e.val], c.regs = b,
         e.reg # 0 => c.n = p.n,
         e.reg = 0 => c.n = p.n + 1 /\ c.n \in 1 .. Len(all) /\ all[c.n] = b
  PROVE  <<p, e, c>> \in WordMoves(all)
<1>1. e.reg \notin Counters /\ (e.reg \in 1 .. 4 => e.reg # 0) /\ (e.reg # 0 => e.reg \in 1 .. 4)
  BY DEF Regs, Counters
<1>2. c = [regs |-> b, n |-> c.n]
  BY DEF Progress
<1>3. <<p, e, c>> \in Progress \X DownWord \X Progress
  OBVIOUS
<1>4. e.reg \in 1 .. 4 => c = [regs |-> b, n |-> p.n]
  BY <1>1, <1>2
<1>5. e.reg = 0 => c = [regs |-> b, n |-> p.n + 1] /\ c.n \in 1 .. Len(all) /\ all[c.n] = b
  BY <1>2
<1> QED  BY <1>1, <1>3, <1>4, <1>5 DEF WordMoves

(* sendReg: one more word is under way.                                    *)
LEMMA RegWritten ==
  ASSUME TypeInv, WordInv, sendReg
  PROVE  WordInv'
<1> DEFINE all == offered.all
           b   == [offered.regs EXCEPT ![Head(regs)] = words]
           at  == [regs |-> offered.regs, n |-> Len(all)]
           to  == [regs |-> offered'.regs, n |-> Len(offered'.all)]
           e   == [reg |-> Head(regs), val |-> words]
<1>1. /\ down \in Seq(DownWord) /\ down' = Append(down, e) /\ regs \in Seq(Regs) /\ regs # <<>>
      /\ words \in 0 .. MaxWords /\ offered \in [regs : Buffers, all : Seq(Buffers)]
      /\ offered' = [offered EXCEPT !.regs[Head(regs)] = words,
                      !.all = IF Head(regs) = 0
                              THEN Append(@, [offered.regs EXCEPT ![0] = words]) ELSE @]
      /\ UNCHANGED <<userWriteQ, writeBuf, ioRecvQ, arrived>>
  BY DEF TypeInv, ProgramTypes, IoTypes, Write, sendReg, ioVars
<1>2. Head(regs) \in Regs /\ e \in DownWord
  <2>1. Head(regs) \in Regs
    BY <1>1, TakenOut
  <2>2. MaxWords \in Nat
    BY MsgAssumption
  <2> QED  BY <1>1, <2>1, <2>2 DEF DownWord, Regs, Counters
<1>3. /\ all \in Seq(Buffers) /\ Len(all) \in Nat /\ b \in Buffers /\ at \in Progress
      /\ offered'.regs = b
      /\ Head(regs) # 0 => offered'.all = all
      /\ Head(regs) = 0 => offered'.all = Append(all, b)
  <2>1. b \in Buffers
    BY <1>1, BufferKept
  <2> QED  BY <1>1, <2>1, LenProperties DEF Progress
<1>4. /\ to \in Progress /\ Len(all) <= Len(offered'.all)
      /\ \A k \in 1 .. Len(all) : offered'.all[k] = all[k]
  <2>1. CASE Head(regs) # 0
    BY <1>3, <2>1 DEF Progress
  <2>2. CASE Head(regs) = 0
    <3>1. /\ Len(Append(all, b)) = Len(all) + 1
          /\ \A k \in 1 .. Len(all) : Append(all, b)[k] = all[k]
      BY <1>3, PutIn
    <3> QED  BY <1>3, <2>2, <3>1 DEF Progress
  <2> QED  BY <2>1, <2>2
<1>5. <<at, e, to>> \in WordMoves(offered'.all)
  <2>1. /\ e.reg = Head(regs) /\ e.val = words /\ at.regs = offered.regs /\ at.n = Len(all)
        /\ to.regs = b /\ to.n = Len(offered'.all)
    BY <1>3
  <2>2. e.reg # 0 => to.n = at.n
    BY <1>3, <2>1
  <2>3. e.reg = 0 => to.n = at.n + 1 /\ to.n \in 1 .. Len(offered'.all) /\ offered'.all[to.n] = b
    <3>1. Len(Append(all, b)) = Len(all) + 1 /\ Append(all, b)[Len(all) + 1] = b
      BY <1>3, PutIn
    <3> QED  BY <1>3, <2>1, <3>1
  <2>4. b = [at.regs EXCEPT ![e.reg] = e.val]
    BY <2>1
  <2> HIDE DEF at, e, to, b
  <2> QED  BY <1>2, <1>3, <1>4, <2>1, <2>2, <2>3, <2>4, RegMoves
<1>6. WordMoves(all) \subseteq WordMoves(offered'.all)
  BY <1>3, <1>4 DEF WordMoves
<1>7. PICK mid \in Progress :
       /\ Path(Progress, userWriteQ, [regs |-> writeBuf, n |-> Len(arrived) + Len(ioRecvQ)],
               mid, WordMoves(all))
       /\ Path(Progress, down, mid, at, WordMoves(all))
  BY DEF WordInv
<1>8. /\ Path(Progress, userWriteQ, [regs |-> writeBuf, n |-> Len(arrived) + Len(ioRecvQ)],
               mid, WordMoves(offered'.all))
      /\ Path(Progress, down, mid, at, WordMoves(offered'.all))
  BY <1>6, <1>7, PathWider
<1>9. Path(Progress, down', mid, to, WordMoves(offered'.all))
  BY <1>1, <1>2, <1>4, <1>5, <1>8, PathAppend
<1>10. \E m \in Progress :
       /\ Path(Progress, userWriteQ', [regs |-> writeBuf', n |-> Len(arrived') + Len(ioRecvQ')],
               m, WordMoves(offered'.all))
       /\ Path(Progress, down', m, [regs |-> offered'.regs, n |-> Len(offered'.all)],
               WordMoves(offered'.all))
  BY <1>1, <1>8, <1>9
<1>11. /\ \A k \in 1 .. Len(arrived') : k \in 1 .. Len(offered'.all) /\ arrived'[k] = offered'.all[k]
       /\ \A k \in 1 .. Len(ioRecvQ') :
            /\ Len(arrived') + k \in 1 .. Len(offered'.all)
            /\ ioRecvQ'[k] = offered'.all[Len(arrived') + k]
  <2>1. /\ \A k \in 1 .. Len(arrived) : k \in 1 .. Len(all) /\ arrived[k] = all[k]
        /\ \A k \in 1 .. Len(ioRecvQ) :
            /\ Len(arrived) + k \in 1 .. Len(all)
            /\ ioRecvQ[k] = all[Len(arrived) + k]
    BY DEF WordInv
  <2>2. Len(offered'.all) \in Nat
    BY <1>4 DEF Progress
  <2>3. \A k \in 1 .. Len(all) : k \in 1 .. Len(offered'.all)
    BY <1>3, <1>4, <2>2
  <2> QED  BY <1>1, <1>4, <2>1, <2>3
<1> QED  BY <1>10, <1>11 DEF WordInv, WordMoves

(* procFC: a word goes to the queue of user words, or is a counter.        *)
LEMMA WordTaken ==
  ASSUME TypeInv, WordInv, procFC
  PROVE  WordInv'
<1> DEFINE all == offered.all
           to  == [regs |-> offered.regs, n |-> Len(all)]
           fr  == [regs |-> writeBuf, n |-> Len(arrived) + Len(ioRecvQ)]
<1>1. /\ down \in Seq(DownWord) /\ down # <<>> /\ down' = Tail(down)
      /\ userWriteQ \in Seq(UserWord)
      /\ UNCHANGED <<offered, writeBuf, ioRecvQ, arrived>>
  BY DEF TypeInv, ProgramTypes, IoTypes, procFC, sendVars
<1>2. PICK mid \in Progress :
       /\ Path(Progress, userWriteQ, fr, mid, WordMoves(all))
       /\ Path(Progress, down, mid, to, WordMoves(all))
  BY DEF WordInv
<1>3. PICK c \in Progress : /\ <<mid, Head(down), c>> \in WordMoves(all)
                            /\ Path(Progress, down', c, to, WordMoves(all))
  BY <1>1, <1>2, PathTail
<1>4. Head(down) \in DownWord
  BY <1>1, TakenOut
<1>5. Path(Progress, userWriteQ', fr, c, WordMoves(all))
  <2>1. CASE Head(down).reg < 16 /\ userWriteQ' = Append(userWriteQ, Head(down))
    <3>1. Head(down) \in UserWord
      BY <1>4, <2>1 DEF DownWord, UserWord, Regs, Counters
    <3> QED  BY <1>1, <1>2, <1>3, <2>1, <3>1, PathAppend
  <2>2. CASE Head(down).reg \in Counters /\ userWriteQ' = userWriteQ
    <3>1. c = mid
      BY <1>3, <2>2 DEF WordMoves
    <3> QED  BY <1>2, <2>2, <3>1
  <2> QED  BY <2>1, <2>2 DEF procFC, Counters
<1> QED  BY <1>1, <1>3, <1>5 DEF WordInv, WordMoves

(* userWriteReq: the word is in its register; register 0 completes.        *)
LEMMA WordPlaced ==
  ASSUME TypeInv, WordInv, userWriteReq
  PROVE  WordInv'
<1> DEFINE all == offered.all
           to  == [regs |-> offered.regs, n |-> Len(all)]
           n   == Len(arrived) + Len(ioRecvQ)
           fr  == [regs |-> writeBuf, n |-> n]
           d   == Head(userWriteQ)
           buf == [writeBuf EXCEPT ![d.reg] = d.val]
<1>1. /\ userWriteQ \in Seq(UserWord) /\ userWriteQ # <<>> /\ userWriteQ' = Tail(userWriteQ)
      /\ ioRecvQ \in Seq(Buffers) /\ writeBuf \in Buffers /\ arrived \in Seq(Buffers)
      /\ writeBuf' = buf
      /\ UNCHANGED <<offered, down, arrived>>
  BY DEF TypeInv, IoTypes, userWriteReq, sendVars
<1>2. PICK mid \in Progress :
       /\ Path(Progress, userWriteQ, fr, mid, WordMoves(all))
       /\ Path(Progress, down, mid, to, WordMoves(all))
  BY DEF WordInv
<1>3. PICK c \in Progress : /\ <<fr, d, c>> \in WordMoves(all)
                            /\ Path(Progress, userWriteQ', c, mid, WordMoves(all))
  BY <1>1, <1>2, PathTail
<1>4. d \in UserWord /\ Len(arrived) \in Nat /\ Len(ioRecvQ) \in Nat
  BY <1>1, TakenOut, LenProperties
<1>5. /\ \A k \in 1 .. Len(arrived) : k \in 1 .. Len(all) /\ arrived[k] = all[k]
      /\ \A k \in 1 .. Len(ioRecvQ) : /\ Len(arrived) + k \in 1 .. Len(all)
                                      /\ ioRecvQ[k] = all[Len(arrived) + k]
  BY DEF WordInv
<1>6. /\ c = [regs |-> writeBuf', n |-> Len(arrived') + Len(ioRecvQ')]
      /\ \A k \in 1 .. Len(ioRecvQ') : /\ Len(arrived') + k \in 1 .. Len(all)
                                       /\ ioRecvQ'[k] = all[Len(arrived') + k]
  <2>1. CASE d.reg # 0 /\ UNCHANGED ioRecvQ
    <3>1. d.reg \in 1 .. 4
      BY <1>4, <2>1 DEF UserWord, Regs
    <3>2. c = [regs |-> buf, n |-> n]
      BY <1>3, <3>1 DEF WordMoves
    <3> QED  BY <1>1, <1>5, <2>1, <3>2
  <2>2. CASE d.reg = 0 /\ ioRecvQ' = Append(ioRecvQ, buf)
    <3>1. c = [regs |-> buf, n |-> n + 1] /\ c.n \in 1 .. Len(all) /\ all[c.n] = buf
      BY <1>3, <2>2 DEF WordMoves
    <3>2. buf \in Buffers
      <4>1. d.val \in 0 .. MaxWords
        BY <1>4 DEF UserWord
      <4> QED  BY <1>1, <4>1, BufferKept
    <3>3. /\ Len(ioRecvQ') = Len(ioRecvQ) + 1 /\ ioRecvQ'[Len(ioRecvQ) + 1] = buf
          /\ \A k \in 1 .. Len(ioRecvQ) : ioRecvQ'[k] = ioRecvQ[k]
      BY <1>1, <2>2, <3>2, PutIn
    <3>4. n + 1 = Len(arrived) + (Len(ioRecvQ) + 1) /\ c.n = n + 1
      BY <1>4, <3>1
    <3>5. ASSUME NEW k \in 1 .. Len(ioRecvQ')
          PROVE  /\ Len(arrived') + k \in 1 .. Len(all)
                 /\ ioRecvQ'[k] = all[Len(arrived') + k]
      <4>1. CASE k = Len(ioRecvQ) + 1
        BY <1>1, <3>1, <3>3, <3>4, <4>1
      <4>2. CASE k \in 1 .. Len(ioRecvQ)
        BY <1>1, <1>5, <3>3, <4>2
      <4> QED  BY <1>4, <3>3, <4>1, <4>2
    <3> QED  BY <1>1, <3>1, <3>3, <3>4, <3>5
  <2> QED  BY <2>1, <2>2 DEF userWriteReq
<1>7. \E m \in Progress :
       /\ Path(Progress, userWriteQ', [regs |-> writeBuf', n |-> Len(arrived') + Len(ioRecvQ')],
               m, WordMoves(all))
       /\ Path(Progress, down', m, to, WordMoves(all))
  BY <1>1, <1>2, <1>3, <1>6
<1> HIDE DEF n, fr, d, buf
<1> QED  BY <1>1, <1>5, <1>6, <1>7 DEF WordInv, WordMoves

(* deq: user logic gets a message.                                         *)
LEMMA WordGiven ==
  ASSUME TypeInv, WordInv, deq
  PROVE  WordInv'
<1> DEFINE all == offered.all
           x   == Len(arrived)
           y   == Len(ioRecvQ)
<1>1. /\ ioRecvQ \in Seq(Buffers) /\ arrived \in Seq(Buffers) /\ ioRecvQ # <<>>
      /\ ioRecvQ' = Tail(ioRecvQ) /\ arrived' = Append(arrived, Head(ioRecvQ))
      /\ UNCHANGED <<offered, down, userWriteQ, writeBuf>>
  BY DEF TypeInv, IoTypes, deq, sendVars
<1>2. /\ Head(ioRecvQ) \in Buffers /\ Head(ioRecvQ) = ioRecvQ[1]
      /\ Len(ioRecvQ') = y - 1 /\ y \in Nat \ {0}
      /\ \A k \in 1 .. y - 1 : ioRecvQ'[k] = ioRecvQ[k + 1]
  BY <1>1, TakenOut
<1>3. /\ Len(arrived') = x + 1 /\ x \in Nat /\ arrived'[x + 1] = ioRecvQ[1]
      /\ \A k \in 1 .. x : arrived'[k] = arrived[k]
  BY <1>1, <1>2, PutIn
<1>4. /\ \A k \in 1 .. x : k \in 1 .. Len(all) /\ arrived[k] = all[k]
      /\ \A k \in 1 .. y : x + k \in 1 .. Len(all) /\ ioRecvQ[k] = all[x + k]
  BY DEF WordInv
<1>5. Len(arrived') + Len(ioRecvQ') = x + y
  BY <1>2, <1>3
<1>6. \A k \in 1 .. x + 1 : k \in 1 .. Len(all) /\ arrived'[k] = all[k]
  <2> TAKE k \in 1 .. x + 1
  <2>1. CASE k = x + 1
    BY <1>2, <1>3, <1>4, <2>1
  <2>2. CASE k \in 1 .. x
    BY <1>3, <1>4, <2>2
  <2> QED  BY <1>3, <2>1, <2>2
<1>7. \A k \in 1 .. y - 1 : (x + 1) + k \in 1 .. Len(all) /\ ioRecvQ'[k] = all[(x + 1) + k]
  <2> TAKE k \in 1 .. y - 1
  <2>1. k + 1 \in 1 .. y /\ x + (k + 1) = (x + 1) + k
    BY <1>2, <1>3
  <2>2. x + (k + 1) \in 1 .. Len(all) /\ ioRecvQ[k + 1] = all[x + (k + 1)]
    BY <1>4, <2>1
  <2> QED  BY <1>2, <2>1, <2>2
<1>8. /\ offered' = offered /\ Len(arrived') = x + 1 /\ Len(ioRecvQ') = y - 1
  BY <1>1, <1>2, <1>3
<1> QED  BY <1>1, <1>5, <1>6, <1>7, <1>8 DEF WordInv, WordMoves

(* Every step keeps the words to the FPGA in their order.                  *)
LEMMA WordStep ==
  ASSUME TypeInv, WordInv, [Next]_vars
  PROVE  WordInv'
<1>1. CASE UNCHANGED <<down, offered, ioVars>>
  BY <1>1, WordsKept DEF ioVars
<1>2. CASE Construct
  <2>1. UNCHANGED <<offered, ioVars>>
    BY <1>2 DEF Construct, sendVars
  <2>2. ASSUME NEW r \in {16, 17}, Write(r, 0) PROVE WordInv'
    <3>1. [reg |-> r, val |-> 0] \in DownWord
      BY Numbers
    <3> QED  BY <2>1, <2>2, <3>1, CounterWritten DEF ioVars, Counters
  <2> QED  BY <1>1, <1>2, <2>1, <2>2 DEF Construct
<1>3. CASE Receiver
  <2>1. UNCHANGED <<offered, ioVars>>
    BY <1>3 DEF Receiver, recvWord, scanSlot, copySlot, endScan, sendVars
  <2>2. CASE Write(16, nextrecvidx)
    <3>1. nextrecvidx \in Idx /\ IdxMod \in Nat
      BY MsgAssumption DEF TypeInv, ProgramTypes
    <3>2. [reg |-> 16, val |-> nextrecvidx] \in DownWord
      BY <3>1 DEF DownWord, Regs, Counters, Idx
    <3> QED  BY <2>1, <2>2, <3>2, CounterWritten DEF ioVars, Counters
  <2>3. UNCHANGED down \/ Write(16, nextrecvidx)
    BY <1>3 DEF Receiver, recvWord, scanSlot, copySlot, endScan
  <2> QED  BY <1>1, <2>1, <2>2, <2>3
<1>4. CASE startSend \/ enq \/ Restart
  BY <1>1, <1>4 DEF startSend, enq, Restart, sendVars
<1>5. CASE startEnqPacket \/ sendEnqPacket \/ sendEnqIdx \/ issuedmaWrite \/ senddmaWriteData \/ Land
  BY <1>1, <1>5
  DEF startEnqPacket, sendEnqPacket, sendEnqIdx, issuedmaWrite, senddmaWriteData, Land, sendVars
<1>6. CASE UNCHANGED vars
  BY <1>1, <1>6 DEF vars, sendVars
<1> QED  BY <1>2, <1>3, <1>4, <1>5, <1>6, RegWritten, WordTaken, WordPlaced, WordGiven DEF Next, Rules

(* User logic gets from enq/deq what the program gave to sendWord, message *)
(* by message, whatever is under way and however often the program starts  *)
(* again: procFC and userWriteReq keep the order of the words, and         *)
(* register 0 is always the last of a message.                             *)
THEOREM MessagesArrive == Spec => []WordsArrive
<1>1. TypeInv /\ WordInv /\ [Next]_vars => TypeInv' /\ WordInv'
  BY TypeStep, WordStep
<1>2. Init => TypeInv /\ WordInv
  BY TypeStart, WordStart
<1>3. TypeInv /\ WordInv => WordsArrive
  <2> SUFFICES ASSUME TypeInv, WordInv PROVE WordsArrive
    OBVIOUS
  <2>1. arrived \in Seq(Buffers) /\ offered.all \in Seq(Buffers)
    BY DEF TypeInv, IoTypes
  <2>2. Len(arrived) \in Nat /\ Len(offered.all) \in Nat /\ DOMAIN arrived = 1 .. Len(arrived)
    BY <2>1, LenProperties
  <2>3. \A k \in 1 .. Len(arrived) : k \in 1 .. Len(offered.all) /\ arrived[k] = offered.all[k]
    BY DEF WordInv
  <2> QED  BY <2>2, <2>3 DEF WordsArrive
<1> QED  BY <1>1, <1>2, <1>3, PTL DEF Spec

-----------------------------------------------------------------------------
(* How the counts stand to each other.                                     *)
LEMMA Lengths ==
  ASSUME TypeInv
  PROVE  /\ Len(sent) \in Nat /\ Len(enq2Q) \in Nat /\ Len(enqh2Q) \in Nat /\ Len(wm00) \in Nat
         /\ Len(enqDmaWriteQ) \in Nat /\ Len(up) \in Nat /\ Len(taken) \in Nat /\ Len(down) \in Nat
         /\ Len(received) \in Nat /\ Len(recvList) \in Nat /\ msgs \in Msg /\ recvd \in Nat
         /\ writing.left \in 0 .. 2 /\ enqState \in 0 .. 2 /\ i \in 0 .. Slots
         /\ Slots \in Nat \ {0} /\ MaxMsgs \in Nat /\ IdxMod \in Nat \ {0} /\ Slots < IdxMod
BY LenProperties, MsgAssumption DEF TypeInv, ProgramTypes, EnqTypes

(* The counts from the lengths of the queues, by their definitions.        *)
LEMMA Counts ==
  ASSUME TypeInv
  PROVE  /\ Started \in Int /\ Numbered \in Int /\ Issued \in Int /\ Queued \in Int
         /\ Gone \in Int /\ Landed \in Int /\ Reported \in Int
         /\ Started = Len(sent) - Len(enq2Q) /\ Numbered = Len(sent) - Len(enqh2Q)
         /\ Issued = Started - Len(wm00)
         /\ enqState = 2 => Queued = 2 * Numbered + 1
         /\ enqState # 2 => Queued = 2 * Numbered
         /\ Gone + Len(enqDmaWriteQ) = Queued /\ Landed + Len(up) = Gone
         /\ Reported + recvd = Len(taken)
<1>1. /\ Len(sent) \in Nat /\ Len(enq2Q) \in Nat /\ Len(enqh2Q) \in Nat /\ Len(wm00) \in Nat
      /\ Len(enqDmaWriteQ) \in Nat /\ Len(up) \in Nat /\ Len(taken) \in Nat /\ recvd \in Nat
  BY Lengths
<1>2. /\ Started = Len(sent) - Len(enq2Q) /\ Numbered = Len(sent) - Len(enqh2Q)
      /\ Issued = Started - Len(wm00) /\ Gone = Queued - Len(enqDmaWriteQ)
      /\ Landed = Gone - Len(up) /\ Reported = Len(taken) - recvd
  BY DEF Started, Numbered, Issued, Gone, Landed, Reported
<1>3. Started \in Int /\ Numbered \in Int
  BY ONLY <1>1, <1>2
<1>4. /\ Queued \in Int
      /\ enqState = 2 => Queued = 2 * Numbered + 1
      /\ enqState # 2 => Queued = 2 * Numbered
  BY <1>3 DEF Queued
<1>5. Issued \in Int /\ Gone \in Int /\ Gone + Len(enqDmaWriteQ) = Queued
  BY ONLY <1>1, <1>2, <1>3, <1>4
<1>6. Landed \in Int /\ Landed + Len(up) = Gone /\ Reported \in Int /\ Reported + recvd = Len(taken)
  BY ONLY <1>1, <1>2, <1>5
<1> QED  BY <1>2, <1>3, <1>4, <1>5, <1>6

(* By the invariant no count is below zero, nor ahead of the one before.   *)
LEMMA Counted ==
  ASSUME TypeInv, SentInv, QueueInv, TakenInv, NEW b, WriteInv(b), UpInv(b)
  PROVE  /\ Started \in Nat /\ Numbered \in Nat /\ Issued \in Nat /\ Queued \in Nat
         /\ Gone \in Nat /\ Landed \in Nat
         /\ Started <= Len(sent) /\ Numbered <= Started /\ Queued <= 2 * Started
         /\ Issued <= Started /\ Gone = 2 * Issued - writing.left /\ Landed <= Queued
         /\ Landed <= Gone /\ Gone <= Queued
         /\ 2 * Len(taken) <= Landed /\ Len(taken) <= Started /\ Started <= Len(taken) + Slots
         /\ Len(sent) <= MaxMsgs
         /\ enqState = 0 => Started = Numbered
         /\ enqState # 0 => Started = Numbered + 1
<1>1. /\ Len(sent) <= msgs /\ msgs <= MaxMsgs
      /\ Len(enq2Q) <= Len(sent) /\ Len(enqh2Q) <= Len(sent)
      /\ enqState = 0 => Started = Numbered + 0
      /\ enqState # 0 => Started = Numbered + 1
      /\ Gone = 2 * Issued - writing.left /\ 0 <= Landed
      /\ 2 * Len(taken) <= Landed /\ Started <= Len(taken) + Slots
  BY Lengths DEF SentInv, QueueInv, WriteInv, UpInv, TakenInv, Msg
<1>2. /\ Started \in Int /\ Numbered \in Int /\ Issued \in Int /\ Queued \in Int
      /\ Gone \in Int /\ Landed \in Int
      /\ Started = Len(sent) - Len(enq2Q) /\ Issued = Started - Len(wm00)
      /\ Gone + Len(enqDmaWriteQ) = Queued /\ Landed + Len(up) = Gone
      /\ Numbered = Len(sent) - Len(enqh2Q)
  BY Counts
<1>3. /\ Len(sent) \in Nat /\ Len(enq2Q) \in Nat /\ Len(enqh2Q) \in Nat /\ Len(wm00) \in Nat
      /\ Len(enqDmaWriteQ) \in Nat /\ Len(up) \in Nat /\ Len(taken) \in Nat
      /\ writing.left \in 0 .. 2 /\ Slots \in Nat /\ MaxMsgs \in Nat
  BY Lengths
<1>4. /\ enqState = 0 => Queued = 2 * Numbered /\ Started = Numbered
      /\ enqState # 0 => Queued <= 2 * Numbered + 1 /\ Started = Numbered + 1
  <2>1. /\ enqState = 2 => Queued = 2 * Numbered + 1
        /\ enqState # 2 => Queued = 2 * Numbered
    BY Counts
  <2>2. CASE enqState = 0
    BY ONLY <1>1, <1>2, <2>1, <2>2
  <2>3. CASE enqState = 2
    BY ONLY <1>1, <1>2, <2>1, <2>3
  <2>4. CASE enqState # 0 /\ enqState # 2
    BY ONLY <1>1, <1>2, <2>1, <2>4
  <2> QED  BY <2>2, <2>3, <2>4
<1>5. PICK L \in Nat, S \in Int, N \in Int, Q \in Int, G \in Int, D \in Int, I \in Int, left \in 0 .. 2 :
        /\ L = Len(sent) /\ S = Started /\ N = Numbered /\ Q = Queued /\ G = Gone /\ D = Landed
        /\ I = Issued /\ left = writing.left
  BY <1>2, <1>3
<1>6. PICK e \in Nat, h \in Nat, w \in Nat, d \in Nat, u \in Nat, t \in Nat :
        /\ e = Len(enq2Q) /\ h = Len(enqh2Q) /\ w = Len(wm00) /\ d = Len(enqDmaWriteQ)
        /\ u = Len(up) /\ t = Len(taken)
  BY <1>3
<1>7. /\ S = L - e /\ e <= L /\ N = L - h /\ h <= L /\ I = S - w /\ G + d = Q /\ D + u = G
      /\ (S = N /\ Q = 2 * N) \/ (S = N + 1 /\ Q <= 2 * N + 1)
      /\ G = 2 * I - left /\ 0 <= D /\ 2 * t <= D
  BY <1>1, <1>2, <1>4, <1>5, <1>6
<1>8. /\ S \in Nat /\ N \in Nat /\ S <= L /\ N <= S /\ Q <= 2 * S
      /\ G <= Q /\ D <= G /\ D <= Q /\ D \in Nat /\ G \in Nat /\ Q \in Nat
      /\ I \in Nat /\ I <= S /\ t <= S
  BY ONLY <1>7
<1>10. Len(sent) <= MaxMsgs
  <2>1. msgs \in Nat
    BY Lengths DEF Msg
  <2> QED  BY ONLY <1>1, <1>3, <2>1, MsgAssumption
<1> QED  BY <1>1, <1>4, <1>5, <1>6, <1>8, <1>10

(* Slots come one after the other, and the same one after a whole round.   *)
LEMMA SlotNext ==
  ASSUME NEW b \in SlotNo, NEW k \in Int
  PROVE  /\ Slot(b, k) \in SlotNo /\ (Slot(b, k) + 1) % Slots = Slot(b, k + 1)
         /\ Slot(b, 0) = b
         /\ \A j \in Int : Slot(b, j) = Slot(b, k) /\ j - k < Slots /\ k - j < Slots => j = k
         /\ \A j \in Int : j = k + Slots => Slot(b, j) = Slot(b, k)
<1>1. Slots \in Nat \ {0} /\ b \in 0 .. Slots - 1 /\ b + k \in Int /\ b \in Int
  BY MsgAssumption DEF SlotNo
<1>2. Slot(b, k) \in SlotNo
  BY <1>1, Modulo DEF Slot, SlotNo
<1>3. (Slot(b, k) + 1) % Slots = Slot(b, k + 1)
  <2>0. PICK x \in Int : x = b + k
    BY <1>1
  <2>1. ((x % Slots) + 1) % Slots = (x + 1) % Slots
    <3>1. Slots \in Nat \ {0} /\ x \in Int /\ 1 \in Int
      BY <1>1
    <3> QED  BY <3>1, InStep, Zenon
  <2>2. x + 1 = b + (k + 1)
    BY <1>1, <2>0
  <2> QED  BY <2>0, <2>1, <2>2 DEF Slot
<1>4. Slot(b, 0) = b
  <2>1. b + 0 = b
    BY <1>1
  <2> QED  BY <1>1, <2>1, Modulo DEF Slot
<1>5. ASSUME NEW j \in Int, Slot(b, j) = Slot(b, k), j - k < Slots, k - j < Slots
      PROVE  j = k
  <2>1. b + j \in Int /\ (b + j) - (b + k) < Slots /\ (b + k) - (b + j) < Slots
    BY <1>1, <1>5
  <2>2. (b + j) % Slots = (b + k) % Slots
    BY <1>5 DEF Slot
  <2>3. b + j = b + k
    BY <1>1, <2>1, <2>2, InStep
  <2> QED  BY <1>1, <2>3
<1>6. ASSUME NEW j \in Int, j = k + Slots
      PROVE  Slot(b, j) = Slot(b, k)
  <2>0. PICK x \in Int : x = b + k
    BY <1>1
  <2>1. (x + Slots * 1) % Slots = x % Slots
    <3>1. Slots \in Nat \ {0} /\ x \in Int /\ 1 \in Int
      BY <1>1
    <3> QED  BY <3>1, Shifted, Zenon
  <2>2. x + Slots * 1 = b + j
    BY <1>1, <1>6, <2>0
  <2> QED  BY <2>0, <2>1, <2>2 DEF Slot
<1> QED  BY <1>2, <1>3, <1>4, <1>5, <1>6

-----------------------------------------------------------------------------
(* What the steps of the program leave of the FPGA.                        *)
LEMMA FpgaStill ==
  ASSUME SentInv, QueueInv, NEW b, WriteInv(b), UpInv(b), UNCHANGED <<enqVars, up>>
  PROVE  /\ SentInv' /\ QueueInv' /\ WriteInv(b)' /\ UpInv(b)'
         /\ UNCHANGED <<Started, Numbered, Issued, Queued, Gone, Landed>>
<1>1. /\ UNCHANGED <<Started, Numbered, Issued, Queued, Gone, Landed>>
      /\ UNCHANGED <<enqIdx, enqOffset, enqState, enq2Q, enqh2Q, enqDataQ, wm00, enqDmaWriteQ,
                     writing, msgs, sent, up>>
  BY DEF enqVars, Started, Numbered, Issued, Queued, Gone, Landed
<1>2. SentInv' /\ QueueInv'
  BY <1>1 DEF SentInv, QueueInv
<1>3. \A k : /\ Slot(b, k)' = Slot(b, k) /\ Body(k)' = Body(k) /\ Last(k)' = Last(k)
  BY <1>1 DEF Slot, Body, Last
<1>4. WriteInv(b)'
  BY <1>1, <1>3, ZenonT(40) DEF WriteInv
<1>5. UpInv(b)'
  BY <1>1, <1>3, ZenonT(40) DEF UpInv
<1> QED  BY <1>1, <1>2, <1>4, <1>5

(* The same for the slots,                                                 *)
LEMMA SlotsStill ==
  ASSUME NEW b, SlotsInv(b), UNCHANGED <<slots, sent, Landed>>,
         start = "clear" => start' = "clear"
  PROVE  SlotsInv(b)'
<1>1. \A k : Slot(b, k)' = Slot(b, k) /\ Val(k)' = Val(k) /\ Num(k)' = Num(k)
  BY DEF Slot, Val, Num
<1> QED  BY <1>1 DEF SlotsInv

(* the place of the receiver,                                              *)
LEMMA ScanStill ==
  ASSUME NEW b, ScanInv(b), UNCHANGED <<nextrecvidx, nextrecvoff, taken, recvd, rpc, i, found>>,
         Landed \in Int, Landed' \in Int, Landed <= Landed', Len(taken) \in Nat
  PROVE  ScanInv(b)'
BY DEF ScanInv

(* the resets of the two counters                                          *)
LEMMA ResetStill ==
  ASSUME ResetInv, UNCHANGED <<start, rpc, down, enqReceivedIdx>>,
         sent' = sent \/ ~Resetting
  PROVE  ResetInv' /\ (Resetting' <=> Resetting)
<1>1. Resetting' <=> Resetting
  BY DEF Resetting
<1>2. (ReceivedReset' <=> ReceivedReset) /\ (IndexReset' <=> IndexReset)
  BY DEF ReceivedReset, IndexReset, Reset
<1> QED  BY <1>1, <1>2 DEF ResetInv

(* and the credit.                                                         *)
LEMMA CreditStill ==
  ASSUME CreditInv, UNCHANGED <<start, down, enqReceivedIdx, enqIdx, Reported, Numbered, Started>>
  PROVE  CreditInv'
<1>1. Resetting' <=> Resetting
  BY DEF Resetting
<1>2. \A S, q, x, y, M : Path(S, q, x, y, M)' = Path(S, q, x, y, M)
  BY DEF Path
<1> QED  BY <1>1, <1>2 DEF CreditInv, Reports, Idx

(* While the counters are reset, there is nothing.                         *)
LEMMA NothingSent ==
  ASSUME TypeInv, NEW b, Inv(b), Resetting
  PROVE  /\ sent = <<>> /\ Len(sent) = 0 /\ Started = 0 /\ Numbered = 0 /\ Landed = 0 /\ Len(up) = 0
         /\ Len(taken) = 0 /\ recvd = 0 /\ enqState = 0 /\ enqDmaWriteQ = <<>>
<1>1. sent = <<>> /\ Len(sent) = 0
  BY DEF Inv, ResetInv
<1>2. /\ Started \in Nat /\ Numbered \in Nat /\ Started <= Len(sent) /\ Numbered <= Started
      /\ Landed \in Nat /\ Landed <= Gone /\ Gone <= Queued /\ Queued <= 2 * Started
      /\ 2 * Len(taken) <= Landed /\ (enqState # 0 => Started = Numbered + 1)
      /\ Gone \in Nat /\ Queued \in Nat
  BY Counted DEF Inv, RingInv
<1>3. recvd <= Len(taken)
  BY DEF Inv, RingInv, ScanInv
<1>4. Len(enqDmaWriteQ) = 0 /\ Len(up) = 0
  <2>1. /\ Gone + Len(enqDmaWriteQ) = Queued /\ Landed + Len(up) = Gone
        /\ Len(enqDmaWriteQ) \in Nat /\ Len(up) \in Nat
    BY Counts, Lengths
  <2> QED  BY ONLY <1>1, <1>2, <2>1
<1>5. enqDmaWriteQ \in Seq(DmaWord)
  BY DEF TypeInv, EnqTypes
<1> QED  BY <1>1, <1>2, <1>3, <1>4, <1>5, Lengths, EmptySeq

(* More states allow no fewer paths.                                       *)
LEMMA PathMore ==
  ASSUME NEW S, NEW T, NEW q, NEW a, NEW b, NEW M, Path(S, q, a, b, M), S \subseteq T
  PROVE  Path(T, q, a, b, M)
BY DEF Path

(* A word put in down is behind those in it.                               *)
LEMMA Behind ==
  ASSUME TypeInv, NEW e \in DownWord, down' = Append(down, e)
  PROVE  /\ Len(down) \in Nat /\ Len(down') = Len(down) + 1 /\ down'[Len(down) + 1] = e
         /\ \A k \in 1 .. Len(down) : down'[k] = down[k] /\ down[k] \in DownWord
         /\ down \in Seq(DownWord) /\ DOMAIN down = 1 .. Len(down) /\ DOMAIN down' = 1 .. Len(down')
<1>1. down \in Seq(DownWord)
  BY DEF TypeInv, ProgramTypes
<1>2. down' \in Seq(DownWord)
  BY <1>1, PutIn
<1> QED  BY <1>1, <1>2, PutIn, LenProperties

(* A word that does not reset enqIdx does not begin a reset.               *)
LEMMA ResettingBehind ==
  ASSUME TypeInv, NEW e \in DownWord, down' = Append(down, e), start' = start, e.reg # 17
  PROVE  Resetting' <=> Resetting
<1>1. (\E k \in 1 .. Len(down') : down'[k].reg = 17) <=> (\E k \in 1 .. Len(down) : down[k].reg = 17)
  <2>1. ASSUME NEW k \in 1 .. Len(down), down[k].reg = 17
        PROVE  \E j \in 1 .. Len(down') : down'[j].reg = 17
    <3>1. k \in 1 .. Len(down') /\ down'[k].reg = 17
      BY <2>1, Behind
    <3> QED  BY <3>1
  <2>2. ASSUME NEW k \in 1 .. Len(down'), down'[k].reg = 17
        PROVE  \E j \in 1 .. Len(down) : down[j].reg = 17
    <3>1. k # Len(down) + 1
      BY <2>2, Behind
    <3>2. k \in 1 .. Len(down)
      BY <3>1, Behind
    <3> QED  BY <2>2, <3>2, Behind
  <2> QED  BY <2>1, <2>2
<1>2. DOMAIN down = 1 .. Len(down) /\ DOMAIN down' = 1 .. Len(down')
  BY Behind
<1> QED  BY <1>1, <1>2 DEF Resetting

(* A reset stays the last of its kind unless another follows.              *)
LEMMA ResetBehind ==
  ASSUME TypeInv, NEW e \in DownWord, down' = Append(down, e), UNCHANGED enqReceivedIdx
  PROVE  /\ ReceivedReset /\ e.reg # 16 => ReceivedReset'
         /\ e.reg = 16 /\ e.val = 0 => ReceivedReset'
         /\ IndexReset /\ e.reg \in Regs => IndexReset'
         /\ e.reg = 17 => IndexReset'
<1> DEFINE n == Len(down)
<1>1. /\ n \in Nat /\ Len(down') = n + 1 /\ down'[n + 1] = e
      /\ \A k \in 1 .. n : down'[k] = down[k]
      /\ \A k \in 1 .. n + 1 : k = n + 1 \/ k \in 1 .. n
      /\ \A k \in 1 .. n : k \in 1 .. n + 1
      /\ n + 1 \in 1 .. n + 1
  BY Behind
<1> HIDE DEF n
<1>2. ASSUME ReceivedReset, e.reg # 16 PROVE ReceivedReset'
  <2>1. CASE enqReceivedIdx = 0 /\ \A k \in 1 .. n : down[k].reg # 16
    <3>1. \A k \in 1 .. n + 1 : down'[k].reg # 16
      BY <1>1, <1>2, <2>1
    <3> QED  BY <1>1, <2>1, <3>1 DEF ReceivedReset
  <2>2. ASSUME NEW j \in 1 .. n, Reset(j), \A k \in 1 .. n : k > j => down[k].reg # 16
        PROVE  ReceivedReset'
    <3>1. j \in 1 .. n + 1 /\ Reset(j)'
      BY <1>1, <2>2 DEF Reset
    <3>2. \A k \in 1 .. n + 1 : k > j => down'[k].reg # 16
      BY <1>1, <1>2, <2>2
    <3> QED  BY <1>1, <3>1, <3>2 DEF ReceivedReset
  <2> QED  BY <1>2, <2>1, <2>2 DEF ReceivedReset, n
<1>3. ASSUME e.reg = 16, e.val = 0 PROVE ReceivedReset'
  <2>1. e = [reg |-> 16, val |-> 0]
    BY <1>3 DEF DownWord
  <2>2. PICK j \in 1 .. n + 1 : j = n + 1
    BY <1>1
  <2>3. Reset(j)'
    BY <1>1, <2>1, <2>2 DEF Reset
  <2>4. \A k \in 1 .. n + 1 : ~(k > j)
    BY <1>1, <2>2
  <2> QED  BY <1>1, <2>3, <2>4 DEF ReceivedReset
<1>4. ASSUME IndexReset, e.reg \in Regs PROVE IndexReset'
  <2>1. PICK j \in 1 .. n : /\ down[j].reg = 17
                            /\ \A k \in 1 .. n : k > j => down[k].reg \in Regs
    BY <1>4 DEF IndexReset, n
  <2>2. \A k \in 1 .. n + 1 : k > j => down'[k].reg \in Regs
    BY <1>1, <1>4, <2>1
  <2> QED  BY <1>1, <2>1, <2>2 DEF IndexReset
<1>5. ASSUME e.reg = 17 PROVE IndexReset'
  <2>1. \A k \in 1 .. n + 1 : ~(k > n + 1)
    BY <1>1
  <2> QED  BY <1>1, <1>5, <2>1 DEF IndexReset
<1> QED  BY <1>2, <1>3, <1>4, <1>5

-----------------------------------------------------------------------------
(* The steps of the program.                                               *)
LEMMA ConstructInv ==
  ASSUME TypeInv, NEW b \in SlotNo, Inv(b), Construct
  PROVE  Inv(b)'
<1>1. /\ UNCHANGED <<enqVars, up, enqReceivedIdx, rpc, i, found, recvd, nextrecvidx, nextrecvoff,
                     recvList, taken, received>>
      /\ Resetting
      /\ start # "ready"
  BY DEF Construct, recvVars, Resetting
<1>2. /\ sent = <<>> /\ Started = 0 /\ Numbered = 0 /\ Landed = 0 /\ Len(taken) = 0 /\ recvd = 0
  BY <1>1, NothingSent
<1>3. /\ SentInv' /\ QueueInv' /\ WriteInv(b)' /\ UpInv(b)'
      /\ UNCHANGED <<Started, Numbered, Landed, sent>>
  BY <1>1, FpgaStill DEF Inv, RingInv, enqVars
<1>4. ScanInv(b)' /\ TakenInv'
  BY <1>1, <1>3 DEF Inv, RingInv, ScanInv, TakenInv, Whole
<1>5. SlotsInv(b)'
  <2>1. CASE start = "clear"
    <3>1. slots' = Cleared /\ Landed' = 0
      BY <1>2, <1>3, <2>1 DEF Construct
    <3>2. ASSUME NEW k \in -Slots .. MaxMsgs
          PROVE  /\ 2 * k < Landed' /\ Landed' <= 2 * (k + Slots) =>
                      slots'[Slot(b, k)].word = Val(k)'
                 /\ 2 * k + 1 < Landed' /\ Landed' <= 2 * (k + Slots) + 1 =>
                      slots'[Slot(b, k)].head = Val(k)' /\ slots'[Slot(b, k)].idx = Num(k)
      <4>1. k \in Int
        BY Lengths
      <4>2. Slot(b, k) \in SlotNo
        BY <4>1, SlotNext
      <4>3. slots'[Slot(b, k)] = [word |-> 0, head |-> 0, idx |-> ClearedIdx]
        BY <3>1, <4>2 DEF Cleared, SlotNo
      <4>4. 2 * k < 0 \/ 2 * k + 1 < 0 => Val(k)' = 0 /\ Num(k) = ClearedIdx
        BY <4>1 DEF Val, Num
      <4> QED  BY <3>1, <4>3, <4>4
    <3> QED  BY <3>2 DEF SlotsInv, Slot, Num
  <2>2. CASE start # "clear"
    <3>1. UNCHANGED slots
      BY <2>2 DEF Construct
    <3> QED  BY <1>3, <2>2, <3>1, SlotsStill DEF Inv, RingInv
  <2> QED  BY <2>1, <2>2
<1>6. ResetInv' /\ Resetting'
  <2>1. rpc' = "call" /\ sent' = <<>>
    BY <1>1, <1>2, <1>3 DEF Inv, ResetInv
  <2>2. CASE start' = "received"
    BY <2>1, <2>2 DEF ResetInv, Resetting
  <2>3. CASE start = "received" /\ start' = "index" /\ Write(16, 0)
    <3>1. [reg |-> 16, val |-> 0] \in DownWord /\ down' = Append(down, [reg |-> 16, val |-> 0])
      BY <2>3, Numbers DEF Write
    <3>2. ReceivedReset'
      BY <1>1, <3>1, ResetBehind
    <3> QED  BY <2>1, <2>3, <3>2 DEF ResetInv, Resetting
  <2>4. CASE start = "index" /\ start' = "ready" /\ Write(17, 0)
    <3>1. [reg |-> 17, val |-> 0] \in DownWord /\ down' = Append(down, [reg |-> 17, val |-> 0])
      BY <2>4, Numbers DEF Write
    <3>2. ReceivedReset
      BY <2>4 DEF Inv, ResetInv
    <3>3. ReceivedReset' /\ IndexReset'
      BY <1>1, <3>1, <3>2, ResetBehind
    <3>4. Resetting'
      <4>1. Len(down') \in DOMAIN down' /\ down'[Len(down')].reg = 17
        BY <3>1, Behind
      <4> QED  BY <4>1 DEF Resetting
    <3> QED  BY <2>1, <2>4, <3>3, <3>4 DEF ResetInv
  <2> QED  BY <2>2, <2>3, <2>4 DEF Construct
<1>7. CreditInv'
  BY <1>6 DEF CreditInv
<1> QED  BY <1>3, <1>4, <1>5, <1>6, <1>7 DEF Inv, RingInv

(* recvWord: the oldest message in recvList is the next not returned.      *)
LEMMA RecvWordInv ==
  ASSUME TypeInv, NEW b \in SlotNo, Inv(b), recvWord
  PROVE  Inv(b)'
<1>1. /\ UNCHANGED <<start, i, found, recvd, nextrecvidx, nextrecvoff, taken, slots, down, up,
                     enqReceivedIdx, enqVars>>
      /\ start = "ready" /\ rpc = "call"
  BY DEF recvWord
<1>2. /\ SentInv' /\ QueueInv' /\ WriteInv(b)' /\ UpInv(b)'
      /\ UNCHANGED <<Started, Numbered, Landed, sent, enqIdx>>
  BY <1>1, FpgaStill DEF Inv, RingInv, enqVars
<1>3. SlotsInv(b)' /\ CreditInv'
  <2>1. SlotsInv(b) /\ CreditInv /\ UNCHANGED Reported
    BY <1>1 DEF Inv, RingInv, Reported
  <2> QED  BY <1>1, <1>2, <2>1, SlotsStill, CreditStill
<1>4. ResetInv'
  <2>1. (Resetting' <=> Resetting) /\ (ReceivedReset' <=> ReceivedReset) /\ (IndexReset' <=> IndexReset)
    BY <1>1 DEF Resetting, ReceivedReset, IndexReset, Reset
  <2> QED  BY <1>1, <1>2, <2>1 DEF Inv, ResetInv
<1>5. recvd = 0 /\ i = 0 /\ ~found /\ (rpc' = "call" \/ rpc' = "scan")
  BY <1>1 DEF Inv, RingInv, ScanInv, recvWord
<1>6. ScanInv(b)'
  BY <1>1, <1>2, <1>5 DEF Inv, RingInv, ScanInv
<1>7. TakenInv'
  <2> DEFINE t == Len(taken)
             n == Len(received)
             l == Len(recvList)
  <2>1. /\ 2 * t <= Landed /\ Started <= t + Slots
        /\ \A k \in 1 .. t : taken[k] = Whole(sent[k])
        /\ n + l = t /\ l <= Slots
        /\ \A k \in 1 .. n : received[k] = taken[k]
        /\ \A k \in 1 .. l : recvList[k] = taken[(t + 1) - k]
    BY DEF Inv, TakenInv
  <2>2. t \in Nat /\ n \in Nat /\ l \in Nat /\ Slots \in Nat
    BY Lengths
  <2>3. CASE recvList # <<>>
    <3>1. /\ rpc' = "call" /\ recvList' = SubSeq(recvList, 1, l - 1)
          /\ received' = Append(received, recvList[l])
      BY <1>1, <2>3 DEF recvWord
    <3>2. recvList \in Seq(Copied) /\ received \in Seq(Copied) /\ l > 0 /\ recvList[l] \in Copied
      <4>1. recvList \in Seq(Copied) /\ received \in Seq(Copied)
        BY DEF TypeInv, ProgramTypes
      <4>2. l > 0
        BY <2>2, <2>3, <4>1, EmptySeq
      <4> QED  BY <2>2, <4>1, <4>2, ElementOfSeq
    <3>3. Len(recvList') = l - 1 /\ \A k \in 1 .. l - 1 : recvList'[k] = recvList[k]
      <4> HIDE DEF l
      <4>1. 1 \in 1 .. l /\ l - 1 \in 0 .. l /\ l - 1 \in Nat /\ l = Len(recvList)
        BY <2>2, <3>2 DEF l
      <4>2. \A k \in 1 .. l - 1 : recvList[k] \in Copied
        BY <2>2, <3>2, <4>1, ElementOfSeq
      <4>3. /\ Len(SubSeq(recvList, 1, l - 1)) = l - 1
            /\ \A k \in 1 .. l - 1 : SubSeq(recvList, 1, l - 1)[k] = recvList[k]
        BY <3>2, <4>1, <4>2
      <4> QED  BY <3>1, <4>3
    <3>4. /\ Len(received') = n + 1 /\ received'[n + 1] = recvList[l]
          /\ \A k \in 1 .. n : received'[k] = received[k]
      BY <3>1, <3>2, PutIn
    <3> HIDE DEF t, n, l
    <3>5. recvList[l] = taken[n + 1]
      <4>1. l \in 1 .. l /\ (t + 1) - l = n + 1
        BY <2>1, <2>2, <3>2
      <4> QED  BY <2>1, <4>1
    <3>6. \A k \in 1 .. n + 1 : received'[k] = taken'[k]
      <4> TAKE k \in 1 .. n + 1
      <4>1. k = n + 1 \/ k \in 1 .. n
        BY <2>2
      <4> QED  BY <1>1, <2>1, <3>4, <3>5, <4>1
    <3>7. \A k \in 1 .. l - 1 : recvList'[k] = taken'[(t + 1) - k]
      <4>1. \A k \in 1 .. l - 1 : k \in 1 .. l
        BY <2>2
      <4> QED  BY <1>1, <2>1, <3>3, <4>1
    <3>8. Len(received') + Len(recvList') = t /\ Len(recvList') <= Slots
      BY <2>1, <2>2, <3>3, <3>4
    <3>9. Len(taken') = t /\ taken' = taken
      BY <1>1 DEF t
    <3> QED  BY <1>2, <2>1, <3>1, <3>3, <3>4, <3>6, <3>7, <3>8, <3>9 DEF TakenInv, Whole
  <2>4. CASE recvList = <<>>
    <3>1. l = 0 /\ UNCHANGED <<recvList, received>>
      BY <1>1, <2>4 DEF recvWord
    <3> QED  BY <1>1, <1>2, <1>5, <2>1, <3>1 DEF TakenInv, Whole
  <2> QED  BY <2>3, <2>4
<1> QED  BY <1>2, <1>3, <1>4, <1>6, <1>7 DEF Inv, RingInv

(* A slot with the number of the next message holds it: no other message   *)
(* that can be in the slots has its number.                                *)
LEMMA ScanFinds ==
  ASSUME TypeInv, NEW b \in SlotNo, Inv(b), rpc = "scan", i < Slots,
         slots[SlotAt(i)].idx = nextrecvidx
  PROVE  i = b + recvd /\ 2 * Len(taken) + 1 < Landed
<1>1. PICK t \in Nat, d \in Nat, r \in Nat, x \in 0 .. Slots - 1 :
        t = Len(taken) /\ d = Landed /\ r = recvd /\ x = i
  <2>1. Landed \in Nat
    BY Counted DEF Inv, RingInv
  <2>2. i \in 0 .. Slots - 1
    <3>1. i \in 0 .. Slots /\ Slots \in Nat
      BY Lengths
    <3>2. i < Slots
      OBVIOUS
    <3> QED  BY ONLY <3>1, <3>2
  <2> QED  BY <2>1, <2>2, Lengths
<1>2. /\ Slots \in Nat \ {0} /\ IdxMod \in Nat \ {0} /\ Slots < IdxMod /\ MaxMsgs \in Nat
      /\ b \in 0 .. Slots - 1
  BY Lengths DEF SlotNo
<1>3. 2 * t <= d /\ d <= 2 * (t + Slots) /\ d <= 2 * MaxMsgs /\ r <= t
  <2>1. /\ Started \in Nat /\ Queued \in Nat /\ Landed <= Queued /\ Queued <= 2 * Started
        /\ 2 * Len(taken) <= Landed /\ Started <= Len(taken) + Slots
        /\ Started <= Len(sent) /\ Len(sent) <= MaxMsgs /\ Len(sent) \in Nat
    BY Counted, Lengths DEF Inv, RingInv
  <2>2. recvd <= Len(taken)
    BY DEF Inv, RingInv, ScanInv
  <2> QED  BY <1>1, <1>2, <2>1, <2>2
<1>4. start # "clear"
  BY DEF Inv, ResetInv
<1>5. PICK s \in 0 .. Slots - 1 : s = SlotAt(i)
  <2>1. i + nextrecvoff \in Int
    BY <1>1 DEF TypeInv, ProgramTypes, SlotNo
  <2> QED  BY <1>2, <2>1, Modulo DEF SlotAt
<1>6. s = (x + (t - r)) % Slots
  <2>1. nextrecvoff = (t - r) % Slots
    BY <1>1 DEF Inv, RingInv, ScanInv
  <2>2. PICK y \in Int : y = t - r
    OBVIOUS
  <2>3. ((y % Slots) + x) % Slots = (y + x) % Slots
    <3>1. x \in Int /\ y \in Int
      OBVIOUS
    <3> QED  BY <1>2, <3>1, InStep, Zenon
  <2>4. y % Slots \in Int
    BY <1>2, Modulo
  <2>5. (y % Slots) + x = x + (y % Slots) /\ y + x = x + (t - r)
    BY <2>2, <2>4
  <2> QED  BY <1>1, <1>5, <2>1, <2>2, <2>3, <2>5 DEF SlotAt
(* The last that can be in the slot.                                       *)
<1>7. PICK k \in -Slots .. MaxMsgs :
        /\ Slot(b, k) = s /\ 2 * k + 1 < d /\ d <= 2 * (k + Slots) + 1
  <2>1. PICK h \in Nat : d = 2 * h \/ d = 2 * h + 1
    <3>1. d \div 2 \in Nat /\ (d = 2 * (d \div 2) \/ d = 2 * (d \div 2) + 1)
      OBVIOUS
    <3> QED  BY <3>1
  <2>2. PICK lo \in Int : lo = h - Slots
    BY <1>2
  <2>3. PICK k \in lo .. lo + (Slots - 1) : (b + k) % Slots = s
    <3>1. b \in Int /\ Slots \in Nat \ {0} /\ lo \in Int /\ s \in 0 .. Slots - 1
      BY <1>2
    <3>2. \E k \in lo .. lo + (Slots - 1) : (b + k) % Slots = s
      BY <3>1, Reached, ZenonT(40)
    <3> QED  BY <3>2
  <2>4. /\ k \in -Slots .. MaxMsgs /\ 2 * k + 1 < d /\ d <= 2 * (k + Slots) + 1
    BY <1>2, <1>3, <2>1, <2>2, <2>3
  <2> QED  BY <2>3, <2>4 DEF Slot
<1>8. Num(k) = t % IdxMod
  <2>1. slots[s].idx = Num(k)
    <3>1. SlotsInv(b)
      BY DEF Inv, RingInv
    <3> QED  BY <1>1, <1>4, <1>7, <3>1 DEF SlotsInv
  <2>2. nextrecvidx = t % IdxMod
    BY <1>1 DEF Inv, RingInv, ScanInv
  <2> QED  BY <1>5, <2>1, <2>2
<1>9. k = t
  <2>1. k - t < IdxMod /\ t - k < IdxMod
    BY <1>2, <1>3, <1>7
  <2>2. CASE k >= 0
    <3>1. k % IdxMod = t % IdxMod
      BY <1>8, <2>2 DEF Num
    <3>2. k \in Int /\ t \in Int
      BY <1>2
    <3> QED  BY <1>2, <2>1, <3>1, <3>2, InStep, Zenon
  <2>3. CASE k < 0
    <3>1. t \in 0 .. IdxMod - 1 /\ t # IdxMod - 1
      BY <1>2, <1>3, <1>7, <2>3
    <3>2. t % IdxMod = t
      <4>1. IdxMod \in Nat \ {0} /\ t \in Int
        BY <1>2
      <4> QED  BY <3>1, <4>1, Modulo, Zenon
    <3>3. Num(k) = IdxMod - 1
      BY <2>3 DEF Num, ClearedIdx
    <3> QED  BY <1>8, <3>1, <3>2, <3>3
  <2> QED  BY <1>2, <2>2, <2>3
<1>10. 2 * t + 1 < d
  BY <1>7, <1>9
<1>11. x = b + r
  <2>1. CASE found
    BY <1>1, <2>1 DEF Inv, RingInv, ScanInv
  <2>2. CASE ~found
    <3>1. r = 0
      BY <1>1, <2>2 DEF Inv, RingInv, ScanInv
    <3>2. PICK y \in Int, z \in Int : y = x + (t - r) /\ z = b + k
      BY <1>2
    <3>3. y % Slots = z % Slots
      BY <1>6, <1>7, <3>2 DEF Slot
    <3>4. y - z < Slots /\ z - y < Slots
      BY <1>2, <1>9, <3>1, <3>2
    <3>5. y = z
      BY <1>2, <3>3, <3>4, InStep, Zenon
    <3> QED  BY <1>2, <1>9, <3>1, <3>2, <3>5
  <2> QED  BY <2>1, <2>2
<1> QED  BY <1>1, <1>10, <1>11

(* scanSlot: the number is found where the message is.                     *)
LEMMA ScanSlotInv ==
  ASSUME TypeInv, NEW b \in SlotNo, Inv(b), scanSlot
  PROVE  Inv(b)'
<1>1. /\ UNCHANGED <<start, found, recvd, nextrecvidx, nextrecvoff, recvList, taken, received,
                     slots, down, up, enqReceivedIdx, enqVars>>
      /\ rpc = "scan" /\ rpc' \in {"scan", "copy", "done"}
  BY DEF scanSlot
<1>2. /\ SentInv' /\ QueueInv' /\ WriteInv(b)' /\ UpInv(b)'
      /\ UNCHANGED <<Started, Numbered, Landed, sent, enqIdx>>
  BY <1>1, FpgaStill DEF Inv, RingInv, enqVars
<1>3. SlotsInv(b)' /\ CreditInv'
  <2>1. SlotsInv(b) /\ CreditInv /\ UNCHANGED Reported
    BY <1>1 DEF Inv, RingInv, Reported
  <2> QED  BY <1>1, <1>2, <2>1, SlotsStill, CreditStill
<1>4. ResetInv'
  <2>1. (Resetting' <=> Resetting) /\ (ReceivedReset' <=> ReceivedReset) /\ (IndexReset' <=> IndexReset)
    BY <1>1 DEF Resetting, ReceivedReset, IndexReset, Reset
  <2>2. start = "ready"
    BY <1>1 DEF Inv, ResetInv
  <2> QED  BY <1>1, <1>2, <2>1, <2>2 DEF Inv, ResetInv
<1>5. TakenInv'
  BY <1>1, <1>2 DEF Inv, TakenInv, Whole
<1>6. ScanInv(b)'
  <2>1. /\ nextrecvidx = Len(taken) % IdxMod
        /\ nextrecvoff = (Len(taken) - recvd) % Slots
        /\ recvd <= Len(taken) /\ (found <=> recvd > 0)
        /\ found => i = b + recvd
    BY DEF Inv, RingInv, ScanInv
  <2>2. CASE i < Slots /\ slots[SlotAt(i)].idx = nextrecvidx /\ rpc' = "copy" /\ UNCHANGED i
    BY <1>1, <1>2, <2>1, <2>2, ScanFinds DEF ScanInv
  <2>3. CASE i < Slots /\ IF found THEN rpc' = "done" /\ UNCHANGED i ELSE i' = i + 1 /\ UNCHANGED rpc
    BY <1>1, <2>1, <2>3 DEF ScanInv
  <2>4. CASE i = Slots /\ rpc' = "done" /\ UNCHANGED i
    BY <1>1, <2>1, <2>4 DEF ScanInv
  <2> QED  BY <2>2, <2>3, <2>4 DEF scanSlot
<1> QED  BY <1>2, <1>3, <1>4, <1>5, <1>6 DEF Inv, RingInv

(* The message copied is the next of those sent, with its own header.      *)
LEMMA CopyFinds ==
  ASSUME TypeInv, NEW b \in SlotNo, Inv(b), rpc = "copy"
  PROVE  /\ [word |-> slots[SlotAt(i)].word, head |-> slots[SlotAt(i)].head]
              = Whole(sent[Len(taken) + 1])
         /\ 2 * (Len(taken) + 1) <= Landed
<1>1. PICK t \in Nat, d \in Nat, r \in Nat, x \in 0 .. Slots - 1 :
        t = Len(taken) /\ d = Landed /\ r = recvd /\ x = i
  <2>1. Landed \in Nat
    BY Counted DEF Inv, RingInv
  <2>2. i \in 0 .. Slots - 1
    <3>1. i < Slots
      BY DEF Inv, RingInv, ScanInv
    <3> QED  BY <3>1, Lengths
  <2> QED  BY <2>1, <2>2, Lengths
<1>2. /\ Slots \in Nat \ {0} /\ MaxMsgs \in Nat /\ b \in 0 .. Slots - 1
  BY Lengths DEF SlotNo
<1>3. /\ 2 * t + 1 < d /\ d <= 2 * (t + Slots) /\ d <= 2 * MaxMsgs /\ x = b + r
  <2>1. /\ Started \in Nat /\ Queued \in Nat /\ Landed <= Queued /\ Queued <= 2 * Started
        /\ Started <= Len(taken) + Slots
        /\ Started <= Len(sent) /\ Len(sent) <= MaxMsgs /\ Len(sent) \in Nat
    BY Counted, Lengths DEF Inv, RingInv
  <2>2. i = b + recvd /\ 2 * Len(taken) + 1 < Landed
    BY DEF Inv, RingInv, ScanInv
  <2> QED  BY <1>1, <1>2, <2>1, <2>2
<1>4. start # "clear"
  BY DEF Inv, ResetInv
<1>5. SlotAt(i) = Slot(b, t)
  <2>1. nextrecvoff = (t - r) % Slots
    BY <1>1 DEF Inv, RingInv, ScanInv
  <2>2. PICK y \in Int : y = t - r
    OBVIOUS
  <2>3. ((y % Slots) + x) % Slots = (y + x) % Slots
    <3>1. x \in Int /\ y \in Int
      OBVIOUS
    <3> QED  BY <1>2, <3>1, InStep, Zenon
  <2>4. y % Slots \in Int
    BY <1>2, Modulo
  <2>5. (y % Slots) + x = x + (y % Slots) /\ y + x = b + t
    BY <1>2, <1>3, <2>2, <2>4
  <2> QED  BY <1>1, <2>1, <2>2, <2>3, <2>5 DEF SlotAt, Slot
<1>6. slots[Slot(b, t)].word = Val(t) /\ slots[Slot(b, t)].head = Val(t)
  <2>1. /\ t \in -Slots .. MaxMsgs /\ 2 * t < d /\ 2 * t + 1 < d
        /\ d <= 2 * (t + Slots) /\ d <= 2 * (t + Slots) + 1
    BY <1>2, <1>3
  <2>2. SlotsInv(b)
    BY DEF Inv, RingInv
  <2> QED  BY <1>1, <1>4, <2>1, <2>2 DEF SlotsInv
<1>7. Val(t) = sent[t + 1]
  BY DEF Val
<1>8. 2 * (t + 1) <= d
  BY <1>3
<1> QED  BY <1>1, <1>5, <1>6, <1>7, <1>8 DEF Whole

(* copySlot: the message in the slot is the next one sent.                 *)
LEMMA CopySlotInv ==
  ASSUME TypeInv, NEW b \in SlotNo, Inv(b), copySlot
  PROVE  Inv(b)'
<1> DEFINE m == Whole(sent[Len(taken) + 1])
<1>1. /\ UNCHANGED <<start, nextrecvoff, received, slots, down, up, enqReceivedIdx, enqVars>>
      /\ rpc = "copy" /\ rpc' = "scan"
      /\ nextrecvidx' = Next32(nextrecvidx) /\ recvd' = recvd + 1 /\ found' = TRUE /\ i' = i + 1
  BY DEF copySlot
<1>2. /\ SentInv' /\ QueueInv' /\ WriteInv(b)' /\ UpInv(b)'
      /\ UNCHANGED <<Started, Numbered, Landed, sent, enqIdx>>
  BY <1>1, FpgaStill DEF Inv, RingInv, enqVars
<1>3. /\ recvList' = <<m>> \o recvList /\ taken' = Append(taken, m)
      /\ 2 * (Len(taken) + 1) <= Landed
  BY <1>1, CopyFinds DEF copySlot
<1>4. /\ recvList \in Seq(Copied) /\ taken \in Seq(Copied) /\ m \in Copied
  <2>1. recvList \in Seq(Copied) /\ taken \in Seq(Copied)
    BY DEF TypeInv, ProgramTypes
  <2>2. m \in Copied
    <3>1. Len(taken) + 1 \in 1 .. Len(sent)
      <4>1. /\ Started \in Nat /\ Queued \in Nat /\ Landed <= Queued /\ Queued <= 2 * Started
            /\ Landed \in Nat /\ Started <= Len(sent) /\ Len(sent) \in Nat /\ Len(taken) \in Nat
        BY Counted, Lengths DEF Inv, RingInv
      <4> QED  BY ONLY <1>3, <4>1
    <3>2. sent \in Seq(Msg)
      BY DEF TypeInv, EnqTypes
    <3>3. sent[Len(taken) + 1] \in Msg
      BY <3>1, <3>2, ElementOfSeq
    <3> QED  BY <3>3 DEF Copied, Whole
  <2> QED  BY <2>1, <2>2
<1> HIDE DEF m
<1>5. PICK t \in Nat, l \in Nat : t = Len(taken) /\ l = Len(recvList)
  BY Lengths
<1>6. /\ Len(taken') = t + 1 /\ taken'[t + 1] = m
      /\ \A k \in 1 .. t : taken'[k] = taken[k]
  BY <1>3, <1>4, <1>5, PutIn
<1>7. /\ Len(recvList') = l + 1 /\ recvList'[1] = m
      /\ \A k \in 1 .. l : recvList'[k + 1] = recvList[k]
  <2>1. /\ <<m>> \in Seq(Copied) /\ Len(<<m>>) = 1 /\ <<m>>[1] = m
    BY <1>4
  <2>2. /\ Len(<<m>> \o recvList) = 1 + l
        /\ \A k \in 1 .. 1 + l : (<<m>> \o recvList)[k] = IF k <= 1 THEN <<m>>[k] ELSE recvList[k - 1]
    BY <1>4, <1>5, <2>1, ConcatProperties
  <2>3. \A k \in 1 .. l : /\ k + 1 \in 1 .. 1 + l /\ ~(k + 1 <= 1) /\ (k + 1) - 1 = k
    OBVIOUS
  <2>4. 1 \in 1 .. 1 + l /\ 1 <= 1 /\ 1 + l = l + 1
    OBVIOUS
  <2> QED  BY <1>3, <2>1, <2>2, <2>3, <2>4
<1>8. /\ recvd \in Nat /\ i = b + recvd /\ i < Slots /\ i \in 0 .. Slots
      /\ nextrecvidx = t % IdxMod /\ nextrecvoff = (t - recvd) % Slots /\ recvd <= t
      /\ l = recvd /\ b \in 0 .. Slots - 1 /\ Slots \in Nat \ {0} /\ IdxMod \in Nat \ {0}
  <2>1. ScanInv(b) /\ TakenInv
    BY DEF Inv, RingInv
  <2>2. /\ i = b + recvd /\ i < Slots /\ nextrecvidx = t % IdxMod
        /\ nextrecvoff = (t - recvd) % Slots /\ recvd <= t
    BY <1>1, <1>5, <2>1 DEF ScanInv
  <2>3. l = recvd
    BY <1>1, <1>5, <2>1 DEF TakenInv
  <2> QED  BY <2>2, <2>3, Lengths DEF SlotNo
<1>9. ScanInv(b)'
  <2>1. nextrecvidx' = (t + 1) % IdxMod
    <3>1. ((t % IdxMod) + 1) % IdxMod = (t + 1) % IdxMod
      <4>1. t \in Int /\ 1 \in Int
        OBVIOUS
      <4> QED  BY <1>8, <4>1, InStep, Zenon
    <3> QED  BY <1>1, <1>8, <3>1 DEF Next32
  <2>2. (t + 1) - (recvd + 1) = t - recvd
    BY <1>8
  <2>3. i + 1 = b + (recvd + 1) /\ recvd + 1 <= t + 1 /\ recvd + 1 > 0
    BY <1>8
  <2> QED  BY <1>1, <1>6, <1>8, <2>1, <2>2, <2>3 DEF ScanInv
<1>10. TakenInv'
  <2>1. /\ 2 * t <= Landed /\ Started <= t + Slots
        /\ \A k \in 1 .. t : taken[k] = Whole(sent[k])
        /\ Len(received) + l = t
        /\ \A k \in 1 .. Len(received) : received[k] = taken[k]
        /\ \A k \in 1 .. l : recvList[k] = taken[(t + 1) - k]
    BY <1>5 DEF Inv, TakenInv
  <2>2. Len(received) \in Nat /\ Started \in Nat
    BY Lengths, Counted DEF Inv, RingInv
  <2>3. /\ Started <= (t + 1) + Slots /\ Len(received) + (l + 1) = t + 1 /\ l + 1 <= Slots
        /\ 2 * (t + 1) <= Landed
    <3>1. PICK n \in Nat, S \in Nat, r \in Nat, x \in Nat : n = Len(received) /\ S = Started /\ r = recvd /\ x = i
      BY <1>8, <2>2
    <3>2. S <= t + Slots /\ n + l = t /\ x = b + r /\ x < Slots /\ l = r /\ b \in Nat /\ Slots \in Nat
      BY <1>8, <2>1, <3>1
    <3>3. S <= (t + 1) + Slots /\ n + (l + 1) = t + 1 /\ l + 1 <= Slots
      BY ONLY <3>2
    <3> QED  BY <1>3, <1>5, <3>1, <3>3
  <2>4. \A k \in 1 .. t + 1 : taken'[k] = Whole(sent[k])
    <3> TAKE k \in 1 .. t + 1
    <3>1. k = t + 1 \/ k \in 1 .. t
      OBVIOUS
    <3> QED  BY <1>5, <1>6, <2>1, <3>1 DEF m
  <2>5. \A k \in 1 .. Len(received) : received'[k] = taken'[k]
    <3>1. \A k \in 1 .. Len(received) : k \in 1 .. t
      BY <2>1, <2>2
    <3> QED  BY <1>1, <1>6, <2>1, <3>1
  <2>6. \A k \in 1 .. l + 1 : recvList'[k] = taken'[((t + 1) + 1) - k]
    <3> TAKE k \in 1 .. l + 1
    <3>1. CASE k = 1
      <4>1. ((t + 1) + 1) - k = t + 1
        BY <3>1
      <4> QED  BY <1>6, <1>7, <3>1, <4>1
    <3>2. CASE k # 1
      <4>1. PICK j \in 1 .. l : k = j + 1
        BY <3>2
      <4>2. PICK p \in 1 .. t : p = (t + 1) - j /\ ((t + 1) + 1) - k = p
        <5>1. (t + 1) - j \in 1 .. t /\ ((t + 1) + 1) - k = (t + 1) - j
          BY <1>8, <4>1
        <5> QED  BY <5>1
      <4>3. recvList'[k] = recvList[j]
        BY <1>7, <4>1
      <4>4. recvList[j] = taken[p]
        BY <2>1, <4>2
      <4>5. taken'[p] = taken[p]
        BY <1>6
      <4> QED  BY <4>2, <4>3, <4>4, <4>5
    <3> QED  BY <3>1, <3>2
  <2> QED  BY <1>1, <1>2, <1>6, <1>7, <1>8, <2>3, <2>4, <2>5, <2>6 DEF TakenInv, Whole
<1>11. SlotsInv(b)' /\ CreditInv'
  <2>1. UNCHANGED Reported
    BY <1>1, <1>5, <1>6, <1>8 DEF Reported
  <2> QED  BY <1>1, <1>2, <2>1, SlotsStill, CreditStill DEF Inv, RingInv
<1>12. ResetInv'
  <2>1. (Resetting' <=> Resetting) /\ (ReceivedReset' <=> ReceivedReset) /\ (IndexReset' <=> IndexReset)
    BY <1>1 DEF Resetting, ReceivedReset, IndexReset, Reset
  <2>2. start = "ready"
    BY <1>1 DEF Inv, ResetInv
  <2> QED  BY <1>1, <1>2, <2>1, <2>2 DEF Inv, ResetInv
<1> QED  BY <1>2, <1>9, <1>10, <1>11, <1>12 DEF Inv, RingInv

(* A word is put behind the reports.                                       *)
LEMMA CreditBehind ==
  ASSUME TypeInv, CreditInv, ~Resetting, NEW e \in DownWord, down' = Append(down, e),
         UNCHANGED <<start, enqReceivedIdx, enqIdx, Numbered, Started>>,
         Reported \in Nat, Reported' \in Nat, Reported <= Reported',
         <<Reported, e, Reported'>> \in Reports
  PROVE  CreditInv'
<1>1. PICK R \in 0 .. Reported :
         /\ enqReceivedIdx = R % IdxMod /\ Started <= R + Slots
         /\ Path(0 .. Reported, down, R, Reported, Reports)
  BY DEF CreditInv
<1>2. down \in Seq(DownWord)
  BY DEF TypeInv, ProgramTypes
<1>3. PICK S, T, x, y : S = 0 .. Reported /\ T = 0 .. Reported' /\ x = Reported /\ y = Reported'
  OBVIOUS
<1>4. S \subseteq T /\ y \in T /\ R \in T
  BY <1>1, <1>3
<1>5. Path(T, down, R, x, Reports)
  BY <1>1, <1>3, <1>4, PathMore
<1>6. Path(T, Append(down, e), R, y, Reports)
  BY <1>2, <1>3, <1>4, <1>5, PathAppend
<1>7. Path(0 .. Reported', down', R, Reported', Reports)
  BY <1>3, <1>6
<1>8. enqIdx = Numbered % IdxMod
  BY DEF CreditInv
<1>9. CreditInv'
  <2>1. \E r \in 0 .. Reported' :
         /\ enqReceivedIdx' = r % IdxMod /\ Started' <= r + Slots
         /\ Path(0 .. Reported', down', r, Reported', Reports)
    BY <1>1, <1>3, <1>4, <1>7
  <2> QED  BY <1>8, <2>1 DEF CreditInv, Reports, DownWord, Idx
<1> QED  BY <1>9

(* endScan: what was received is reported, the place moves on.             *)
LEMMA EndScanInv ==
  ASSUME TypeInv, NEW b \in SlotNo, Inv(b), endScan
  PROVE  Inv(b)'
<1> DEFINE e == [reg |-> 16, val |-> nextrecvidx]
<1>1. /\ UNCHANGED <<start, nextrecvidx, recvList, taken, received, slots, up, enqReceivedIdx,
                     enqVars>>
      /\ rpc = "done" /\ rpc' = "call" /\ nextrecvoff' = (nextrecvoff + recvd) % Slots
      /\ i' = 0 /\ found' = FALSE /\ recvd' = 0
      /\ recvd > 0 => down' = Append(down, e)
      /\ ~(recvd > 0) => down' = down
  BY DEF endScan, Write
<1>2. /\ SentInv' /\ QueueInv' /\ WriteInv(b)' /\ UpInv(b)'
      /\ UNCHANGED <<Started, Numbered, Landed, sent, enqIdx>>
  BY <1>1, FpgaStill DEF Inv, RingInv, enqVars
<1>3. SlotsInv(b)'
  BY <1>1, <1>2, SlotsStill DEF Inv, RingInv
<1>4. TakenInv'
  BY <1>1, <1>2 DEF Inv, TakenInv, Whole
<1>5. /\ nextrecvidx = Len(taken) % IdxMod
      /\ nextrecvoff = (Len(taken) - recvd) % Slots
      /\ recvd <= Len(taken) /\ recvd \in Nat /\ Len(taken) \in Nat
      /\ Slots \in Nat \ {0} /\ IdxMod \in Nat \ {0}
  BY Lengths DEF Inv, RingInv, ScanInv
<1>6. ScanInv(b)'
  <2>1. PICK y \in Int : y = Len(taken) - recvd
    <3>1. Len(taken) - recvd \in Int
      BY ONLY <1>5
    <3> QED  BY <3>1
  <2>2. ((y % Slots) + recvd) % Slots = (y + recvd) % Slots
    <3>1. recvd \in Int
      BY <1>5
    <3> QED  BY <1>5, <3>1, InStep, Zenon
  <2>3. y + recvd = Len(taken) - 0
    BY <1>5, <2>1
  <2> QED  BY <1>1, <1>5, <2>1, <2>2, <2>3 DEF ScanInv
<1>7. start = "ready"
  BY <1>1 DEF Inv, ResetInv
<1>8. Reported \in Nat /\ Reported' \in Nat /\ Reported <= Reported' /\ Reported' = Len(taken)
  BY <1>1, <1>5 DEF Reported
<1>9. CASE recvd > 0
  <2>1. e \in DownWord /\ e.reg = 16 /\ e.val = Len(taken) % IdxMod
    <3>1. nextrecvidx \in 0 .. IdxMod - 1
      BY DEF TypeInv, ProgramTypes, Idx
    <3>2. nextrecvidx \in Nat
      BY <1>5, <3>1
    <3> QED  BY <1>5, <3>1, <3>2 DEF DownWord, Regs, Counters, Idx
  <2> HIDE DEF e
  <2>2. ~Resetting
    BY <1>5, <1>9, NothingSent
  <2>3. ~Resetting'
    BY <1>1, <1>9, <2>1, <2>2, ResettingBehind
  <2>4. ResetInv'
    BY <1>1, <1>7, <2>3 DEF ResetInv
  <2>5. <<Reported, e, Reported'>> \in Reports
    <3>1. e.reg # 17 /\ e.reg \notin Regs /\ e.val = Reported' % IdxMod
      BY <1>8, <2>1 DEF Regs
    <3>2. <<Reported, e, Reported'>> \in Nat \X DownWord \X Nat
      BY <1>8, <2>1
    <3> QED  BY <1>8, <3>1, <3>2 DEF Reports
  <2>6. CreditInv'
    BY <1>1, <1>2, <1>8, <1>9, <2>1, <2>2, <2>5, CreditBehind DEF Inv
  <2> QED  BY <1>2, <1>3, <1>4, <1>6, <2>4, <2>6 DEF Inv, RingInv
<1>10. CASE ~(recvd > 0)
  <2>1. UNCHANGED <<down, Reported>>
    <3>1. recvd = 0
      BY <1>5, <1>10
    <3> QED  BY <1>1, <1>10, <3>1 DEF Reported
  <2>2. CreditInv'
    BY <1>1, <1>2, <2>1, CreditStill DEF Inv
  <2>3. ResetInv'
    <3>1. (Resetting' <=> Resetting) /\ (ReceivedReset' <=> ReceivedReset) /\ (IndexReset' <=> IndexReset)
      BY <1>1, <2>1 DEF Resetting, ReceivedReset, IndexReset, Reset
    <3> QED  BY <1>1, <1>2, <1>7, <3>1 DEF Inv, ResetInv
  <2> QED  BY <1>2, <1>3, <1>4, <1>6, <2>2, <2>3 DEF Inv, RingInv
<1> QED  BY <1>9, <1>10

(* sendReg: a word for user logic is no report.                            *)
LEMMA SendRegInv ==
  ASSUME TypeInv, NEW b \in SlotNo, Inv(b), sendReg
  PROVE  Inv(b)'
<1>1. /\ UNCHANGED <<start, slots, up, enqReceivedIdx, enqVars, rpc, i, found, recvd, nextrecvidx,
                     nextrecvoff, recvList, taken, received>>
      /\ regs # <<>> /\ down' = Append(down, [reg |-> Head(regs), val |-> words])
  BY DEF sendReg, recvVars, Write
<1>2. PICK e \in DownWord : e.reg \in Regs /\ down' = Append(down, e)
  <2>1. regs \in Seq(Regs) /\ words \in 0 .. MaxWords /\ MaxWords \in Nat
    BY MsgAssumption DEF TypeInv, ProgramTypes
  <2>2. Head(regs) \in Regs
    BY <1>1, <2>1, TakenOut
  <2>3. [reg |-> Head(regs), val |-> words] \in DownWord
    BY <2>1, <2>2 DEF DownWord, Regs, Counters
  <2> QED  BY <1>1, <2>2, <2>3
<1>3. /\ SentInv' /\ QueueInv' /\ WriteInv(b)' /\ UpInv(b)'
      /\ UNCHANGED <<Started, Numbered, Landed, sent, enqIdx, Reported>>
  BY <1>1, FpgaStill DEF Inv, RingInv, enqVars, Reported
<1>4. SlotsInv(b)'
  BY <1>1, <1>3, SlotsStill DEF Inv, RingInv
<1>5. TakenInv' /\ ScanInv(b)'
  BY <1>1, <1>3 DEF Inv, RingInv, TakenInv, ScanInv, Whole
<1>6. e.reg # 16 /\ e.reg # 17 /\ e.reg \in Regs
  BY <1>2 DEF Regs
<1>7. (Resetting' <=> Resetting) /\ (ReceivedReset => ReceivedReset') /\ (IndexReset => IndexReset')
  BY <1>1, <1>2, <1>6, ResettingBehind, ResetBehind
<1>8. ResetInv'
  BY <1>1, <1>3, <1>7 DEF Inv, ResetInv
<1>9. CreditInv'
  <2>1. CASE Resetting
    BY <1>7, <2>1 DEF CreditInv
  <2>2. CASE ~Resetting
    <3>1. Reported \in Nat
      <4>1. recvd <= Len(taken) /\ recvd \in Nat /\ Len(taken) \in Nat
        BY Lengths DEF Inv, RingInv, ScanInv
      <4> QED  BY <4>1 DEF Reported
    <3>2. <<Reported, e, Reported'>> \in Reports
      BY <1>3, <1>6, <3>1 DEF Reports
    <3> QED  BY <1>1, <1>2, <1>3, <2>2, <3>1, <3>2, CreditBehind DEF Inv
  <2> QED  BY <2>1, <2>2
<1> QED  BY <1>3, <1>4, <1>5, <1>8, <1>9 DEF Inv, RingInv

-----------------------------------------------------------------------------
(* A word from the host is taken.                                          *)
LEMMA InFront ==
  ASSUME TypeInv, down # <<>>, down' = Tail(down)
  PROVE  /\ Len(down) \in Nat \ {0} /\ Len(down') = Len(down) - 1 /\ Head(down) = down[1]
         /\ \A k \in 1 .. Len(down) - 1 : down'[k] = down[k + 1]
         /\ \A k \in 1 .. Len(down) : down[k] \in DownWord
         /\ down \in Seq(DownWord) /\ DOMAIN down = 1 .. Len(down) /\ DOMAIN down' = 1 .. Len(down')
<1>1. down \in Seq(DownWord)
  BY DEF TypeInv, ProgramTypes
<1>2. down' \in Seq(DownWord)
  BY <1>1, TakenOut
<1> QED  BY <1>1, <1>2, TakenOut, LenProperties, ElementOfSeq

(* A reset ends when its word is taken, not before.                        *)
LEMMA ResettingOn ==
  ASSUME TypeInv, down # <<>>, down' = Tail(down), UNCHANGED start
  PROVE  /\ Resetting' => Resetting
         /\ Resetting /\ down[1].reg # 17 => Resetting'
<1>1. ASSUME Resetting' PROVE Resetting
  <2>1. CASE start # "ready"
    BY <2>1 DEF Resetting
  <2>2. ASSUME NEW k \in DOMAIN down', down'[k].reg = 17 PROVE Resetting
    <3>1. k + 1 \in DOMAIN down /\ down[k + 1].reg = 17
      BY <2>2, InFront
    <3> QED  BY <3>1 DEF Resetting
  <2> QED  BY <1>1, <2>1, <2>2 DEF Resetting
<1>2. ASSUME Resetting, down[1].reg # 17 PROVE Resetting'
  <2>1. CASE start # "ready"
    BY <2>1 DEF Resetting
  <2>2. ASSUME NEW k \in DOMAIN down, down[k].reg = 17 PROVE Resetting'
    <3>1. k # 1
      BY <1>2, <2>2
    <3>2. PICK j \in 1 .. Len(down) - 1 : k = j + 1
      <4>1. k \in 1 .. Len(down) /\ Len(down) \in Nat
        BY <2>2, InFront
      <4>2. k - 1 \in 1 .. Len(down) - 1 /\ k = (k - 1) + 1
        BY ONLY <3>1, <4>1
      <4> QED  BY <4>2
    <3>3. j \in DOMAIN down' /\ down'[j].reg = 17
      BY <2>2, <3>2, InFront
    <3> QED  BY <3>3 DEF Resetting
  <2> QED  BY <1>2, <2>1, <2>2 DEF Resetting
<1> QED  BY <1>1, <1>2

(* The last resets stay the last, or have been done.                       *)
LEMMA ResetOn ==
  ASSUME TypeInv, down # <<>>, down' = Tail(down)
  PROVE  /\ ReceivedReset /\ down[1].reg # 16 /\ UNCHANGED enqReceivedIdx => ReceivedReset'
         /\ ReceivedReset /\ down[1].reg = 16 /\ enqReceivedIdx' = down[1].val => ReceivedReset'
         /\ IndexReset => IndexReset' \/ (down[1].reg = 17 /\ \A k \in DOMAIN down' : down'[k].reg \in Regs)
<1>1. PICK n \in Nat : n = Len(down) - 1
  <2>1. Len(down) \in Nat \ {0}
    BY InFront
  <2>2. Len(down) - 1 \in Nat
    BY ONLY <2>1
  <2> QED  BY <2>2
<1>2. /\ Len(down) = n + 1 /\ Len(down') = n /\ DOMAIN down' = 1 .. n
      /\ \A k \in 1 .. n : down'[k] = down[k + 1] /\ k + 1 \in 1 .. n + 1
      /\ 1 \in 1 .. n + 1 /\ \A k \in 1 .. n + 1 : k # 1 => k - 1 \in 1 .. n /\ (k - 1) + 1 = k
  BY <1>1, InFront
<1>3. ASSUME NEW j \in 1 .. n + 1, Reset(j), \A k \in 1 .. n + 1 : k > j => down[k].reg # 16, j # 1
      PROVE  ReceivedReset'
  <2>1. PICK m \in 1 .. n : j = m + 1
    BY <1>2, <1>3
  <2>2. Reset(m)'
    BY <1>2, <1>3, <2>1 DEF Reset
  <2>3. \A k \in 1 .. n : k > m => down'[k].reg # 16
    <3> TAKE k \in 1 .. n
    <3> HAVE k > m
    <3>1. k + 1 > j /\ k + 1 \in 1 .. n + 1
      BY <1>2, <2>1
    <3> QED  BY <1>2, <1>3, <3>1
  <2> QED  BY <1>2, <2>2, <2>3 DEF ReceivedReset
<1>4. ASSUME enqReceivedIdx = 0, \A k \in 1 .. n + 1 : down[k].reg # 16, UNCHANGED enqReceivedIdx
      PROVE  ReceivedReset'
  <2>1. \A k \in 1 .. n : down'[k].reg # 16
    BY <1>2, <1>4
  <2> QED  BY <1>2, <1>4, <2>1 DEF ReceivedReset
<1>5. ReceivedReset => \/ enqReceivedIdx = 0 /\ \A k \in 1 .. n + 1 : down[k].reg # 16
                       \/ \E j \in 1 .. n + 1 : Reset(j) /\ \A k \in 1 .. n + 1 : k > j => down[k].reg # 16
  BY <1>2 DEF ReceivedReset
<1>6. ASSUME ReceivedReset, down[1].reg # 16, UNCHANGED enqReceivedIdx
      PROVE  ReceivedReset'
  <2>1. ~Reset(1)
    BY <1>6 DEF Reset
  <2> QED  BY <1>3, <1>4, <1>5, <1>6, <2>1
<1>7. ASSUME ReceivedReset, down[1].reg = 16, enqReceivedIdx' = down[1].val
      PROVE  ReceivedReset'
  <2>1. PICK j \in 1 .. n + 1 : Reset(j) /\ \A k \in 1 .. n + 1 : k > j => down[k].reg # 16
    BY <1>2, <1>5, <1>7
  <2>2. CASE j = 1
    <3>1. \A k \in 1 .. n : k + 1 > 1
      OBVIOUS
    <3>2. \A k \in 1 .. n : down'[k].reg # 16
      BY <1>2, <2>1, <2>2, <3>1
    <3>3. enqReceivedIdx' = 0
      BY <1>7, <2>1, <2>2 DEF Reset
    <3> QED  BY <1>2, <3>2, <3>3 DEF ReceivedReset
  <2> QED  BY <1>3, <2>1, <2>2
<1>8. ASSUME IndexReset
      PROVE  IndexReset' \/ (down[1].reg = 17 /\ \A k \in DOMAIN down' : down'[k].reg \in Regs)
  <2>1. PICK j \in 1 .. n + 1 : /\ down[j].reg = 17
                                /\ \A k \in 1 .. n + 1 : k > j => down[k].reg \in Regs
    BY <1>2, <1>8 DEF IndexReset
  <2>2. CASE j = 1
    <3>1. \A k \in 1 .. n : k + 1 > 1
      OBVIOUS
    <3> QED  BY <1>2, <2>1, <2>2, <3>1
  <2>3. CASE j # 1
    <3>1. PICK m \in 1 .. n : j = m + 1
      BY <1>2, <2>3
    <3>2. \A k \in 1 .. n : k > m => down'[k].reg \in Regs
      <4> TAKE k \in 1 .. n
      <4> HAVE k > m
      <4>1. k + 1 > j /\ k + 1 \in 1 .. n + 1
        BY <1>2, <3>1
      <4> QED  BY <1>2, <2>1, <4>1
    <3>3. down'[m].reg = 17
      BY <1>2, <2>1, <3>1
    <3> QED  BY <1>2, <3>2, <3>3 DEF IndexReset
  <2> QED  BY <2>2, <2>3
<1> QED  BY <1>6, <1>7, <1>8

(* procFC: a report raises the number the FPGA has; the resets are last.   *)
LEMMA ProcFCInv ==
  ASSUME TypeInv, NEW b \in SlotNo, Inv(b), procFC
  PROVE  Inv(b)'
<1>1. /\ down # <<>> /\ down' = Tail(down)
      /\ UNCHANGED <<start, rpc, i, found, recvd, nextrecvidx, nextrecvoff, recvList, taken, received,
                     slots, up, enqOffset, enqState, enq2Q, enqh2Q, enqDataQ, wm00, enqDmaWriteQ,
                     writing, msgs, sent>>
  BY DEF procFC, recvVars
<1>2. PICK d \in DownWord : d = down[1] /\ d = Head(down)
  BY <1>1, InFront
<1>3. /\ d.reg = 16 => enqReceivedIdx' = d.val /\ enqIdx' = enqIdx
      /\ d.reg = 17 => enqReceivedIdx' = enqReceivedIdx /\ enqIdx' = 0
      /\ d.reg \in Regs => enqReceivedIdx' = enqReceivedIdx /\ enqIdx' = enqIdx
      /\ d.reg \in {16, 17} \/ d.reg \in Regs
  BY <1>2 DEF procFC, DownWord, Regs, Counters
<1>4. UNCHANGED <<Started, Numbered, Issued, Queued, Gone, Landed, Reported>>
  BY <1>1 DEF Started, Numbered, Issued, Queued, Gone, Landed, Reported
<1>5. SentInv' /\ QueueInv' /\ TakenInv' /\ ScanInv(b)'
  BY <1>1, <1>4 DEF Inv, RingInv, SentInv, QueueInv, TakenInv, ScanInv, Whole
<1>6. WriteInv(b)' /\ UpInv(b)'
  <2>1. \A k : /\ Slot(b, k)' = Slot(b, k) /\ Body(k)' = Body(k) /\ Last(k)' = Last(k)
    BY <1>1 DEF Slot, Body, Last
  <2>2. WriteInv(b)'
    BY <1>1, <1>4, <2>1, Zenon DEF Inv, RingInv, WriteInv
  <2>3. UpInv(b)'
    BY <1>1, <1>4, <2>1, Zenon DEF Inv, RingInv, UpInv
  <2> QED  BY <2>2, <2>3
<1>7. SlotsInv(b)'
  BY <1>1, <1>4, SlotsStill DEF Inv, RingInv
<1>8. /\ ReceivedReset => ReceivedReset'
      /\ IndexReset => IndexReset' \/ (d.reg = 17 /\ \A k \in DOMAIN down' : down'[k].reg \in Regs)
  <2>1. d.reg # 16 => UNCHANGED enqReceivedIdx
    BY <1>3
  <2> QED  BY <1>1, <1>2, <1>3, <2>1, ResetOn
<1>9. /\ Resetting' => Resetting
      /\ Resetting /\ d.reg # 17 => Resetting'
  BY <1>1, <1>2, ResettingOn
<1>10. ResetInv'
  <2>1. start = "ready" /\ Resetting' => IndexReset'
    <3> SUFFICES ASSUME start = "ready", Resetting' PROVE IndexReset'
      OBVIOUS
    <3>1. IndexReset
      BY <1>9 DEF Inv, ResetInv
    <3>2. PICK k \in DOMAIN down' : down'[k].reg = 17
      BY <1>1 DEF Resetting
    <3>3. down'[k].reg \notin Regs
      BY <3>2 DEF Regs
    <3> QED  BY <1>8, <3>1, <3>3
  <2> QED  BY <1>1, <1>8, <1>9, <2>1 DEF Inv, ResetInv
<1>11. CreditInv'
  <2> SUFFICES ASSUME ~Resetting' PROVE CreditInv'
    BY DEF CreditInv
  <2>1. down \in Seq(DownWord)
    BY <1>1, InFront
  <2>2. CASE Resetting
    <3>1. d.reg = 17 /\ start = "ready"
      BY <1>1, <1>9, <2>2 DEF Resetting
    <3>2. ReceivedReset /\ IndexReset
      BY <2>2, <3>1 DEF Inv, ResetInv
    <3>3. \A k \in 1 .. Len(down') : down'[k].reg \in Regs
      <4>1. ~IndexReset'
        BY <1>1, InFront DEF IndexReset, Resetting
      <4> QED  BY <1>1, <1>8, <3>2, <4>1, InFront
    <3>4. ReceivedReset'
      BY <1>8, <3>2
    <3>5. enqReceivedIdx' = 0
      <4>1. \A k \in 1 .. Len(down') : down'[k].reg # 16 /\ ~Reset(k)'
        BY <3>3 DEF Regs, Reset
      <4> QED  BY <3>4, <4>1 DEF ReceivedReset
    <3>6. /\ Numbered' = 0 /\ Started' = 0 /\ enqIdx' = 0 /\ Reported' = 0
      <4>1. Numbered = 0 /\ Started = 0 /\ Len(taken) = 0 /\ recvd = 0
        BY <2>2, NothingSent
      <4> QED  BY <1>3, <1>4, <3>1, <4>1 DEF Reported
    <3>7. Path(0 .. 0, down', 0, 0, Reports)
      <4>1. down' \in Seq(DownWord)
        BY <1>1, <2>1, TakenOut
      <4>2. Len(down') \in Nat /\ \A k \in 1 .. Len(down') : down'[k] \in DownWord
        BY <4>1, LenProperties, ElementOfSeq
      <4> DEFINE st == [k \in 0 .. Len(down') |-> 0]
      <4>3. st \in [0 .. Len(down') -> 0 .. 0] /\ st[0] = 0 /\ st[Len(down')] = 0
        BY <4>2
      <4>4. ASSUME NEW k \in 1 .. Len(down')
            PROVE  <<st[k - 1], down'[k], st[k]>> \in Reports
        <5>1. st[k - 1] = 0 /\ st[k] = 0
          BY <4>2
        <5>2. down'[k].reg # 17 /\ down'[k].reg # 16
          BY <3>3 DEF Regs
        <5> HIDE DEF st
        <5> QED  BY <4>2, <5>1, <5>2 DEF Reports
      <4> HIDE DEF st
      <4>5. PICK q : q = down'
        OBVIOUS
      <4>6. Path(0 .. 0, q, 0, 0, Reports)
        BY <4>3, <4>4, <4>5 DEF Path
      <4> QED  BY <4>5, <4>6
    <3>8. 0 = 0 % IdxMod /\ 0 <= 0 + Slots /\ 0 \in 0 .. 0
      <4>1. IdxMod \in Nat \ {0} /\ 0 \in Int /\ 0 \in 0 .. IdxMod - 1 /\ Slots \in Nat
        BY ONLY MsgAssumption
      <4>2. 0 = 0 % IdxMod
        BY <4>1, Modulo, Zenon
      <4> QED  BY <4>1, <4>2
    <3>9. \E r \in 0 .. Reported' :
            /\ enqReceivedIdx' = r % IdxMod /\ Started' <= r + Slots
            /\ Path(0 .. Reported', down', r, Reported', Reports)
      BY <3>5, <3>6, <3>7, <3>8
    <3>10. enqIdx' = Numbered' % IdxMod
      BY <3>6, <3>8
    <3> QED  BY <3>9, <3>10 DEF CreditInv, Reports, DownWord, Idx
  <2>3. CASE ~Resetting
    <3>1. d.reg # 17
      <4>1. 1 \in DOMAIN down
        BY <1>1, InFront
      <4> QED  BY <1>2, <2>3, <4>1 DEF Resetting
    <3>2. /\ enqIdx = Numbered % IdxMod
          /\ \E R \in 0 .. Reported :
              /\ enqReceivedIdx = R % IdxMod /\ Started <= R + Slots
              /\ Path(0 .. Reported, down, R, Reported, Reports)
      BY <2>3 DEF Inv, CreditInv
    <3>3. PICK R \in 0 .. Reported :
              /\ enqReceivedIdx = R % IdxMod /\ Started <= R + Slots
              /\ Path(0 .. Reported, down, R, Reported, Reports)
      BY <3>2
    <3>4. PICK c \in 0 .. Reported :
              <<R, d, c>> \in Reports /\ Path(0 .. Reported, Tail(down), c, Reported, Reports)
      BY <1>1, <1>2, <2>1, <3>3, PathTail
    <3>5. enqReceivedIdx' = c % IdxMod /\ R <= c
      <4>1. CASE d.reg \in Regs
        <5>1. c = R
          BY <3>4, <4>1 DEF Reports
        <5> QED  BY <1>3, <3>3, <4>1, <5>1
      <4>2. CASE d.reg = 16
        BY <1>3, <3>4, <4>2 DEF Reports
      <4> QED  BY <1>3, <3>1, <4>1, <4>2
    <3>6. Started <= c + Slots
      <4>1. Started \in Int /\ Slots \in Nat /\ Reported \in Int
        BY Counts, Lengths
      <4> QED  BY <3>3, <3>4, <3>5, <4>1
    <3>7. \E r \in 0 .. Reported' :
            /\ enqReceivedIdx' = r % IdxMod /\ Started' <= r + Slots
            /\ Path(0 .. Reported', down', r, Reported', Reports)
      BY <1>1, <1>4, <3>4, <3>5, <3>6
    <3>8. enqIdx' = Numbered' % IdxMod
      BY <1>3, <1>4, <3>1, <3>2
    <3> QED  BY <3>7, <3>8 DEF CreditInv, Reports, DownWord, Idx
  <2> QED  BY <2>2, <2>3
<1> QED  BY <1>5, <1>6, <1>7, <1>10, <1>11 DEF Inv, RingInv

(* What the FPGA's steps leave of the program.                             *)
LEMMA ProgramStill ==
  ASSUME TypeInv, NEW b, Inv(b), UNCHANGED <<start, recvVars, down, enqReceivedIdx>>,
         Landed' \in Int, Landed <= Landed', Started' <= Len(taken) + Slots,
         \A k \in 1 .. Len(sent) : sent'[k] = sent[k],
         sent' = sent \/ ~Resetting
  PROVE  /\ ScanInv(b)' /\ TakenInv' /\ ResetInv' /\ (Resetting' <=> Resetting)
         /\ UNCHANGED <<Reported, taken>>
<1>1. UNCHANGED <<rpc, i, found, recvd, nextrecvidx, nextrecvoff, recvList, taken, received>>
  BY DEF recvVars
<1>2. /\ Landed \in Nat /\ Len(taken) \in Nat /\ 2 * Len(taken) <= Landed
      /\ Len(taken) <= Started /\ Started <= Len(sent) /\ Started \in Nat /\ Len(sent) \in Nat
  BY Counted, Lengths DEF Inv, RingInv
<1>3. ScanInv(b)'
  BY <1>1, <1>2, ScanStill DEF Inv, RingInv
<1>4. ResetInv' /\ (Resetting' <=> Resetting)
  BY <1>1, ResetStill DEF Inv
<1>5. TakenInv'
  <2>1. TakenInv
    BY DEF Inv
  <2>2. \A k \in 1 .. Len(taken) : k \in 1 .. Len(sent)
    BY <1>2
  <2>3. \A k \in 1 .. Len(taken) : taken'[k] = Whole(sent[k])' 
    BY <1>1, <2>1, <2>2 DEF TakenInv, Whole
  <2>4. 2 * Len(taken) <= Landed'
    BY <1>2
  <2> QED  BY <1>1, <2>1, <2>3, <2>4 DEF TakenInv
<1> QED  BY <1>1, <1>3, <1>4, <1>5 DEF Reported

(* What is in host memory and on its way there does not change when        *)
(* another message is sent.                                                *)
LEMMA SlotsMore ==
  ASSUME TypeInv, NEW b, Inv(b), UNCHANGED <<start, slots, Landed>>,
         \A k \in 1 .. Len(sent) : sent'[k] = sent[k]
  PROVE  SlotsInv(b)'
<1>1. /\ Landed \in Nat /\ Landed <= 2 * Len(sent) /\ Len(sent) \in Nat /\ Slots \in Nat /\ MaxMsgs \in Nat
  <2>1. /\ Landed \in Nat /\ Landed <= Queued /\ Queued <= 2 * Started /\ Started <= Len(sent)
        /\ Queued \in Nat /\ Started \in Nat /\ Len(sent) \in Nat
    BY Counted, Lengths DEF Inv, RingInv
  <2> QED  BY <2>1, Lengths
<1>2. \A k : Slot(b, k)' = Slot(b, k) /\ Num(k)' = Num(k)
  BY DEF Slot, Num
<1>3. ASSUME NEW k \in -Slots .. MaxMsgs, 2 * k < Landed
      PROVE  Val(k)' = Val(k)
  <2>1. CASE k < 0
    BY <2>1 DEF Val
  <2>2. CASE ~(k < 0)
    <3>1. k + 1 \in 1 .. Len(sent)
      BY <1>1, <1>3, <2>2
    <3> QED  BY <2>2, <3>1 DEF Val
  <2> QED  BY <2>1, <2>2
<1>4. \A k \in -Slots .. MaxMsgs : 2 * k + 1 < Landed => 2 * k < Landed
  BY <1>1
<1> QED  BY <1>2, <1>3, <1>4 DEF Inv, RingInv, SlotsInv

(* enq: the new message waits in both queues, behind those before.         *)
LEMMA EnqInv ==
  ASSUME TypeInv, NEW b \in SlotNo, Inv(b), enq, ~EarlyMessages
  PROVE  Inv(b)'
<1>1. /\ UNCHANGED <<start, recvVars, slots, down, up, enqReceivedIdx, enqIdx, enqOffset, enqState,
                     enqDataQ, wm00, enqDmaWriteQ, writing>>
      /\ msgs' = msgs + 1 /\ sent' = Append(sent, msgs')
      /\ enq2Q' = Append(enq2Q, msgs') /\ enqh2Q' = Append(enqh2Q, msgs')
      /\ ~Resetting /\ msgs < MaxMsgs
  BY DEF enq
<1>2. PICK L \in Nat, e \in Nat, h \in Nat, m \in Nat :
        L = Len(sent) /\ e = Len(enq2Q) /\ h = Len(enqh2Q) /\ m = msgs
  <2>1. Len(sent) \in Nat /\ Len(enq2Q) \in Nat /\ Len(enqh2Q) \in Nat
    BY Lengths
  <2>2. msgs \in Nat
    BY Lengths DEF Msg
  <2> QED  BY <2>1, <2>2
<1>3. m + 1 \in Msg /\ msgs' = m + 1
  <2>1. MaxMsgs \in Nat
    BY Lengths
  <2>2. m + 1 \in 0 .. MaxMsgs
    BY ONLY <1>1, <1>2, <2>1
  <2> QED  BY <1>1, <1>2, <2>2 DEF Msg
<1>4. /\ Len(sent') = L + 1 /\ sent'[L + 1] = m + 1 /\ \A k \in 1 .. L : sent'[k] = sent[k]
      /\ Len(enq2Q') = e + 1 /\ enq2Q'[e + 1] = m + 1 /\ \A k \in 1 .. e : enq2Q'[k] = enq2Q[k]
      /\ Len(enqh2Q') = h + 1 /\ enqh2Q'[h + 1] = m + 1 /\ \A k \in 1 .. h : enqh2Q'[k] = enqh2Q[k]
  <2>1. sent \in Seq(Msg) /\ enq2Q \in Seq(Msg) /\ enqh2Q \in Seq(Msg)
    BY DEF TypeInv, EnqTypes
  <2> QED  BY <1>1, <1>2, <1>3, <2>1, PutIn
<1>5. UNCHANGED <<Started, Numbered, Issued, Queued, Gone, Landed>>
  <2>1. Started' = Started /\ Numbered' = Numbered
    BY <1>2, <1>4 DEF Started, Numbered
  <2> QED  BY <1>1, <2>1 DEF Issued, Queued, Gone, Landed
<1>6. PICK S \in Nat, N \in Nat, Q \in Nat, G \in Nat, D \in Nat :
        /\ S = Started /\ N = Numbered /\ Q = Queued /\ G = Gone /\ D = Landed
        /\ S = L - e /\ N = L - h /\ S <= L /\ N <= S /\ Q <= 2 * S /\ D <= G /\ G <= Q
  <2>1. /\ Started \in Nat /\ Numbered \in Nat /\ Queued \in Nat /\ Gone \in Nat /\ Landed \in Nat
        /\ Started <= Len(sent) /\ Numbered <= Started /\ Queued <= 2 * Started
        /\ Landed <= Gone /\ Gone <= Queued
    BY Counted DEF Inv, RingInv
  <2>2. Started = L - e /\ Numbered = L - h
    BY <1>2 DEF Started, Numbered
  <2> QED  BY <1>2, <2>1, <2>2
<1>7. SentInv'
  <2>1. L <= m /\ \A k \in 1 .. L : sent[k] = (m - L) + k
    BY <1>2 DEF Inv, SentInv
  <2>2. \A k \in 1 .. L + 1 : sent'[k] = ((m + 1) - (L + 1)) + k
    <3> TAKE k \in 1 .. L + 1
    <3>1. CASE k = L + 1
      BY <1>4, <2>1, <3>1
    <3>2. CASE k \in 1 .. L
      BY <1>4, <2>1, <3>2
    <3> QED  BY <3>1, <3>2
  <2> QED  BY <1>3, <1>4, <2>1, <2>2 DEF SentInv
<1>8. QueueInv'
  <2>1. /\ e <= L /\ h <= L
        /\ Started = Numbered + (IF enqState = 0 THEN 0 ELSE 1)
        /\ \A k \in 1 .. e : enq2Q[k] = sent[S + k]
        /\ \A k \in 1 .. h : enqh2Q[k] = sent[N + k]
        /\ enqDataQ = IF enqState = 1 THEN <<sent[S]>> ELSE <<>>
    BY <1>2, <1>6 DEF Inv, QueueInv
  <2>2. \A k \in 1 .. e + 1 : enq2Q'[k] = sent'[S + k]
    <3> TAKE k \in 1 .. e + 1
    <3>1. CASE k = e + 1
      <4>1. S + k = L + 1
        BY <1>6, <3>1
      <4> QED  BY <1>4, <3>1, <4>1
    <3>2. CASE k \in 1 .. e
      <4>1. S + k \in 1 .. L
        BY <1>6, <3>2
      <4> QED  BY <1>4, <2>1, <3>2, <4>1
    <3> QED  BY <3>1, <3>2
  <2>3. \A k \in 1 .. h + 1 : enqh2Q'[k] = sent'[N + k]
    <3> TAKE k \in 1 .. h + 1
    <3>1. CASE k = h + 1
      <4>1. N + k = L + 1
        BY <1>6, <3>1
      <4> QED  BY <1>4, <3>1, <4>1
    <3>2. CASE k \in 1 .. h
      <4>1. N + k \in 1 .. L
        BY <1>6, <3>2
      <4> QED  BY <1>4, <2>1, <3>2, <4>1
    <3> QED  BY <3>1, <3>2
  <2>4. enqState = 1 => sent'[S] = sent[S]
    <3> SUFFICES ASSUME enqState = 1 PROVE sent'[S] = sent[S]
      OBVIOUS
    <3>1. S = N + 1
      BY <1>6, <2>1
    <3>2. S \in 1 .. L
      BY ONLY <1>6, <3>1
    <3> QED  BY <1>4, <3>2
  <2>5. e + 1 <= L + 1 /\ h + 1 <= L + 1
    BY <2>1
  <2>6. Len(enq2Q') = e + 1 /\ Len(enqh2Q') = h + 1 /\ Len(sent') = L + 1 /\ Started' = S /\ Numbered' = N
    BY <1>4, <1>5, <1>6
  <2>7. Started' = Numbered' + (IF enqState' = 0 THEN 0 ELSE 1)
    BY <1>1, <1>5, <2>1
  <2>8. enqDataQ' = IF enqState' = 1 THEN <<sent'[Started']>> ELSE <<>>
    <3>1. CASE enqState = 1
      BY <1>1, <2>1, <2>4, <2>6, <3>1
    <3>2. CASE enqState # 1
      BY <1>1, <2>1, <3>2
    <3> QED  BY <3>1, <3>2
  <2> QED  BY <2>2, <2>3, <2>5, <2>6, <2>7, <2>8 DEF QueueInv
<1>9. \A k \in Msg : k + 1 \in 1 .. L => Body(k)' = Body(k) /\ Last(k)' = Last(k)
  BY <1>4 DEF Body, Last
<1>10. \A k : Slot(b, k)' = Slot(b, k)
  BY DEF Slot
<1>11. Len(enqDmaWriteQ) \in Nat /\ Len(up) \in Nat /\ G + Len(enqDmaWriteQ) = Q /\ D + Len(up) = G
  BY <1>6, Lengths, Counts
<1>12. WriteInv(b)'
  <2>1. ASSUME NEW k \in 1 .. Len(enqDmaWriteQ), NEW j \in Msg, G + k = 2 * j + 1 \/ G + k = 2 * j + 2
        PROVE  j + 1 \in 1 .. L
    <3>1. j \in Nat
      BY Lengths DEF Msg
    <3>2. G + k <= 2 * L /\ k \in Nat
      BY <1>6, <1>11
    <3> QED  BY <2>1, <3>1, <3>2
  <2>2. \A k \in 1 .. Len(enqDmaWriteQ), j \in Msg :
          /\ G + k = 2 * j + 1 => enqDmaWriteQ[k] = Body(j)'
          /\ G + k = 2 * j + 2 => enqDmaWriteQ[k] = Last(j)'
    BY <1>6, <1>9, <2>1 DEF Inv, RingInv, WriteInv
  <2>3. WriteInv(b)
    BY DEF Inv, RingInv
  <2> QED  BY <1>1, <1>5, <1>6, <1>10, <2>2, <2>3 DEF WriteInv
<1>13. UpInv(b)'
  <2>1. ASSUME NEW k \in 1 .. Len(up), NEW j \in Msg, D + k = 2 * j + 1 \/ D + k = 2 * j + 2
        PROVE  j + 1 \in 1 .. L
    <3>1. j \in Nat
      BY Lengths DEF Msg
    <3>2. D + k <= 2 * L /\ k \in Nat
      BY <1>6, <1>11
    <3> QED  BY <2>1, <3>1, <3>2
  <2>2. \A k \in 1 .. Len(up), j \in Msg :
          /\ D + k = 2 * j + 1 => up[k] = [slot |-> Slot(b, j), first |-> TRUE, data |-> Body(j)']
          /\ D + k = 2 * j + 2 => up[k] = [slot |-> Slot(b, j), first |-> FALSE, data |-> Last(j)']
    BY <1>6, <1>9, <2>1 DEF Inv, RingInv, UpInv
  <2>3. UpInv(b)
    BY DEF Inv, RingInv
  <2> QED  BY <1>1, <1>5, <1>6, <1>10, <2>2, <2>3 DEF UpInv
<1>14. SlotsInv(b)'
  BY <1>1, <1>2, <1>4, <1>5, SlotsMore
<1>15. ScanInv(b)' /\ TakenInv' /\ ResetInv' /\ UNCHANGED Reported
  <2>1. Landed' \in Int /\ Landed <= Landed'
    BY <1>5, <1>6
  <2>2. Started' <= Len(taken) + Slots
    BY <1>5 DEF Inv, TakenInv
  <2> QED  BY <1>1, <1>2, <1>4, <2>1, <2>2, ProgramStill
<1>16. CreditInv'
  BY <1>1, <1>5, <1>15, CreditStill DEF Inv
<1> QED  BY <1>7, <1>8, <1>12, <1>13, <1>14, <1>15, <1>16 DEF Inv, RingInv

(* No message is given a slot that holds one not taken: the FPGA's count   *)
(* of free slots is no larger than that of the program.                    *)
LEMMA CreditBounds ==
  ASSUME TypeInv, NEW b \in SlotNo, Inv(b), ~Resetting, enqState = 0,
         Minus32(enqIdx, enqReceivedIdx) < Slots
  PROVE  /\ Started + 1 <= Len(taken) + Slots
         /\ \E R \in 0 .. Reported :
              /\ enqReceivedIdx = R % IdxMod /\ Started + 1 <= R + Slots
              /\ Path(0 .. Reported, down, R, Reported, Reports)
<1>1. PICK R \in 0 .. Reported :
        /\ enqReceivedIdx = R % IdxMod /\ Started <= R + Slots
        /\ Path(0 .. Reported, down, R, Reported, Reports)
  BY DEF Inv, CreditInv
<1>2. enqIdx = Numbered % IdxMod
  BY DEF Inv, CreditInv
<1>3. PICK S \in Nat, t \in Nat, P \in Nat :
        /\ S = Started /\ S = Numbered /\ t = Len(taken) /\ P = Reported
        /\ P <= t /\ t <= S
  <2>1. /\ Started \in Nat /\ Started = Numbered /\ Len(taken) \in Nat /\ Len(taken) <= Started
        /\ recvd \in Nat
    BY Counted, Lengths DEF Inv, RingInv
  <2>2. recvd <= Len(taken)
    BY DEF Inv, RingInv, ScanInv
  <2>3. Reported \in Nat /\ Reported <= Len(taken)
    BY <2>1, <2>2 DEF Reported
  <2> QED  BY <2>1, <2>3
<1>4. /\ R \in Nat /\ R <= t /\ S <= R + Slots /\ Slots \in Nat /\ Slots < IdxMod /\ IdxMod \in Nat \ {0}
  BY <1>1, <1>3, Lengths
<1>5. Minus32(enqIdx, enqReceivedIdx) = S - R
  <2>1. PICK y \in Int : y = S - R
    BY <1>4
  <2>2. ((S % IdxMod) - (R % IdxMod)) % IdxMod = (S - R) % IdxMod
    <3>1. S \in Int /\ R \in Int
      BY <1>4
    <3> QED  BY <1>4, <3>1, InStep, Zenon
  <2>3. y \in 0 .. IdxMod - 1
    BY <1>3, <1>4, <2>1
  <2>4. y % IdxMod = y
    <3>1. IdxMod \in Nat \ {0}
      BY <1>4
    <3> QED  BY <2>3, <3>1, Modulo, Zenon
  <2> QED  BY <1>1, <1>2, <1>3, <2>1, <2>2, <2>4 DEF Minus32
<1>6. S + 1 <= R + Slots /\ S + 1 <= t + Slots
  BY <1>4, <1>5
<1> QED  BY <1>1, <1>3, <1>6

(* startEnqPacket: with credit, the next slot is one already taken.        *)
LEMMA StartEnqPacketInv ==
  ASSUME TypeInv, NEW b \in SlotNo, Inv(b), startEnqPacket
  PROVE  Inv(b)'
<1>1. /\ UNCHANGED <<start, recvVars, slots, down, up, enqReceivedIdx, enqIdx, enqh2Q, enqDmaWriteQ,
                     writing, msgs, sent>>
      /\ enqState = 0 /\ enqState' = 1 /\ Minus32(enqIdx, enqReceivedIdx) < Slots /\ enq2Q # <<>>
      /\ enq2Q' = Tail(enq2Q) /\ enqDataQ' = Append(enqDataQ, Head(enq2Q))
      /\ wm00' = Append(wm00, enqOffset) /\ enqOffset' = (enqOffset + 1) % Slots
  BY DEF startEnqPacket
<1>2. PICK L \in Nat, e \in Nat, w \in Nat, S \in Nat, I \in Nat :
        /\ L = Len(sent) /\ e = Len(enq2Q) /\ w = Len(wm00) /\ S = Started /\ I = Issued
        /\ S = L - e /\ I = S - w /\ S = Numbered /\ S <= L
  <2>1. /\ Started \in Nat /\ Issued \in Nat /\ Started = Numbered /\ Started <= Len(sent)
    BY <1>1, Counted DEF Inv, RingInv
  <2>2. Started = Len(sent) - Len(enq2Q) /\ Issued = Started - Len(wm00)
    BY DEF Started, Issued
  <2> QED  BY <2>1, <2>2, Lengths
<1>3. /\ Len(enq2Q') = e - 1 /\ e > 0 /\ \A k \in 1 .. e - 1 : enq2Q'[k] = enq2Q[k + 1]
      /\ Head(enq2Q) = enq2Q[1]
      /\ Len(wm00') = w + 1 /\ wm00'[w + 1] = enqOffset /\ \A k \in 1 .. w : wm00'[k] = wm00[k]
  <2>1. enq2Q \in Seq(Msg) /\ wm00 \in Seq(SlotNo) /\ enqOffset \in SlotNo
    BY DEF TypeInv, EnqTypes
  <2>2. /\ Len(enq2Q') = e - 1 /\ e \in Nat \ {0} /\ \A k \in 1 .. e - 1 : enq2Q'[k] = enq2Q[k + 1]
        /\ Head(enq2Q) = enq2Q[1]
    BY <1>1, <1>2, <2>1, TakenOut
  <2> QED  BY <1>1, <1>2, <2>1, <2>2, PutIn
<1>4. ~Resetting
  <2>1. L # 0
    BY <1>2, <1>3
  <2> QED  BY <1>2, <2>1, NothingSent
<1>5. Started' = S + 1 /\ UNCHANGED <<Numbered, Issued, Queued, Gone, Landed>>
  <2>1. Started' = S + 1 /\ Numbered' = Numbered
    BY <1>1, <1>2, <1>3 DEF Started, Numbered
  <2>2. Issued' = Issued
    BY <1>2, <1>3, <2>1 DEF Issued
  <2>3. Queued' = Queued
    BY <1>1, <2>1 DEF Queued
  <2> QED  BY <1>1, <2>1, <2>2, <2>3 DEF Gone, Landed
<1>6. SentInv'
  BY <1>1 DEF Inv, SentInv
<1>7. QueueInv'
  <2>1. /\ e <= L /\ Len(enqh2Q) <= L
        /\ \A k \in 1 .. e : enq2Q[k] = sent[S + k]
        /\ \A k \in 1 .. Len(enqh2Q) : enqh2Q[k] = sent[Numbered + k]
        /\ enqDataQ = <<>>
    BY <1>1, <1>2 DEF Inv, QueueInv
  <2>2. \A k \in 1 .. e - 1 : enq2Q'[k] = sent[(S + 1) + k]
    <3> TAKE k \in 1 .. e - 1
    <3>1. k + 1 \in 1 .. e /\ S + (k + 1) = (S + 1) + k
      BY <1>2
    <3> QED  BY <1>3, <2>1, <3>1
  <2>3. enqDataQ' = <<sent[S + 1]>>
    <3>1. 1 \in 1 .. e
      BY <1>3
    <3>2. enq2Q[1] = sent[S + 1]
      BY <2>1, <3>1
    <3>3. Append(<<>>, sent[S + 1]) = <<sent[S + 1]>>
      OBVIOUS
    <3> QED  BY <1>1, <1>3, <2>1, <3>2, <3>3
  <2>4. e - 1 <= L
    BY <1>2
  <2> QED  BY <1>1, <1>2, <1>3, <1>5, <2>1, <2>2, <2>3, <2>4 DEF QueueInv
<1>8. \A k : Slot(b, k)' = Slot(b, k) /\ Body(k)' = Body(k) /\ Last(k)' = Last(k)
  BY <1>1 DEF Slot, Body, Last
<1>9. WriteInv(b)'
  <2>1. /\ enqOffset = Slot(b, S) /\ Gone = 2 * Issued - writing.left
        /\ \A k \in 1 .. w : wm00[k] = Slot(b, I + (k - 1))
        /\ writing.left > 0 => writing.slot = Slot(b, Issued - 1)
        /\ \A k \in 1 .. Len(enqDmaWriteQ), m \in Msg :
             /\ Gone + k = 2 * m + 1 => enqDmaWriteQ[k] = Body(m)
             /\ Gone + k = 2 * m + 2 => enqDmaWriteQ[k] = Last(m)
    BY <1>2 DEF Inv, RingInv, WriteInv
  <2>2. enqOffset' = Slot(b, S + 1)
    <3>1. S \in Int
      OBVIOUS
    <3> QED  BY <1>1, <2>1, <3>1, SlotNext
  <2>3. \A k \in 1 .. w + 1 : wm00'[k] = Slot(b, I + (k - 1))
    <3> TAKE k \in 1 .. w + 1
    <3>1. CASE k = w + 1
      <4>1. I + (k - 1) = S
        BY <1>2, <3>1
      <4> QED  BY <1>3, <2>1, <3>1, <4>1
    <3>2. CASE k \in 1 .. w
      BY <1>3, <2>1, <3>2
    <3> QED  BY <3>1, <3>2
  <2> QED  BY <1>1, <1>2, <1>3, <1>5, <1>8, <2>1, <2>2, <2>3 DEF WriteInv
<1>10. UpInv(b)'
  BY <1>1, <1>5, <1>8, Zenon DEF Inv, RingInv, UpInv
<1>11. SlotsInv(b)'
  BY <1>1, <1>5, SlotsMore
<1>12. /\ S + 1 <= Len(taken) + Slots
       /\ \E R \in 0 .. Reported :
            /\ enqReceivedIdx = R % IdxMod /\ S + 1 <= R + Slots
            /\ Path(0 .. Reported, down, R, Reported, Reports)
  BY <1>1, <1>2, <1>4, CreditBounds
<1>13. ScanInv(b)' /\ TakenInv' /\ ResetInv' /\ UNCHANGED Reported /\ ~Resetting'
  <2>1. Landed' \in Int /\ Landed <= Landed'
    <3>1. Landed \in Int
      BY Counts
    <3> QED  BY <1>5, <3>1
  <2> QED  BY <1>1, <1>4, <1>5, <1>12, <2>1, ProgramStill
<1>14. CreditInv'
  <2>1. enqIdx = Numbered % IdxMod
    BY <1>4 DEF Inv, CreditInv
  <2>2. \E R \in 0 .. Reported' :
            /\ enqReceivedIdx' = R % IdxMod /\ Started' <= R + Slots
            /\ Path(0 .. Reported', down', R, Reported', Reports)
    BY <1>1, <1>5, <1>12, <1>13
  <2> QED  BY <1>1, <1>5, <2>1, <2>2 DEF CreditInv, Reports, DownWord, Idx
<1> QED  BY <1>6, <1>7, <1>9, <1>10, <1>11, <1>13, <1>14 DEF Inv, RingInv

(* The last step of the FPGA that leaves the messages and their slots.     *)
LEMMA MemoryStill ==
  ASSUME TypeInv, NEW b, Inv(b),
         UNCHANGED <<start, recvVars, slots, down, up, enqReceivedIdx, msgs, sent, Started, Landed>>
  PROVE  /\ SentInv' /\ UpInv(b)' /\ SlotsInv(b)' /\ ScanInv(b)' /\ TakenInv' /\ ResetInv'
         /\ UNCHANGED Reported
<1>1. \A k : Slot(b, k)' = Slot(b, k) /\ Body(k)' = Body(k) /\ Last(k)' = Last(k)
  BY DEF Slot, Body, Last
<1>2. SentInv'
  BY DEF Inv, SentInv
<1>3. UpInv(b)'
  BY <1>1, Zenon DEF Inv, RingInv, UpInv
<1>4. SlotsInv(b)'
  BY SlotsMore
<1>5. ScanInv(b)' /\ TakenInv' /\ ResetInv' /\ UNCHANGED Reported
  <2>1. Landed' \in Int /\ Landed <= Landed'
    BY Counts
  <2>2. Started' <= Len(taken) + Slots
    BY DEF Inv, TakenInv
  <2> QED  BY <2>1, <2>2, ProgramStill
<1> QED  BY <1>2, <1>3, <1>4, <1>5

(* sendEnqPacket: the data of the message that was started.                *)
LEMMA SendEnqPacketInv ==
  ASSUME TypeInv, NEW b \in SlotNo, Inv(b), sendEnqPacket
  PROVE  Inv(b)'
<1>1. /\ UNCHANGED <<start, recvVars, slots, down, up, enqReceivedIdx, enqIdx, enqOffset, enq2Q,
                     enqh2Q, wm00, writing, msgs, sent>>
      /\ enqState = 1 /\ enqState' = 2 /\ enqDataQ # <<>> /\ enqDataQ' = Tail(enqDataQ)
      /\ enqDmaWriteQ' = Append(enqDmaWriteQ, [val |-> Head(enqDataQ), idx |-> 0])
  BY DEF sendEnqPacket
<1>2. PICK S \in Nat, N \in Nat, Q \in Nat, G \in Nat, d \in Nat :
        /\ S = Started /\ N = Numbered /\ Q = Queued /\ G = Gone /\ d = Len(enqDmaWriteQ)
        /\ S = N + 1 /\ Q = 2 * N /\ G + d = Q
  <2>1. /\ Started \in Nat /\ Numbered \in Nat /\ Queued \in Nat /\ Gone \in Nat
        /\ Started = Numbered + 1
    BY <1>1, Counted DEF Inv, RingInv
  <2>2. Queued = 2 * Numbered /\ Gone + Len(enqDmaWriteQ) = Queued
    BY <1>1, Counts
  <2> QED  BY <2>1, <2>2, Lengths
<1>3. enqDataQ = <<sent[S]>> /\ enqDataQ' = <<>> /\ Head(enqDataQ) = sent[S]
  <2>1. enqDataQ = <<sent[S]>>
    BY <1>1, <1>2 DEF Inv, QueueInv
  <2> QED  BY <1>1, <2>1
<1>4. /\ Len(enqDmaWriteQ') = d + 1 /\ enqDmaWriteQ'[d + 1] = Body(N)
      /\ \A k \in 1 .. d : enqDmaWriteQ'[k] = enqDmaWriteQ[k]
  <2>1. enqDmaWriteQ \in Seq(DmaWord) /\ enqDataQ \in Seq(Msg)
    BY DEF TypeInv, EnqTypes
  <2>2. Head(enqDataQ) \in Msg
    BY <1>1, <2>1, TakenOut
  <2>3. [val |-> Head(enqDataQ), idx |-> 0] \in DmaWord
    BY <2>2, Numbers DEF DmaWord
  <2>4. [val |-> Head(enqDataQ), idx |-> 0] = Body(N)
    BY <1>2, <1>3 DEF Body
  <2> QED  BY <1>1, <1>2, <2>1, <2>3, <2>4, PutIn
<1>5. /\ UNCHANGED <<Started, Numbered, Issued, Gone, Landed>>
  <2>1. UNCHANGED <<Started, Numbered, Issued>>
    BY <1>1 DEF Started, Numbered, Issued
  <2>2. Queued' = 2 * N + 1
    BY <1>1, <1>2, <2>1 DEF Queued
  <2>3. Gone' = G
    BY <1>2, <1>4, <2>2 DEF Gone
  <2> QED  BY <1>1, <1>2, <2>1, <2>3 DEF Landed
<1>6. QueueInv'
  BY <1>1, <1>2, <1>3, <1>5 DEF Inv, QueueInv
<1>7. /\ SentInv' /\ UpInv(b)' /\ SlotsInv(b)' /\ ScanInv(b)' /\ TakenInv' /\ ResetInv'
      /\ UNCHANGED Reported
  BY <1>1, <1>5, MemoryStill
<1>8. WriteInv(b)'
  <2>1. \A k : Slot(b, k)' = Slot(b, k) /\ Body(k)' = Body(k) /\ Last(k)' = Last(k)
    BY <1>1 DEF Slot, Body, Last
  <2>2. ASSUME NEW k \in 1 .. d + 1, NEW m \in Msg
        PROVE  /\ G + k = 2 * m + 1 => enqDmaWriteQ'[k] = Body(m)
               /\ G + k = 2 * m + 2 => enqDmaWriteQ'[k] = Last(m)
    <3>1. CASE k \in 1 .. d
      BY <1>2, <1>4, <3>1 DEF Inv, RingInv, WriteInv
    <3>2. CASE k = d + 1
      <4>1. m \in Nat
        BY Lengths DEF Msg
      <4>2. G + k = 2 * N + 1
        BY ONLY <1>2, <3>2
      <4>3. (G + k = 2 * m + 1 => m = N) /\ G + k # 2 * m + 2
        BY <4>1, <4>2, Halves
      <4> QED  BY <1>4, <3>2, <4>3
    <3> QED  BY <3>1, <3>2
  <2>3. /\ enqOffset = Slot(b, Started) /\ Gone = 2 * Issued - writing.left
        /\ \A k \in 1 .. Len(wm00) : wm00[k] = Slot(b, Issued + (k - 1))
        /\ writing.left > 0 => writing.slot = Slot(b, Issued - 1)
    BY DEF Inv, RingInv, WriteInv
  <2> QED  BY <1>1, <1>2, <1>4, <1>5, <2>1, <2>2, <2>3 DEF WriteInv
<1>9. CreditInv'
  BY <1>1, <1>5, <1>7, CreditStill DEF Inv
<1> QED  BY <1>6, <1>7, <1>8, <1>9 DEF Inv, RingInv

(* sendEnqIdx: its header, with the next number.                           *)
LEMMA SendEnqIdxInv ==
  ASSUME TypeInv, NEW b \in SlotNo, Inv(b), sendEnqIdx
  PROVE  Inv(b)'
<1>1. /\ UNCHANGED <<start, recvVars, slots, down, up, enqReceivedIdx, enqOffset, enq2Q, enqDataQ,
                     wm00, writing, msgs, sent>>
      /\ enqState = 2 /\ enqState' = 0 /\ enqh2Q # <<>> /\ enqh2Q' = Tail(enqh2Q)
      /\ enqIdx' = Next32(enqIdx)
      /\ enqDmaWriteQ' = Append(enqDmaWriteQ, [val |-> Head(enqh2Q), idx |-> enqIdx])
  BY DEF sendEnqIdx
<1>2. PICK L \in Nat, h \in Nat, S \in Nat, N \in Nat, Q \in Nat, G \in Nat, d \in Nat :
        /\ L = Len(sent) /\ h = Len(enqh2Q)
        /\ S = Started /\ N = Numbered /\ Q = Queued /\ G = Gone /\ d = Len(enqDmaWriteQ)
        /\ S = N + 1 /\ N = L - h /\ Q = 2 * N + 1 /\ G + d = Q /\ S <= L
  <2>1. /\ Started \in Nat /\ Numbered \in Nat /\ Queued \in Nat /\ Gone \in Nat
        /\ Started = Numbered + 1 /\ Started <= Len(sent)
    BY <1>1, Counted DEF Inv, RingInv
  <2>2. Queued = 2 * Numbered + 1 /\ Gone + Len(enqDmaWriteQ) = Queued
    BY <1>1, Counts
  <2>3. Numbered = Len(sent) - Len(enqh2Q)
    BY DEF Numbered
  <2> QED  BY <2>1, <2>2, <2>3, Lengths
<1>3. /\ Len(enqh2Q') = h - 1 /\ h > 0 /\ \A k \in 1 .. h - 1 : enqh2Q'[k] = enqh2Q[k + 1]
      /\ Head(enqh2Q) = enqh2Q[1] /\ Head(enqh2Q) \in Msg
  <2>1. enqh2Q \in Seq(Msg)
    BY DEF TypeInv, EnqTypes
  <2> QED  BY <1>1, <1>2, <2>1, TakenOut
<1>4. /\ h <= L /\ Len(enq2Q) <= L /\ enqDataQ = <<>>
      /\ \A k \in 1 .. Len(enq2Q) : enq2Q[k] = sent[S + k]
      /\ \A k \in 1 .. h : enqh2Q[k] = sent[N + k]
  BY <1>1, <1>2 DEF Inv, QueueInv
<1>5. ~Resetting /\ enqIdx = N % IdxMod
  <2>1. L # 0
    BY <1>2
  <2>2. ~Resetting
    BY <1>2, <2>1, NothingSent
  <2> QED  BY <1>2, <2>2 DEF Inv, CreditInv
<1>6. /\ Len(enqDmaWriteQ') = d + 1 /\ enqDmaWriteQ'[d + 1] = Last(N)
      /\ \A k \in 1 .. d : enqDmaWriteQ'[k] = enqDmaWriteQ[k]
  <2>1. enqDmaWriteQ \in Seq(DmaWord) /\ enqIdx \in Idx
    BY DEF TypeInv, EnqTypes
  <2>2. [val |-> Head(enqh2Q), idx |-> enqIdx] \in DmaWord
    BY <1>3, <2>1 DEF DmaWord
  <2>3. Head(enqh2Q) = sent[N + 1]
    <3>1. 1 \in 1 .. h
      BY <1>3
    <3> QED  BY <1>3, <1>4, <3>1
  <2>4. [val |-> Head(enqh2Q), idx |-> enqIdx] = Last(N)
    BY <1>5, <2>3 DEF Last
  <2> QED  BY <1>1, <1>2, <2>1, <2>2, <2>4, PutIn
<1>7. /\ UNCHANGED <<Started, Issued, Gone, Landed>> /\ Numbered' = N + 1
  <2>1. UNCHANGED <<Started, Issued>>
    BY <1>1 DEF Started, Issued
  <2>2. Numbered' = N + 1
    BY <1>1, <1>2, <1>3 DEF Numbered
  <2>3. Queued' = 2 * N + 2
    BY <1>1, <1>2, <2>2 DEF Queued
  <2>4. Gone' = G
    BY <1>2, <1>6, <2>3 DEF Gone
  <2> QED  BY <1>1, <1>2, <2>1, <2>2, <2>4 DEF Landed
<1>8. QueueInv'
  <2>1. \A k \in 1 .. h - 1 : enqh2Q'[k] = sent[(N + 1) + k]
    <3> TAKE k \in 1 .. h - 1
    <3>1. k + 1 \in 1 .. h /\ N + (k + 1) = (N + 1) + k
      BY <1>2
    <3> QED  BY <1>3, <1>4, <3>1
  <2>2. h - 1 <= L
    BY <1>2
  <2>3. Len(enqh2Q') = h - 1 /\ Len(sent') = L /\ Started' = S /\ Numbered' = N + 1
    BY <1>1, <1>2, <1>3, <1>7
  <2>4. Started' = Numbered' + (IF enqState' = 0 THEN 0 ELSE 1)
    <3>1. S = (N + 1) + 0
      BY ONLY <1>2
    <3>2. (IF enqState' = 0 THEN 0 ELSE 1) = 0
      BY <1>1
    <3> QED  BY <2>3, <3>1, <3>2
  <2>5. enqDataQ' = IF enqState' = 1 THEN <<sent'[Started']>> ELSE <<>>
    BY <1>1, <1>4
  <2> QED  BY <1>1, <1>4, <2>1, <2>2, <2>3, <2>4, <2>5 DEF QueueInv
<1>9. /\ SentInv' /\ UpInv(b)' /\ SlotsInv(b)' /\ ScanInv(b)' /\ TakenInv' /\ ResetInv'
      /\ UNCHANGED Reported
  BY <1>1, <1>7, MemoryStill
<1>10. WriteInv(b)'
  <2>1. \A k : Slot(b, k)' = Slot(b, k) /\ Body(k)' = Body(k) /\ Last(k)' = Last(k)
    BY <1>1 DEF Slot, Body, Last
  <2>2. ASSUME NEW k \in 1 .. d + 1, NEW m \in Msg
        PROVE  /\ G + k = 2 * m + 1 => enqDmaWriteQ'[k] = Body(m)
               /\ G + k = 2 * m + 2 => enqDmaWriteQ'[k] = Last(m)
    <3>1. CASE k \in 1 .. d
      BY <1>2, <1>6, <3>1 DEF Inv, RingInv, WriteInv
    <3>2. CASE k = d + 1
      <4>1. m \in Nat
        BY Lengths DEF Msg
      <4>2. G + k = 2 * N + 2
        BY ONLY <1>2, <3>2
      <4>3. (G + k = 2 * m + 2 => m = N) /\ G + k # 2 * m + 1
        BY <4>1, <4>2, Halves
      <4> QED  BY <1>6, <3>2, <4>3
    <3> QED  BY <3>1, <3>2
  <2>3. /\ enqOffset = Slot(b, Started) /\ Gone = 2 * Issued - writing.left
        /\ \A k \in 1 .. Len(wm00) : wm00[k] = Slot(b, Issued + (k - 1))
        /\ writing.left > 0 => writing.slot = Slot(b, Issued - 1)
    BY DEF Inv, RingInv, WriteInv
  <2> QED  BY <1>1, <1>2, <1>6, <1>7, <2>1, <2>2, <2>3 DEF WriteInv
<1>11. CreditInv'
  <2>1. enqIdx' = (N + 1) % IdxMod
    <3>1. N \in Int /\ 1 \in Int /\ IdxMod \in Nat \ {0}
      BY Lengths
    <3>2. ((N % IdxMod) + 1) % IdxMod = (N + 1) % IdxMod
      BY <3>1, InStep, Zenon
    <3> QED  BY <1>1, <1>5, <3>2 DEF Next32
  <2>2. \E R \in 0 .. Reported :
          /\ enqReceivedIdx = R % IdxMod /\ Started <= R + Slots
          /\ Path(0 .. Reported, down, R, Reported, Reports)
    BY <1>5 DEF Inv, CreditInv
  <2> QED  BY <1>1, <1>7, <1>9, <2>1, <2>2 DEF CreditInv, Reports, DownWord, Idx
<1> QED  BY <1>8, <1>9, <1>10, <1>11 DEF Inv, RingInv

(* issuedmaWrite: the write of the next message begins, in its slot.       *)
LEMMA IssuedmaWriteInv ==
  ASSUME TypeInv, NEW b \in SlotNo, Inv(b), issuedmaWrite
  PROVE  Inv(b)'
<1>1. /\ UNCHANGED <<start, recvVars, slots, down, up, enqReceivedIdx, enqIdx, enqOffset, enqState,
                     enq2Q, enqh2Q, enqDataQ, enqDmaWriteQ, msgs, sent>>
      /\ writing.left = 0 /\ wm00 # <<>> /\ wm00' = Tail(wm00)
      /\ writing' = [slot |-> Head(wm00), left |-> 2]
  BY DEF issuedmaWrite
<1>2. PICK S \in Nat, I \in Nat, G \in Nat, w \in Nat :
        /\ S = Started /\ I = Issued /\ G = Gone /\ w = Len(wm00)
        /\ I = S - w /\ G = 2 * I
  <2>1. /\ Started \in Nat /\ Issued \in Nat /\ Gone \in Nat /\ Gone = 2 * Issued - writing.left
    BY Counted DEF Inv, RingInv
  <2>2. Issued = Started - Len(wm00) /\ Len(wm00) \in Nat
    BY Counts, Lengths
  <2>3. Gone = 2 * Issued
    BY ONLY <1>1, <2>1
  <2> QED  BY <2>1, <2>2, <2>3
<1>3. /\ Len(wm00') = w - 1 /\ w > 0 /\ \A k \in 1 .. w - 1 : wm00'[k] = wm00[k + 1]
      /\ Head(wm00) = wm00[1]
  <2>1. wm00 \in Seq(SlotNo)
    BY DEF TypeInv, EnqTypes
  <2> QED  BY <1>1, <1>2, <2>1, TakenOut
<1>4. UNCHANGED <<Started, Numbered, Queued, Gone, Landed>> /\ Issued' = I + 1
  <2>1. UNCHANGED <<Started, Numbered>>
    BY <1>1 DEF Started, Numbered
  <2>2. UNCHANGED Queued
    BY <1>1, <2>1 DEF Queued
  <2>3. UNCHANGED Gone
    BY <1>1, <2>2 DEF Gone
  <2>4. Issued' = I + 1
    BY <1>2, <1>3, <2>1 DEF Issued
  <2> QED  BY <1>1, <2>1, <2>2, <2>3, <2>4 DEF Landed
<1>5. /\ SentInv' /\ UpInv(b)' /\ SlotsInv(b)' /\ ScanInv(b)' /\ TakenInv' /\ ResetInv'
      /\ UNCHANGED Reported
  BY <1>1, <1>4, MemoryStill
<1>6. QueueInv'
  BY <1>1, <1>4 DEF Inv, QueueInv
<1>7. CreditInv'
  BY <1>1, <1>4, <1>5, CreditStill DEF Inv
<1>8. WriteInv(b)'
  <2>1. \A k : Slot(b, k)' = Slot(b, k) /\ Body(k)' = Body(k) /\ Last(k)' = Last(k)
    BY <1>1 DEF Slot, Body, Last
  <2>2. /\ enqOffset = Slot(b, Started)
        /\ \A k \in 1 .. w : wm00[k] = Slot(b, I + (k - 1))
        /\ \A k \in 1 .. Len(enqDmaWriteQ), m \in Msg :
             /\ Gone + k = 2 * m + 1 => enqDmaWriteQ[k] = Body(m)
             /\ Gone + k = 2 * m + 2 => enqDmaWriteQ[k] = Last(m)
    BY <1>2 DEF Inv, RingInv, WriteInv
  <2>3. \A k \in 1 .. w - 1 : wm00'[k] = Slot(b, (I + 1) + (k - 1))
    <3> TAKE k \in 1 .. w - 1
    <3>1. k + 1 \in 1 .. w /\ I + ((k + 1) - 1) = (I + 1) + (k - 1)
      BY <1>2
    <3> QED  BY <1>3, <2>2, <3>1
  <2>4. writing'.slot = Slot(b, (I + 1) - 1) /\ writing'.left = 2
    <3>1. 1 \in 1 .. w /\ I + (1 - 1) = (I + 1) - 1
      BY <1>3
    <3>2. wm00[1] = Slot(b, I + (1 - 1))
      BY <2>2, <3>1
    <3> QED  BY <1>1, <1>3, <3>1, <3>2
  <2>5. Gone' = 2 * Issued' - writing'.left
    <3>1. G = 2 * (I + 1) - 2
      BY ONLY <1>2
    <3> QED  BY <1>2, <1>4, <2>4, <3>1
  <2>6. Issued' = I + 1 /\ Len(wm00') = w - 1 /\ enqOffset' = Slot(b, Started')
    BY <1>1, <1>3, <1>4, <2>2
  <2>7. \A k \in 1 .. Len(enqDmaWriteQ'), m \in Msg :
          /\ Gone' + k = 2 * m + 1 => enqDmaWriteQ'[k] = Body(m)
          /\ Gone' + k = 2 * m + 2 => enqDmaWriteQ'[k] = Last(m)
    BY <1>1, <1>4, <2>2
  <2>8. /\ \A k \in 1 .. Len(wm00') : wm00'[k] = Slot(b, Issued' + (k - 1))
        /\ writing'.slot = Slot(b, Issued' - 1)
    BY <2>3, <2>4, <2>6
  <2> QED  BY <2>1, <2>5, <2>6, <2>7, <2>8, Zenon DEF WriteInv
<1> QED  BY <1>5, <1>6, <1>7, <1>8 DEF Inv, RingInv

(* senddmaWriteData: the words and the writes are in the same order.       *)
LEMMA SenddmaWriteDataInv ==
  ASSUME TypeInv, NEW b \in SlotNo, Inv(b), senddmaWriteData
  PROVE  Inv(b)'
<1> DEFINE e == [slot |-> writing.slot, first |-> writing.left = 2, data |-> Head(enqDmaWriteQ)]
<1>1. /\ UNCHANGED <<start, recvVars, slots, down, enqReceivedIdx, enqIdx, enqOffset, enqState,
                     enq2Q, enqh2Q, enqDataQ, wm00, msgs, sent>>
      /\ writing.left > 0 /\ enqDmaWriteQ # <<>> /\ enqDmaWriteQ' = Tail(enqDmaWriteQ)
      /\ writing' = [writing EXCEPT !.left = @ - 1]
      /\ up' = Append(up, e)
  BY DEF senddmaWriteData
<1>2. PICK I \in Nat, G \in Nat, Q \in Nat, D \in Nat, d \in Nat, u \in Nat, left \in 1 .. 2 :
        /\ I = Issued /\ G = Gone /\ Q = Queued /\ D = Landed /\ d = Len(enqDmaWriteQ) /\ u = Len(up)
        /\ left = writing.left /\ G = 2 * I - left /\ G + d = Q /\ D + u = G
        /\ I > 0
  <2>1. /\ Issued \in Nat /\ Gone \in Nat /\ Queued \in Nat /\ Landed \in Nat
        /\ Gone = 2 * Issued - writing.left
    BY Counted DEF Inv, RingInv
  <2>2. Gone + Len(enqDmaWriteQ) = Queued /\ Landed + Len(up) = Gone
    BY Counts
  <2>3. writing.left \in 1 .. 2
    <3>1. writing.left \in 0 .. 2
      BY Lengths
    <3> QED  BY ONLY <1>1, <3>1
  <2>4. Issued > 0
    BY ONLY <2>1, <2>3
  <2> QED  BY <2>1, <2>2, <2>3, <2>4, Lengths
<1>3. G = 2 * I - left /\ G + d = Q /\ D + u = G /\ I > 0
  BY <1>2
<1>4. /\ Len(enqDmaWriteQ') = d - 1 /\ d > 0
      /\ \A k \in 1 .. d - 1 : enqDmaWriteQ'[k] = enqDmaWriteQ[k + 1]
      /\ Head(enqDmaWriteQ) = enqDmaWriteQ[1] /\ Head(enqDmaWriteQ) \in DmaWord
  <2>1. enqDmaWriteQ \in Seq(DmaWord)
    BY DEF TypeInv, EnqTypes
  <2>2. /\ Len(Tail(enqDmaWriteQ)) = d - 1 /\ d \in Nat \ {0}
        /\ \A k \in 1 .. d - 1 : Tail(enqDmaWriteQ)[k] = enqDmaWriteQ[k + 1]
        /\ Head(enqDmaWriteQ) = enqDmaWriteQ[1] /\ enqDmaWriteQ[1] \in DmaWord
    BY <1>1, <1>2, <2>1, TakenOut
  <2> QED  BY <1>1, <2>2
<1>5. /\ writing'.left = left - 1 /\ writing'.slot = writing.slot /\ writing.slot \in SlotNo
  <2>1. writing \in [slot : SlotNo, left : 0 .. 2]
    BY DEF TypeInv, EnqTypes
  <2> QED  BY <1>1, <1>2, <2>1
<1>6. /\ Len(up') = u + 1 /\ up'[u + 1] = e /\ \A k \in 1 .. u : up'[k] = up[k]
  <2>1. up \in Seq(UpWord)
    BY DEF TypeInv, ProgramTypes
  <2>2. e \in UpWord
    BY <1>4, <1>5 DEF UpWord
  <2> HIDE DEF e
  <2> QED  BY <1>1, <1>2, <2>1, <2>2, PutIn
<1>7. UNCHANGED <<Started, Numbered, Issued, Queued, Landed>> /\ Gone' = G + 1
  <2>1. UNCHANGED <<Started, Numbered, Issued>>
    BY <1>1 DEF Started, Numbered, Issued
  <2>2. UNCHANGED Queued
    BY <1>1, <2>1 DEF Queued
  <2>3. Gone' = G + 1
    BY <1>2, <1>4, <2>2 DEF Gone
  <2>4. Landed' = D
    BY <1>2, <1>6, <2>3 DEF Landed
  <2> QED  BY <1>2, <2>1, <2>2, <2>3, <2>4
<1>8. SentInv' /\ QueueInv'
  BY <1>1, <1>7 DEF Inv, SentInv, QueueInv
<1>9. SlotsInv(b)'
  BY <1>1, <1>7, SlotsMore
<1>10. ScanInv(b)' /\ TakenInv' /\ ResetInv' /\ UNCHANGED Reported
  <2>1. Landed' \in Int /\ Landed <= Landed'
    BY <1>2, <1>7
  <2>2. Started' <= Len(taken) + Slots
    BY <1>7 DEF Inv, TakenInv
  <2> QED  BY <1>1, <2>1, <2>2, ProgramStill
<1>11. CreditInv'
  BY <1>1, <1>7, <1>10, CreditStill DEF Inv
<1>12. \A k : Slot(b, k)' = Slot(b, k) /\ Body(k)' = Body(k) /\ Last(k)' = Last(k)
  BY <1>1 DEF Slot, Body, Last
<1>13. /\ enqOffset = Slot(b, Started) /\ writing.slot = Slot(b, I - 1)
       /\ \A k \in 1 .. Len(wm00) : wm00[k] = Slot(b, Issued + (k - 1))
       /\ \A k \in 1 .. d, m \in Msg :
            /\ G + k = 2 * m + 1 => enqDmaWriteQ[k] = Body(m)
            /\ G + k = 2 * m + 2 => enqDmaWriteQ[k] = Last(m)
  BY <1>1, <1>2 DEF Inv, RingInv, WriteInv
<1>14. WriteInv(b)'
  <2>1. ASSUME NEW k \in 1 .. d - 1, NEW m \in Msg
        PROVE  /\ (G + 1) + k = 2 * m + 1 => enqDmaWriteQ'[k] = Body(m)
               /\ (G + 1) + k = 2 * m + 2 => enqDmaWriteQ'[k] = Last(m)
    <3>1. PICK j \in 1 .. d : j = k + 1 /\ G + j = (G + 1) + k
      <4>1. k + 1 \in 1 .. d /\ G + (k + 1) = (G + 1) + k
        BY <1>2
      <4> QED  BY <4>1
    <3>2. enqDmaWriteQ'[k] = enqDmaWriteQ[j]
      BY <1>4, <3>1
    <3>3. /\ G + j = 2 * m + 1 => enqDmaWriteQ[j] = Body(m)
          /\ G + j = 2 * m + 2 => enqDmaWriteQ[j] = Last(m)
      BY <1>13
    <3> QED  BY <3>1, <3>2, <3>3
  <2>2. Gone' = 2 * Issued' - writing'.left
    <3>1. G + 1 = 2 * I - (left - 1)
      BY ONLY <1>3
    <3>2. Gone' = G + 1 /\ Issued' = I /\ writing'.left = left - 1
      BY <1>2, <1>5, <1>7
    <3> QED  BY <3>1, <3>2
  <2>3. /\ enqOffset' = Slot(b, Started') /\ writing'.slot = Slot(b, Issued' - 1)
        /\ \A k \in 1 .. Len(wm00') : wm00'[k] = Slot(b, Issued' + (k - 1))
    BY <1>1, <1>2, <1>5, <1>7, <1>13
  <2>4. \A k \in 1 .. Len(enqDmaWriteQ'), m \in Msg :
          /\ Gone' + k = 2 * m + 1 => enqDmaWriteQ'[k] = Body(m)
          /\ Gone' + k = 2 * m + 2 => enqDmaWriteQ'[k] = Last(m)
    BY <1>4, <1>7, <2>1
  <2> QED  BY <1>12, <2>2, <2>3, <2>4, Zenon DEF WriteInv
<1>15. UpInv(b)'
  <2>1. ASSUME NEW k \in 1 .. u + 1, NEW m \in Msg
        PROVE  /\ D + k = 2 * m + 1 => up'[k] = [slot |-> Slot(b, m), first |-> TRUE, data |-> Body(m)]
               /\ D + k = 2 * m + 2 => up'[k] = [slot |-> Slot(b, m), first |-> FALSE, data |-> Last(m)]
    <3>1. CASE k \in 1 .. u
      BY <1>2, <1>6, <3>1 DEF Inv, RingInv, UpInv
    <3>2. CASE k = u + 1
      <4>1. m \in Nat
        BY Lengths DEF Msg
      <4>2. D + k = G + 1
        BY ONLY <1>3, <3>2
      <4>3. /\ D + k = 2 * m + 1 => m = I - 1 /\ left = 2
            /\ D + k = 2 * m + 2 => m = I - 1 /\ left = 1
        <5>1. PICK j \in Nat : j = I - 1
          BY ONLY <1>3
        <5>2. CASE left = 1
          <6>1. D + k = 2 * j + 2
            BY ONLY <1>3, <4>2, <5>1, <5>2
          <6> QED  BY <4>1, <5>1, <5>2, <6>1, Halves
        <5>3. CASE left = 2
          <6>1. D + k = 2 * j + 1
            BY ONLY <1>3, <4>2, <5>1, <5>3
          <6> QED  BY <4>1, <5>1, <5>3, <6>1, Halves
        <5> QED  BY <1>2, <5>2, <5>3
      <4>4. 1 \in 1 .. d
        BY <1>4
      <4>5. e.slot = Slot(b, I - 1) /\ e.first = (left = 2) /\ e.data = enqDmaWriteQ[1]
        BY <1>2, <1>4, <1>13
      <4>6. D + k = 2 * m + 1 => up'[k] = [slot |-> Slot(b, m), first |-> TRUE, data |-> Body(m)]
        <5> SUFFICES ASSUME D + k = 2 * m + 1
                     PROVE  up'[k] = [slot |-> Slot(b, m), first |-> TRUE, data |-> Body(m)]
          OBVIOUS
        <5>1. enqDmaWriteQ[1] = Body(m)
          BY <1>13, <4>2, <4>4
        <5>2. (writing.left = 2) = TRUE
          BY <1>2, <4>3
        <5>3. writing.slot = Slot(b, m) /\ Head(enqDmaWriteQ) = Body(m)
          BY <1>4, <1>13, <4>3, <5>1
        <5>4. e = [slot |-> Slot(b, m), first |-> TRUE, data |-> Body(m)]
          BY <5>2, <5>3
        <5>5. up'[k] = e
          BY <1>6, <3>2
        <5> QED  BY <5>4, <5>5
      <4>7. D + k = 2 * m + 2 => up'[k] = [slot |-> Slot(b, m), first |-> FALSE, data |-> Last(m)]
        <5> SUFFICES ASSUME D + k = 2 * m + 2
                     PROVE  up'[k] = [slot |-> Slot(b, m), first |-> FALSE, data |-> Last(m)]
          OBVIOUS
        <5>1. enqDmaWriteQ[1] = Last(m)
          BY <1>13, <4>2, <4>4
        <5>2. (writing.left = 2) = FALSE
          <6>1. left = 1
            BY <4>3
          <6>2. writing.left = 1
            BY <1>2, <6>1
          <6> QED  BY ONLY <6>2
        <5>3. writing.slot = Slot(b, m) /\ Head(enqDmaWriteQ) = Last(m)
          BY <1>4, <1>13, <4>3, <5>1
        <5>4. e = [slot |-> Slot(b, m), first |-> FALSE, data |-> Last(m)]
          BY <5>2, <5>3
        <5>5. up'[k] = e
          BY <1>6, <3>2
        <5> QED  BY <5>4, <5>5
      <4> QED  BY <4>6, <4>7
    <3> QED  BY <3>1, <3>2
  <2>2. Landed' = D /\ Len(up') = u + 1 /\ 0 <= Landed'
    BY <1>2, <1>6, <1>7
  <2>3. \A k \in 1 .. Len(up'), m \in Msg :
          /\ Landed' + k = 2 * m + 1 =>
               up'[k] = [slot |-> Slot(b, m), first |-> TRUE, data |-> Body(m)]
          /\ Landed' + k = 2 * m + 2 =>
               up'[k] = [slot |-> Slot(b, m), first |-> FALSE, data |-> Last(m)]
    BY <2>1, <2>2
  <2> QED  BY <1>12, <2>2, <2>3, Zenon DEF UpInv
<1> QED  BY <1>8, <1>9, <1>10, <1>11, <1>14, <1>15 DEF Inv, RingInv

(* The word that comes to memory next, and what it writes.                 *)
LEMMA NextWord ==
  ASSUME TypeInv, NEW b \in SlotNo, Inv(b), up # <<>>
  PROVE  \E m \in Msg :
           /\ m + 1 <= Started /\ m + 1 <= Len(sent)
           /\ \/ Landed = 2 * m /\ Head(up) = [slot |-> Slot(b, m), first |-> TRUE, data |-> Body(m)]
              \/ Landed = 2 * m + 1 /\ Head(up) = [slot |-> Slot(b, m), first |-> FALSE, data |-> Last(m)]
<1>1. PICK D \in Nat, S \in Nat, u \in Nat, L \in Nat, M \in Nat :
        /\ D = Landed /\ S = Started /\ u = Len(up) /\ L = Len(sent) /\ M = MaxMsgs
        /\ D + u <= 2 * S /\ S <= L /\ L <= M
  <2>1. /\ Landed \in Nat /\ Started \in Nat /\ Gone <= Queued /\ Queued <= 2 * Started
        /\ Started <= Len(sent) /\ Len(sent) <= MaxMsgs /\ Gone \in Nat /\ Queued \in Nat
    BY Counted DEF Inv, RingInv
  <2>2. Landed + Len(up) = Gone
    BY Counts
  <2>3. Len(up) \in Nat /\ Len(sent) \in Nat /\ MaxMsgs \in Nat
    BY Lengths
  <2>4. Landed + Len(up) <= 2 * Started
    BY ONLY <2>1, <2>2
  <2> QED  BY <2>1, <2>3, <2>4
<1>2. u > 0 /\ Head(up) = up[1]
  <2>1. up \in Seq(UpWord)
    BY DEF TypeInv, ProgramTypes
  <2> QED  BY <1>1, <2>1, TakenOut
<1>3. PICK m \in Nat : D = 2 * m \/ D = 2 * m + 1
  <2>1. D \div 2 \in Nat /\ (D = 2 * (D \div 2) \/ D = 2 * (D \div 2) + 1)
    BY ONLY <1>1
  <2> QED  BY <2>1
<1>4. m + 1 <= S /\ m + 1 <= L /\ m \in 0 .. M
  BY ONLY <1>1, <1>2, <1>3
<1>5. m \in Msg
  BY <1>1, <1>4 DEF Msg
<1>6. 1 \in 1 .. Len(up)
  BY <1>1, <1>2
<1>7. /\ D + 1 = 2 * m + 1 => up[1] = [slot |-> Slot(b, m), first |-> TRUE, data |-> Body(m)]
      /\ D + 1 = 2 * m + 2 => up[1] = [slot |-> Slot(b, m), first |-> FALSE, data |-> Last(m)]
  BY <1>1, <1>5, <1>6 DEF Inv, RingInv, UpInv
<1> QED  BY <1>1, <1>2, <1>3, <1>4, <1>5, <1>7

(* The memory of the host after a word has come to it.                     *)
LEMMA SlotsLand ==
  ASSUME TypeInv, NEW b \in SlotNo, Inv(b), Land
  PROVE  SlotsInv(b)'
<1>1. /\ UNCHANGED <<start, sent>> /\ up # <<>> /\ up' = Tail(up)
      /\ slots' = LET w == Head(up) IN
                  IF w.first THEN [slots EXCEPT ![w.slot].word = w.data.val]
                  ELSE [slots EXCEPT ![w.slot].head = w.data.val, ![w.slot].idx = w.data.idx]
      /\ UNCHANGED <<enqState, enqh2Q, enqDmaWriteQ>>
  BY DEF Land, enqVars
<1>2. PICK m \in Msg :
           /\ m + 1 <= Started /\ m + 1 <= Len(sent)
           /\ \/ Landed = 2 * m /\ Head(up) = [slot |-> Slot(b, m), first |-> TRUE, data |-> Body(m)]
              \/ Landed = 2 * m + 1 /\ Head(up) = [slot |-> Slot(b, m), first |-> FALSE, data |-> Last(m)]
  BY <1>1, NextWord
<1>3. PICK D \in Nat : D = Landed /\ Landed' = D + 1
  <2>1. Landed \in Nat
    BY Counted DEF Inv, RingInv
  <2>2. Landed = Gone - Len(up) /\ Gone \in Int /\ Len(up) \in Nat
    BY Counts, Lengths DEF Landed
  <2>3. Len(up') = Len(up) - 1
    <3>1. up \in Seq(UpWord)
      BY DEF TypeInv, ProgramTypes
    <3> QED  BY <1>1, <3>1, TakenOut
  <2>4. Gone' = Gone
    BY <1>1 DEF Gone, Queued, Numbered
  <2>5. Landed' = Gone - (Len(up) - 1)
    BY <2>3, <2>4 DEF Landed
  <2>6. Landed' = Landed + 1
    BY ONLY <2>2, <2>5
  <2> QED  BY <2>1, <2>6
<1>4. /\ m \in Nat /\ Slots \in Nat \ {0} /\ MaxMsgs \in Nat
      /\ slots \in [SlotNo -> [word : Msg, head : Msg, idx : Idx]]
      /\ Slot(b, m) \in SlotNo /\ m \in Int
  <2>1. m \in Nat /\ m \in Int
    BY Lengths DEF Msg
  <2> QED  BY <2>1, Lengths, SlotNext DEF TypeInv, ProgramTypes
<1> DEFINE s == Slot(b, m)
<1>5. /\ sent[m + 1] = Val(m) /\ m % IdxMod = Num(m)
  BY <1>4 DEF Val, Num
<1>6. \A k : Slot(b, k)' = Slot(b, k) /\ Val(k)' = Val(k) /\ Num(k)' = Num(k)
  BY <1>1 DEF Slot, Val, Num
<1>7. ASSUME NEW k \in -Slots .. MaxMsgs, start # "clear"
      PROVE  /\ 2 * k < D /\ D <= 2 * (k + Slots) => slots[Slot(b, k)].word = Val(k)
             /\ 2 * k + 1 < D /\ D <= 2 * (k + Slots) + 1 =>
                  slots[Slot(b, k)].head = Val(k) /\ slots[Slot(b, k)].idx = Num(k)
  BY <1>3, <1>7 DEF Inv, RingInv, SlotsInv
<1>8. ASSUME NEW k \in -Slots .. MaxMsgs
      PROVE  /\ k \in Int /\ Slot(b, k) \in SlotNo
             /\ Slot(b, k) = s /\ k - m < Slots /\ m - k < Slots => k = m
  <2>1. k \in Int
    BY <1>4
  <2> QED  BY <1>4, <2>1, SlotNext
<1>9. CASE D = 2 * m
  <2>1. Head(up) = [slot |-> s, first |-> TRUE, data |-> Body(m)]
    <3>1. D # 2 * m + 1
      BY ONLY <1>4, <1>9
    <3> QED  BY <1>2, <1>3, <3>1
  <2>2. slots' = [slots EXCEPT ![s].word = sent[m + 1]]
    <3>1. Head(up).first = TRUE /\ Head(up).slot = s /\ Head(up).data.val = sent[m + 1]
      BY <2>1 DEF Body
    <3>2. slots' = [slots EXCEPT ![Head(up).slot].word = Head(up).data.val]
      BY <1>1, <3>1
    <3> QED  BY <3>1, <3>2
  <2> HIDE DEF s
  <2>3. /\ slots'[s].word = sent[m + 1]
        /\ \A x \in SlotNo : x # s => slots'[x].word = slots[x].word
        /\ \A x \in SlotNo : slots'[x].head = slots[x].head /\ slots'[x].idx = slots[x].idx
    BY <1>4, <2>2 DEF s
  <2>4. ASSUME NEW k \in -Slots .. MaxMsgs, start # "clear", 2 * k < D + 1, D + 1 <= 2 * (k + Slots)
        PROVE  slots'[Slot(b, k)].word = Val(k)
    <3>1. k \in Int
      BY <1>8
    <3>2. CASE k = m
      BY <1>5, <2>3, <3>2 DEF s
    <3>3. CASE k # m
      <4>1. k - m < Slots /\ m - k < Slots /\ 2 * k < D /\ D <= 2 * (k + Slots)
        BY ONLY <1>4, <1>9, <2>4, <3>1, <3>3
      <4>2. Slot(b, k) # s /\ Slot(b, k) \in SlotNo
        BY <1>8, <3>3, <4>1
      <4> QED  BY <1>7, <2>3, <2>4, <4>1, <4>2
    <3> QED  BY <3>2, <3>3
  <2>5. ASSUME NEW k \in -Slots .. MaxMsgs, start # "clear", 2 * k + 1 < D + 1,
               D + 1 <= 2 * (k + Slots) + 1
        PROVE  slots'[Slot(b, k)].head = Val(k) /\ slots'[Slot(b, k)].idx = Num(k)
    <3>1. k \in Int
      BY <1>8
    <3>2. 2 * k + 1 < D /\ D <= 2 * (k + Slots) + 1
      BY ONLY <1>4, <1>9, <2>5, <3>1
    <3> QED  BY <1>7, <1>8, <2>3, <2>5, <3>2
  <2> QED  BY <1>1, <1>3, <1>6, <2>4, <2>5 DEF SlotsInv
<1>10. CASE D = 2 * m + 1
  <2>1. Head(up) = [slot |-> s, first |-> FALSE, data |-> Last(m)]
    <3>1. D # 2 * m
      BY ONLY <1>4, <1>10
    <3> QED  BY <1>2, <1>3, <3>1
  <2>2. slots' = [slots EXCEPT ![s].head = sent[m + 1], ![s].idx = m % IdxMod]
    <3>1. /\ Head(up).first = FALSE /\ Head(up).slot = s
          /\ Head(up).data.val = sent[m + 1] /\ Head(up).data.idx = m % IdxMod
      BY <2>1 DEF Last
    <3>2. slots' = [slots EXCEPT ![Head(up).slot].head = Head(up).data.val,
                                 ![Head(up).slot].idx = Head(up).data.idx]
      BY <1>1, <3>1
    <3> QED  BY <3>1, <3>2
  <2> HIDE DEF s
  <2>3. /\ slots'[s].head = sent[m + 1] /\ slots'[s].idx = m % IdxMod
        /\ \A x \in SlotNo : x # s => slots'[x].head = slots[x].head /\ slots'[x].idx = slots[x].idx
        /\ \A x \in SlotNo : slots'[x].word = slots[x].word
    BY <1>4, <2>2 DEF s
  <2>4. ASSUME NEW k \in -Slots .. MaxMsgs, start # "clear", 2 * k < D + 1, D + 1 <= 2 * (k + Slots)
        PROVE  slots'[Slot(b, k)].word = Val(k)
    <3>1. k \in Int
      BY <1>8
    <3>2. 2 * k < D /\ D <= 2 * (k + Slots)
      BY ONLY <1>4, <1>10, <2>4, <3>1
    <3> QED  BY <1>7, <1>8, <2>3, <2>4, <3>2
  <2>5. ASSUME NEW k \in -Slots .. MaxMsgs, start # "clear", 2 * k + 1 < D + 1,
               D + 1 <= 2 * (k + Slots) + 1
        PROVE  slots'[Slot(b, k)].head = Val(k) /\ slots'[Slot(b, k)].idx = Num(k)
    <3>1. k \in Int
      BY <1>8
    <3>2. CASE k = m
      BY <1>5, <2>3, <3>2 DEF s
    <3>3. CASE k # m
      <4>1. k - m < Slots /\ m - k < Slots /\ 2 * k + 1 < D /\ D <= 2 * (k + Slots) + 1
        BY ONLY <1>4, <1>10, <2>5, <3>1, <3>3
      <4>2. Slot(b, k) # s /\ Slot(b, k) \in SlotNo
        BY <1>8, <3>3, <4>1
      <4> QED  BY <1>7, <2>3, <2>5, <4>1, <4>2
    <3> QED  BY <3>2, <3>3
  <2> QED  BY <1>1, <1>3, <1>6, <2>4, <2>5 DEF SlotsInv
<1> QED  BY <1>2, <1>3, <1>9, <1>10

(* Land: memory gets the words in the order they were sent.                *)
LEMMA LandInv ==
  ASSUME TypeInv, NEW b \in SlotNo, Inv(b), Land
  PROVE  Inv(b)'
<1>1. /\ UNCHANGED <<start, recvVars, down, enqReceivedIdx, enqIdx, enqOffset, enqState, enq2Q,
                     enqh2Q, enqDataQ, wm00, enqDmaWriteQ, writing, msgs, sent>>
      /\ up # <<>> /\ up' = Tail(up)
  BY DEF Land, enqVars
<1>2. PICK D \in Nat, u \in Nat : D = Landed /\ u = Len(up)
  BY Counted, Lengths DEF Inv, RingInv
<1>3. /\ Len(up') = u - 1 /\ u > 0 /\ \A k \in 1 .. u - 1 : up'[k] = up[k + 1]
  <2>1. up \in Seq(UpWord)
    BY DEF TypeInv, ProgramTypes
  <2> QED  BY <1>1, <1>2, <2>1, TakenOut
<1>4. UNCHANGED <<Started, Numbered, Issued, Queued, Gone>> /\ Landed' = D + 1
  <2>1. UNCHANGED <<Started, Numbered, Issued, Queued, Gone>>
    BY <1>1 DEF Started, Numbered, Issued, Queued, Gone
  <2>2. Landed' = Gone - (u - 1) /\ D = Gone - u /\ Gone \in Int
    BY <1>2, <1>3, <2>1, Counts DEF Landed
  <2>3. Landed' = D + 1
    BY ONLY <1>2, <2>2
  <2> QED  BY <2>1, <2>3
<1>5. SentInv' /\ QueueInv'
  BY <1>1, <1>4 DEF Inv, SentInv, QueueInv
<1>6. ScanInv(b)' /\ TakenInv' /\ ResetInv' /\ UNCHANGED Reported
  <2>1. Landed' \in Int /\ Landed <= Landed'
    BY <1>2, <1>4
  <2>2. Started' <= Len(taken) + Slots
    BY <1>4 DEF Inv, TakenInv
  <2> QED  BY <1>1, <2>1, <2>2, ProgramStill
<1>7. CreditInv'
  BY <1>1, <1>4, <1>6, CreditStill DEF Inv
<1>8. \A k : Slot(b, k)' = Slot(b, k) /\ Body(k)' = Body(k) /\ Last(k)' = Last(k)
  BY <1>1 DEF Slot, Body, Last
<1>9. WriteInv(b)'
  BY <1>1, <1>4, <1>8, Zenon DEF Inv, RingInv, WriteInv
<1>10. UpInv(b)'
  <2>1. ASSUME NEW k \in 1 .. u - 1, NEW m \in Msg
        PROVE  /\ (D + 1) + k = 2 * m + 1 =>
                    up'[k] = [slot |-> Slot(b, m), first |-> TRUE, data |-> Body(m)]
               /\ (D + 1) + k = 2 * m + 2 =>
                    up'[k] = [slot |-> Slot(b, m), first |-> FALSE, data |-> Last(m)]
    <3>1. k + 1 \in 1 .. u /\ D + (k + 1) = (D + 1) + k
      BY <1>2
    <3>2. /\ D + (k + 1) = 2 * m + 1 =>
                up[k + 1] = [slot |-> Slot(b, m), first |-> TRUE, data |-> Body(m)]
          /\ D + (k + 1) = 2 * m + 2 =>
                up[k + 1] = [slot |-> Slot(b, m), first |-> FALSE, data |-> Last(m)]
      BY <1>2, <3>1 DEF Inv, RingInv, UpInv
    <3> QED  BY <1>3, <3>1, <3>2
  <2>2. 0 <= Landed'
    BY <1>2, <1>4
  <2>3. \A k \in 1 .. Len(up'), m \in Msg :
          /\ Landed' + k = 2 * m + 1 =>
               up'[k] = [slot |-> Slot(b, m), first |-> TRUE, data |-> Body(m)]
          /\ Landed' + k = 2 * m + 2 =>
               up'[k] = [slot |-> Slot(b, m), first |-> FALSE, data |-> Last(m)]
    BY <1>3, <1>4, <2>1
  <2> QED  BY <1>8, <2>2, <2>3, Zenon DEF UpInv
<1>11. SlotsInv(b)'
  BY SlotsLand
<1> QED  BY <1>5, <1>6, <1>7, <1>9, <1>10, <1>11 DEF Inv, RingInv

(* What a start of the program finds: the FPGA idle, wherever its ring is. *)
Fresh ==
  /\ TypeInv
  /\ start = "clear" /\ rpc = "call" /\ i = 0 /\ found = FALSE /\ recvd = 0
  /\ nextrecvidx = 0 /\ nextrecvoff = 0 /\ recvList = <<>>
  /\ sent = <<>> /\ taken = <<>> /\ received = <<>> /\ up = <<>>
  /\ enqState = 0 /\ enq2Q = <<>> /\ enqh2Q = <<>> /\ enqDataQ = <<>> /\ wm00 = <<>>
  /\ enqDmaWriteQ = <<>> /\ writing.left = 0

(* Such a state satisfies the invariant, with the ring where it is,        *)
LEMMA FreshInv == Fresh => SomeInv
<1> SUFFICES ASSUME Fresh PROVE SomeInv
  OBVIOUS
<1>1. /\ TypeInv /\ enqOffset \in SlotNo /\ msgs \in Msg /\ Slots \in Nat \ {0} /\ IdxMod \in Nat \ {0}
      /\ MaxMsgs \in Nat
  BY Lengths DEF Fresh, TypeInv, EnqTypes
<1>2. /\ Len(sent) = 0 /\ Len(taken) = 0 /\ Len(received) = 0 /\ Len(recvList) = 0 /\ Len(up) = 0
      /\ Len(enq2Q) = 0 /\ Len(enqh2Q) = 0 /\ Len(wm00) = 0 /\ Len(enqDmaWriteQ) = 0
  BY DEF Fresh
<1>3. /\ Started = 0 /\ Numbered = 0 /\ Issued = 0 /\ Queued = 0 /\ Gone = 0 /\ Landed = 0
  <2>1. Started = 0 /\ Numbered = 0
    BY <1>2 DEF Started, Numbered
  <2>2. Issued = 0 /\ Queued = 0
    <3>1. Issued = 0
      BY <1>2, <2>1 DEF Issued
    <3>2. enqState = 0
      BY DEF Fresh
    <3> QED  BY <2>1, <3>1, <3>2 DEF Queued
  <2>3. Gone = 0
    BY <1>2, <2>2 DEF Gone
  <2> QED  BY <1>2, <2>1, <2>2, <2>3 DEF Landed
<1>4. SentInv
  BY <1>1, <1>2 DEF SentInv, Msg
<1>5. QueueInv
  BY <1>2, <1>3 DEF QueueInv, Fresh
<1>6. TakenInv
  BY <1>1, <1>2, <1>3 DEF TakenInv, Fresh
<1>7. ResetInv
  BY DEF ResetInv, Fresh
<1>8. CreditInv
  BY DEF CreditInv, Resetting, Fresh
<1>9. WriteInv(enqOffset)
  <2>1. enqOffset = Slot(enqOffset, Started)
    BY <1>1, <1>3, SlotNext
  <2> QED  BY <1>2, <1>3, <2>1 DEF WriteInv, Fresh
<1>10. UpInv(enqOffset)
  BY <1>2, <1>3 DEF UpInv
<1>11. SlotsInv(enqOffset)
  BY DEF SlotsInv, Fresh
<1>12. ScanInv(enqOffset)
  <2>1. 0 \in Int /\ 0 \in 0 .. IdxMod - 1 /\ 0 \in 0 .. Slots - 1
    BY <1>1
  <2>2. 0 % IdxMod = 0 /\ 0 % Slots = 0
    BY <1>1, <2>1, Modulo, Zenon
  <2>3. (Len(taken) - recvd) % Slots = 0
    BY <1>2, <2>2 DEF Fresh
  <2> QED  BY <1>2, <2>2, <2>3 DEF ScanInv, Fresh
<1>13. Inv(enqOffset)
  BY <1>4, <1>5, <1>6, <1>7, <1>8, <1>9, <1>10, <1>11, <1>12 DEF Inv, RingInv
<1> QED  BY <1>1, <1>13 DEF SomeInv

(* as does the first state,                                                *)
LEMMA InvStart == Init => SomeInv
<1>1. Init => Fresh
  BY TypeStart DEF Init, Fresh
<1> QED  BY <1>1, FreshInv

(* and a restart that finds nothing under way makes one.                   *)
LEMMA RestartInv ==
  ASSUME TypeInv, TypeInv', NEW b \in SlotNo, Inv(b), Restart, ~EarlyMessages
  PROVE  SomeInv'
<1>1. /\ start' = "clear" /\ rpc' = "call" /\ i' = 0 /\ found' = FALSE /\ recvd' = 0
      /\ nextrecvidx' = 0 /\ nextrecvoff' = 0 /\ recvList' = <<>>
      /\ sent' = <<>> /\ taken' = <<>> /\ received' = <<>>
      /\ up = <<>> /\ enq2Q = <<>> /\ enqh2Q = <<>> /\ enqDmaWriteQ = <<>> /\ enqState = 0
      /\ UNCHANGED <<up, enqState, enq2Q, enqh2Q, enqDataQ, wm00, enqDmaWriteQ, writing>>
  BY DEF Restart, InFlight
<1>2. enqDataQ = <<>>
  BY <1>1 DEF Inv, QueueInv
<1>3. Len(wm00) = 0 /\ writing.left = 0
  <2>1. /\ Gone = 2 * Issued - writing.left /\ Gone \in Nat /\ Queued \in Nat /\ Numbered \in Nat
        /\ Issued \in Nat /\ Started \in Nat /\ Started = Numbered
    BY <1>1, Counted DEF Inv, RingInv
  <2>2. /\ Issued = Started - Len(wm00) /\ Queued = 2 * Numbered
        /\ Gone + Len(enqDmaWriteQ) = Queued
    BY <1>1, Counts
  <2>3. Len(wm00) \in Nat /\ writing.left \in 0 .. 2 /\ Len(enqDmaWriteQ) = 0
    BY <1>1, Lengths
  <2> QED  BY ONLY <2>1, <2>2, <2>3
<1>4. wm00 = <<>>
  <2>1. wm00 \in Seq(SlotNo)
    BY DEF TypeInv, EnqTypes
  <2> QED  BY <1>3, <2>1, EmptySeq
<1>5. Fresh'
  BY <1>1, <1>2, <1>3, <1>4 DEF Fresh
<1>6. Fresh' => SomeInv'
  BY FreshInv, PTL
<1> QED  BY <1>5, <1>6

(* The steps of messages to the FPGA do not touch those to the host.       *)
LEMMA OtherInv ==
  ASSUME TypeInv, NEW b \in SlotNo, Inv(b),
         UNCHANGED <<start, recvVars, slots, down, up, enqReceivedIdx, enqVars>>
  PROVE  Inv(b)'
<1>1. /\ SentInv' /\ QueueInv' /\ WriteInv(b)' /\ UpInv(b)'
      /\ UNCHANGED <<Started, Numbered, Issued, Queued, Gone, Landed, sent, msgs, enqIdx>>
  BY FpgaStill DEF Inv, RingInv, enqVars
<1>2. /\ SentInv' /\ UpInv(b)' /\ SlotsInv(b)' /\ ScanInv(b)' /\ TakenInv' /\ ResetInv'
      /\ UNCHANGED Reported
  BY <1>1, MemoryStill
<1>3. CreditInv'
  BY <1>1, <1>2, CreditStill DEF Inv
<1> QED  BY <1>1, <1>2, <1>3 DEF Inv, RingInv

(* Every step keeps the invariant.                                         *)
LEMMA InvStep ==
  ASSUME TypeInv, SomeInv, [Next]_vars, ~EarlyMessages
  PROVE  SomeInv'
<1>1. PICK b \in SlotNo : Inv(b)
  BY DEF SomeInv
<1>2. SlotNo' = SlotNo
  BY DEF SlotNo
<1>3. CASE Construct
  BY <1>1, <1>2, <1>3, ConstructInv DEF SomeInv
<1>4. CASE Receiver
  BY <1>1, <1>2, <1>4, RecvWordInv, ScanSlotInv, CopySlotInv, EndScanInv DEF SomeInv, Receiver
<1>5. CASE sendReg
  BY <1>1, <1>2, <1>5, SendRegInv DEF SomeInv
<1>6. CASE procFC
  BY <1>1, <1>2, <1>6, ProcFCInv DEF SomeInv
<1>7. CASE enq
  BY <1>1, <1>2, <1>7, EnqInv DEF SomeInv
<1>8. CASE startEnqPacket
  BY <1>1, <1>2, <1>8, StartEnqPacketInv DEF SomeInv
<1>9. CASE sendEnqPacket
  BY <1>1, <1>2, <1>9, SendEnqPacketInv DEF SomeInv
<1>10. CASE sendEnqIdx
  BY <1>1, <1>2, <1>10, SendEnqIdxInv DEF SomeInv
<1>11. CASE issuedmaWrite
  BY <1>1, <1>2, <1>11, IssuedmaWriteInv DEF SomeInv
<1>12. CASE senddmaWriteData
  BY <1>1, <1>2, <1>12, SenddmaWriteDataInv DEF SomeInv
<1>13. CASE Land
  BY <1>1, <1>2, <1>13, LandInv DEF SomeInv
<1>14. CASE Restart
  BY <1>1, <1>14, RestartInv, TypeStep
<1>15. CASE startSend \/ userWriteReq \/ deq \/ UNCHANGED vars
  <2>1. UNCHANGED <<start, recvVars, slots, down, up, enqReceivedIdx, enqVars>>
    BY <1>15 DEF startSend, userWriteReq, deq, vars
  <2>2. Inv(b)'
    BY <1>1, <2>1, OtherInv
  <2> QED  BY <1>2, <2>2 DEF SomeInv
<1> QED
  BY <1>3, <1>4, <1>5, <1>6, <1>7, <1>8, <1>9, <1>10, <1>11, <1>12, <1>13, <1>14, <1>15
  DEF Next, Rules

-----------------------------------------------------------------------------
(* What the invariant says of a state.                                     *)
LEMMA TypesFollow ==
  ASSUME TypeInv, SomeInv
  PROVE  TypeOK
<1>1. PICK b \in SlotNo : Inv(b)
  BY DEF SomeInv
<1>2. Len(recvList) <= Slots /\ recvd \in 0 .. Slots
  <2>1. /\ Len(recvList) <= Slots /\ (rpc # "call" => Len(recvList) = recvd)
        /\ (rpc = "call" => recvd = 0)
    BY <1>1 DEF Inv, RingInv, TakenInv, ScanInv
  <2>2. Len(recvList) \in Nat /\ recvd \in Nat /\ Slots \in Nat
    BY Lengths
  <2> QED  BY <2>1, <2>2
<1>3. Len(up) <= 2 * Slots
  <2>1. /\ Landed \in Nat /\ Started \in Nat /\ Gone <= Queued /\ Queued <= 2 * Started
        /\ Gone \in Nat /\ Queued \in Nat
        /\ 2 * Len(taken) <= Landed /\ Started <= Len(taken) + Slots
    BY <1>1, Counted DEF Inv, RingInv
  <2>2. Landed + Len(up) = Gone
    BY Counts
  <2>3. Len(up) \in Nat /\ Len(taken) \in Nat /\ Slots \in Nat
    BY Lengths
  <2> QED  BY ONLY <2>1, <2>2, <2>3
<1>4. Len(enqDataQ) <= 1
  <2>1. enqDataQ = IF enqState = 1 THEN <<sent[Started]>> ELSE <<>>
    BY <1>1 DEF Inv, QueueInv
  <2>2. CASE enqState = 1
    <3>1. PICK x : x = sent[Started]
      OBVIOUS
    <3>2. Len(<<x>>) = 1
      OBVIOUS
    <3> QED  BY <2>1, <2>2, <3>1, <3>2
  <2>3. CASE enqState # 1
    BY <2>1, <2>3
  <2> QED  BY <2>2, <2>3
<1>5. down \in Seq([reg : {0, 1, 2, 3, 4, 16, 17}, val : Nat])
  <2>1. DownWord \subseteq [reg : {0, 1, 2, 3, 4, 16, 17}, val : Nat]
    BY DEF DownWord, Regs, Counters
  <2>2. down \in Seq(DownWord)
    BY DEF TypeInv, ProgramTypes
  <2>3. Len(down) \in Nat /\ \A k \in 1 .. Len(down) : down[k] \in DownWord
    BY <2>2, LenProperties, ElementOfSeq
  <2>4. down = [k \in 1 .. Len(down) |-> down[k]]
    BY <2>2
  <2>5. down \in [1 .. Len(down) -> [reg : {0, 1, 2, 3, 4, 16, 17}, val : Nat]]
    BY <2>1, <2>3, <2>4
  <2> QED  BY <2>3, <2>5, SeqDef
<1> QED  BY <1>2, <1>3, <1>4, <1>5 DEF TypeOK, TypeInv, ProgramTypes, EnqTypes, IoTypes

(* What was taken and returned is what was sent.                           *)
LEMMA OrderFollows ==
  ASSUME TypeInv, SomeInv
  PROVE  InOrder
<1>1. PICK b \in SlotNo : Inv(b)
  BY DEF SomeInv
<1>2. /\ Len(taken) <= Started /\ Started <= Len(sent) /\ Started \in Nat
  BY <1>1, Counted DEF Inv, RingInv
<1>3. /\ Len(taken) \in Nat /\ Len(sent) \in Nat /\ Len(received) \in Nat /\ Len(recvList) \in Nat
  BY Lengths
<1>4. DOMAIN taken = 1 .. Len(taken) /\ DOMAIN received = 1 .. Len(received)
  <2>1. taken \in Seq(Copied) /\ received \in Seq(Copied)
    BY DEF TypeInv, ProgramTypes
  <2> QED  BY <2>1, LenProperties
<1>5. /\ \A k \in 1 .. Len(taken) : taken[k] = Whole(sent[k])
      /\ Len(received) + Len(recvList) = Len(taken)
      /\ \A k \in 1 .. Len(received) : received[k] = taken[k]
  BY <1>1 DEF Inv, TakenInv
<1>6. Len(taken) <= Len(sent) /\ Len(received) <= Len(taken)
  BY ONLY <1>2, <1>3, <1>5
<1> QED  BY <1>4, <1>5, <1>6 DEF InOrder

(* No message is 0, and no two are the same.                               *)
LEMMA MessagesDiffer ==
  ASSUME TypeInv, NEW b, Inv(b), NEW k \in Int, k < 0 \/ k + 1 \in 1 .. Len(taken)
  PROVE  Val(k) \notin Untaken
<1>1. /\ Len(sent) <= msgs /\ \A n \in 1 .. Len(sent) : sent[n] = (msgs - Len(sent)) + n
  BY DEF Inv, SentInv
<1>2. /\ Len(taken) \in Nat /\ Len(sent) \in Nat /\ msgs \in Nat
  BY Lengths DEF Msg
<1>3. Len(taken) <= Len(sent)
  <2>1. Len(taken) <= Started /\ Started <= Len(sent) /\ Started \in Nat
    BY Counted DEF Inv, RingInv
  <2> QED  BY ONLY <1>2, <2>1
<1>4. ASSUME NEW n \in Len(taken) + 1 .. Len(sent)
      PROVE  Val(k) # sent[n]
  <2>1. n \in 1 .. Len(sent) /\ n > 0
    BY <1>2, <1>4
  <2>2. sent[n] = (msgs - Len(sent)) + n
    BY <1>1, <2>1
  <2>3. CASE k < 0
    <3>1. Val(k) = 0
      BY <2>3 DEF Val
    <3> QED  BY <1>1, <1>2, <2>1, <2>2, <3>1
  <2>4. CASE ~(k < 0)
    <3>1. k + 1 \in 1 .. Len(sent) /\ k + 1 < n
      BY <1>2, <1>3, <1>4, <2>4
    <3>2. Val(k) = (msgs - Len(sent)) + (k + 1)
      BY <1>1, <2>4, <3>1 DEF Val
    <3> QED  BY <1>2, <2>2, <3>1, <3>2
  <2> QED  BY <2>3, <2>4
<1> QED  BY <1>4 DEF Untaken

(* A word that comes to memory replaces one of a message taken.            *)
LEMMA NoneOverwritten ==
  ASSUME TypeInv, SomeInv, [Next]_vars,
         NEW s \in SlotNo, NEW f \in {"word", "head"}, slots'[s][f] # slots[s][f]
  PROVE  slots[s][f] \notin Untaken
<1>1. PICK b \in SlotNo : Inv(b)
  BY DEF SomeInv
<1>2. slots' # slots
  OBVIOUS
<1>3. CASE Construct
  <2>1. start = "clear"
    BY <1>2, <1>3 DEF Construct
  <2>2. Len(sent) = 0 /\ Len(taken) = 0
    BY <1>1, <2>1, NothingSent DEF Resetting
  <2>3. Untaken = {}
    BY <2>2 DEF Untaken
  <2> QED  BY <2>3
<1>4. CASE Land
  <2>1. /\ up # <<>>
        /\ slots' = LET w == Head(up) IN
                  IF w.first THEN [slots EXCEPT ![w.slot].word = w.data.val]
                  ELSE [slots EXCEPT ![w.slot].head = w.data.val, ![w.slot].idx = w.data.idx]
    BY <1>4 DEF Land
  <2>2. PICK m \in Msg :
           /\ m + 1 <= Started /\ m + 1 <= Len(sent)
           /\ \/ Landed = 2 * m /\ Head(up) = [slot |-> Slot(b, m), first |-> TRUE, data |-> Body(m)]
              \/ Landed = 2 * m + 1 /\ Head(up) = [slot |-> Slot(b, m), first |-> FALSE, data |-> Last(m)]
    BY <1>1, <2>1, NextWord
  <2>3. /\ m \in Nat /\ m <= MaxMsgs /\ Slots \in Nat \ {0} /\ MaxMsgs \in Nat
        /\ Started \in Nat /\ Len(taken) \in Nat /\ Started <= Len(taken) + Slots
        /\ slots \in [SlotNo -> [word : Msg, head : Msg, idx : Idx]]
    <3>1. Started \in Nat /\ Started <= Len(taken) + Slots
      BY <1>1, Counted DEF Inv, RingInv
    <3>2. m \in Nat /\ m <= MaxMsgs
      BY Lengths DEF Msg
    <3> QED  BY <3>1, <3>2, Lengths DEF TypeInv, ProgramTypes
  <2>4. start # "clear"
    <3>1. Len(up) # 0
      <4>1. up \in Seq(UpWord)
        BY DEF TypeInv, ProgramTypes
      <4> QED  BY <2>1, <4>1, EmptySeq
    <3> QED  BY <1>1, <3>1, NothingSent DEF Resetting
  <2>5. PICK k \in Int : k = m - Slots
    BY <2>3
  <2>6. k \in -Slots .. MaxMsgs /\ (k < 0 \/ k + 1 \in 1 .. Len(taken)) /\ m = k + Slots
    BY ONLY <2>2, <2>3, <2>5
  <2>7. Slot(b, m) = Slot(b, k) /\ Val(k) \notin Untaken
    <3>1. m \in Int
      BY <2>3
    <3> QED  BY <1>1, <2>5, <2>6, <3>1, SlotNext, MessagesDiffer
  <2>8. /\ 2 * k < Landed /\ Landed <= 2 * (k + Slots) => slots[Slot(b, k)].word = Val(k)
        /\ 2 * k + 1 < Landed /\ Landed <= 2 * (k + Slots) + 1 => slots[Slot(b, k)].head = Val(k)
    BY <1>1, <2>4, <2>6 DEF Inv, RingInv, SlotsInv
  <2>9. CASE Landed = 2 * m /\ Head(up) = [slot |-> Slot(b, m), first |-> TRUE, data |-> Body(m)]
    <3>1. slots' = [slots EXCEPT ![Slot(b, m)].word = sent[m + 1]]
      <4>1. Head(up).first = TRUE /\ Head(up).slot = Slot(b, m) /\ Head(up).data.val = sent[m + 1]
        BY <2>9 DEF Body
      <4>2. slots' = [slots EXCEPT ![Head(up).slot].word = Head(up).data.val]
        BY <2>1, <4>1
      <4> QED  BY <4>1, <4>2
    <3>2. s = Slot(b, m) /\ f = "word"
      BY <2>3, <3>1
    <3>3. slots[Slot(b, k)].word = Val(k)
      <4>1. 2 * k < Landed /\ Landed <= 2 * (k + Slots)
        BY ONLY <2>3, <2>5, <2>9
      <4> QED  BY <2>8, <4>1
    <3> QED  BY <2>7, <3>2, <3>3
  <2>10. CASE Landed = 2 * m + 1 /\ Head(up) = [slot |-> Slot(b, m), first |-> FALSE, data |-> Last(m)]
    <3>1. slots' = [slots EXCEPT ![Slot(b, m)].head = sent[m + 1], ![Slot(b, m)].idx = m % IdxMod]
      <4>1. /\ Head(up).first = FALSE /\ Head(up).slot = Slot(b, m)
            /\ Head(up).data.val = sent[m + 1] /\ Head(up).data.idx = m % IdxMod
        BY <2>10 DEF Last
      <4>2. slots' = [slots EXCEPT ![Head(up).slot].head = Head(up).data.val,
                                   ![Head(up).slot].idx = Head(up).data.idx]
        BY <2>1, <4>1
      <4> QED  BY <4>1, <4>2
    <3>2. s = Slot(b, m) /\ f = "head"
      BY <2>3, <3>1
    <3>3. slots[Slot(b, k)].head = Val(k)
      <4>1. 2 * k + 1 < Landed /\ Landed <= 2 * (k + Slots) + 1
        BY ONLY <2>3, <2>5, <2>10
      <4> QED  BY <2>8, <4>1
    <3> QED  BY <2>7, <3>2, <3>3
  <2> QED  BY <2>2, <2>9, <2>10
<1>5. Construct \/ Land
  BY <1>2 DEF Next, vars, Receiver, recvWord, scanSlot, copySlot, endScan, startSend, sendReg, enq,
         deq, Restart, Rules, procFC, userWriteReq, startEnqPacket, sendEnqPacket, sendEnqIdx,
         issuedmaWrite, senddmaWriteData
<1> QED  BY <1>3, <1>4, <1>5

-----------------------------------------------------------------------------
(* If user logic waits for the constructor, the receiver's place and the   *)
(* offset of the ring stay in the page, every number keeps its width, and  *)
(* no more than two words of each slot are under way.                      *)
THEOREM RingTypes ==
  ASSUME ~EarlyMessages
  PROVE  Spec => []TypeOK
<1>1. TypeInv /\ SomeInv /\ [Next]_vars => TypeInv' /\ SomeInv'
  BY TypeStep, InvStep
<1>2. Init => TypeInv /\ SomeInv
  BY TypeStart, InvStart
<1>3. TypeInv /\ SomeInv => TypeOK
  BY TypesFollow
<1> QED  BY <1>1, <1>2, <1>3, PTL DEF Spec

(* If user logic waits for the constructor, recvWord returns the messages  *)
(* given to enq since the program started, in their order and each with    *)
(* its own header, through every wrap of the numbers and restart.          *)
THEOREM MessagesInOrder ==
  ASSUME ~EarlyMessages
  PROVE  Spec => []InOrder
<1>1. TypeInv /\ SomeInv /\ [Next]_vars => TypeInv' /\ SomeInv'
  BY TypeStep, InvStep
<1>2. Init => TypeInv /\ SomeInv
  BY TypeStart, InvStart
<1>3. TypeInv /\ SomeInv => InOrder
  BY OrderFollows
<1> QED  BY <1>1, <1>2, <1>3, PTL DEF Spec

(* If user logic waits for the constructor, no step writes over a message  *)
(* in a slot that the program has not copied: startEnqPacket never has     *)
(* more credit than the program has left slots free, however late the      *)
(* reports are, and between the two resets of the constructor.             *)
THEOREM UntakenStays ==
  ASSUME ~EarlyMessages
  PROVE  Spec => NotOverwritten
<1>1. TypeInv /\ SomeInv /\ [Next]_vars => TypeInv' /\ SomeInv'
  BY TypeStep, InvStep
<1>2. Init => TypeInv /\ SomeInv
  BY TypeStart, InvStart
<1>3. TypeInv /\ SomeInv /\ [Next]_vars =>
        [\A s \in SlotNo : \A f \in {"word", "head"} :
            slots'[s][f] # slots[s][f] => slots[s][f] \notin Untaken]_vars
  BY NoneOverwritten
<1> QED  BY <1>1, <1>2, <1>3, PTL DEF Spec, NotOverwritten
=============================================================================
