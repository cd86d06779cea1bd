----------------------------- MODULE HostDmaProofs -----------------------------
(***************************************************************************)
(* Theorems about HostDma, for every set of threads and of calls within    *)
(* the DRAM, every size of pages and of the DMA buffer and every depth of  *)
(* the queues that the assumptions of HostDma allow.                       *)
(***************************************************************************)
EXTENDS HostDma, SequenceTheorems, WellFoundedInduction, TLAPS

(* A queue takes a state a to a state b, one entry after the other, by     *)
(* moves <<state, entry, state>> of M.                                     *)
Path(S, q, a, b, M) ==
  \E st \in [0 .. Len(q) -> S] :
    /\ st[0] = a /\ st[Len(q)] = b
    /\ \A k \in 1 .. Len(q) : <<st[k - 1], q[k], st[k]>> \in M

MemCells == 0 .. FpgaPages * PageCells - 1
Answer(k) == "count" \in DOMAIN up[k]

-----------------------------------------------------------------------------
(* Where a copy is: what its loop has done of which chunk.                 *)
Passes(r) == Chunks(Pages(r.len))
Front(r, j) == Least(j * HalfPages, Pages(r.len))   \* pages before chunk j
LoopInv(c) ==
  /\ c.req \in Calls \cup {NoCall} /\ c.n = Passes(c.req)
  /\ c.i \in 0 .. c.n
  /\ c.at = FirstPage(c.req.at) + Front(c.req, c.i) /\ c.left = Pages(c.req.len) - Front(c.req, c.i)
  /\ IF c.req.op = "from"
     THEN /\ c.done = (IF c.i = 0 THEN 0 ELSE Front(c.req, c.i - 1)) * PageCells
          /\ c.last = (IF c.i = 0 THEN 0 ELSE Front(c.req, c.i) - Front(c.req, c.i - 1))
     ELSE c.done = Front(c.req, c.i) * PageCells /\ c.last = 0
  /\ c.seen \in Nat

InLoop(t) == pc[t] \in {"chunk", "arguments", "command"}
Loops ==
  \A t \in Threads :
    /\ LoopInv(call[t])
    /\ call[t].req = NoCall <=> (pc[t] = "idle" \/ inst # "ready")
    /\ InLoop(t) => call[t].i < call[t].n
    /\ pc[t] = "lock" => call[t].i = 0

(* One thread runs: the constructor's, then the one that has the mutex.    *)
Alone ==
  /\ mutex # None => inst = "ready" /\ pc[mutex] \notin {"idle", "lock"}
  /\ inst = "none" => \A t \in Threads : pc[t] = "idle"
  /\ \A t \in Threads :
       /\ pc[t] = "lock" => inst = "ready"
       /\ pc[t] \notin {"idle", "lock"} =>
            IF inst = "ready" THEN t = mutex
            ELSE pc[t] \in {"poll", "load"} /\ \A s \in Threads : s # t => pc[s] = "idle"

(* An answer belongs to the one load that waits for it.                    *)
OneAnswer ==
  /\ \A k \in 1 .. Len(up) : Answer(k) => pc[up[k].thread] = "load"
  /\ \A k, l \in 1 .. Len(up) : Answer(k) /\ Answer(l) => k = l

(* A command leaves its half of the buffer, and the DRAM, no way out.      *)
Fits(d) ==
  /\ d.host \in {0, HalfPages} /\ d.pages <= HalfPages /\ d.fpga + d.pages <= FpgaPages
Args == [host : Nat, fpga : Nat]
Words == {"host", "fpga", "to", "from"} \X Nat
ArgMoves ==
  {m \in Args \X Words \X Args :
     LET w == m[2] IN
       /\ w[1] = "host" => m[3] = [m[1] EXCEPT !.host = w[2]]
       /\ w[1] = "fpga" => m[3] = [m[1] EXCEPT !.fpga = w[2]]
       /\ w[1] \in {"to", "from"} =>
            m[3] = m[1] /\ Fits([op |-> w[1], host |-> m[1].host, fpga |-> m[1].fpga, pages |-> w[2]])}
ArgsOf(t, a) == pc[t] = "command" => a = [host |-> HalfPage(call[t].i), fpga |-> call[t].at]
CommandsFit ==
  /\ \A k \in 1 .. Len(dmaCmdQ) : Fits(dmaCmdQ[k])
  /\ \E a \in Args : /\ Path(Args, down, [host |-> hostMemTemp, fpga |-> fpgaMemTemp], a, ArgMoves)
                     /\ \A t \in Threads : ArgsOf(t, a)

BurstFits(b) == b.at + b.left <= FpgaPages * PageCells
BurstsFit ==
  /\ \A k \in 1 .. Len(dmaReadWordCntQ) : BurstFits(dmaReadWordCntQ[k])
  /\ \A k \in 1 .. Len(dramReadWordCntQ) : BurstFits(dramReadWordCntQ[k])
  /\ dramWrite.left > 0 => BurstFits(dramWrite)
  /\ dramRead.left > 0 => BurstFits(dramRead)
  /\ memReadLeft > 0 => hostMemOff + memReadLeft <= 2 * HalfCells
  /\ memWriteLeft > 0 => hostMemOff + memWriteLeft <= 2 * HalfCells


-----------------------------------------------------------------------------
(* The types, by what a step changes together.                             *)
Local == [req : Requests, at : Nat, left : Nat, i : Nat, n : Nat,
          done : Nat, last : Nat, seen : Nat]
HostTypes ==
  /\ mutex \in Threads \cup {None}
  /\ pc \in [Threads -> {"idle", "lock", "chunk", "arguments", "command", "poll", "load", "seen"}]
  /\ call \in [Threads -> Local]
  /\ inst \in {"none", "write", "read", "ready"} /\ wTotal \in Nat /\ rTotal \in Nat
  /\ user = [t \in Threads |-> user[t]] /\ result = [t \in Threads |-> result[t]]
  /\ \A t \in Threads : call[t].req # NoCall =>
       user[t] \in [0 .. call[t].req.len + HalfCells - 1 -> Cells]
  /\ issued \in [to : Nat, from : Nat]
LinkWord == [addr : BufCells, cell : Cells] \cup [thread : Threads, count : Nat]
LinkTypes == up \in Seq(LinkWord) /\ OneAnswer
CommandTypes ==
  /\ down \in Seq(Words) /\ hostMemTemp \in Nat /\ fpgaMemTemp \in Nat
  /\ dmaCmdQ \in Seq(Commands) /\ Len(dmaCmdQ) <= CmdCap
  /\ CommandsFit
BurstTypes ==
  /\ hostMemOff \in Nat /\ memReadLeft \in Nat /\ memWriteLeft \in Nat
  /\ dmaReadWordCntQ \in Seq(Bursts) /\ dramReadWordCntQ \in Seq(Bursts)
  /\ dramWrite \in Bursts /\ dramRead \in Bursts
  /\ BurstsFit
Request == [tag : ReadTags, addr : BufCells, cell : Cells \cup {None}]
ReadTypes ==
  /\ freeTags \subseteq ReadTags /\ dmaReadTagOrderQ \in Seq(ReadTags)
  /\ reads \in Seq(Request)
  /\ vDmaReadWords \in [ReadTags -> Seq(Cells)]
WriteRequest == [addr : BufCells, last : BOOLEAN]
WriteTypes ==
  /\ dramReadWordQ \in Seq(Cells) /\ Len(dramReadWordQ) <= DramCap
  /\ pcieWriteReqQ \in Seq(WriteRequest)
MemoryTypes ==
  /\ dmabuf \in [BufCells -> Cells] /\ mem \in [MemCells -> Cells] /\ before \in [MemCells -> Cells]
  /\ writeDoneCount \in Nat /\ readDoneCount \in Nat
TypeInv ==
  /\ HostTypes /\ Loops /\ Alone
  /\ LinkTypes /\ CommandTypes /\ BurstTypes /\ ReadTypes /\ WriteTypes /\ MemoryTypes

-----------------------------------------------------------------------------
(* Nothing is under way when no thread has the mutex.                      *)
ToQuiet ==
  /\ memReadLeft = 0 /\ reads = <<>> /\ dmaReadTagOrderQ = <<>>
  /\ \A g \in ReadTags : vDmaReadWords[g] = <<>>
  /\ dmaReadWordCntQ = <<>> /\ dramWrite.left = 0
  /\ writeDoneCount = issued.to
FromQuiet ==
  /\ memWriteLeft = 0 /\ dramReadWordCntQ = <<>> /\ dramRead.left = 0
  /\ dramReadWordQ = <<>> /\ pcieWriteReqQ = <<>>
  /\ readDoneCount = issued.from
IsCommand(k) == down[k][1] \in {"to", "from"}
Constructing ==
  /\ \A k \in 1 .. Len(up) : Answer(k) =>
       k = Len(up) /\ up[k].count = IF inst = "write" THEN writeDoneCount ELSE readDoneCount
  /\ inst = "read" => wTotal = writeDoneCount /\ \A k \in 1 .. Len(up) : Answer(k)
QuietInv ==
  mutex = None =>
    /\ ToQuiet /\ FromQuiet /\ dmaCmdQ = <<>>
    /\ \A k \in 1 .. Len(down) : ~IsCommand(k)
    /\ IF inst = "ready" THEN up = <<>> /\ wTotal = issued.to /\ rTotal = issued.from
       ELSE Constructing

-----------------------------------------------------------------------------
(* What the thread that has the mutex was asked for, r, in cells: chunk j  *)
(* begins at E(r, j); its cell x is read from and written to Place(x) of   *)
(* the DMA buffer.                                                         *)
E(r, j) == Front(r, j) * PageCells
Place(x) == x % (2 * HalfCells)
Cell(r, x) == IF x < r.len THEN r.data[x + 1] ELSE Pad
CommandOf(r, j) ==
  [op |-> r.op, host |-> HalfPage(j), fpga |-> FirstPage(r.at) + Front(r, j),
   pages |-> Front(r, j + 1) - Front(r, j)]
BurstOf(r, j) == [at |-> Start(r) + E(r, j), left |-> E(r, j + 1) - E(r, j)]

(* Commands given, and halves filled or named; commands done.              *)
Given(t)  == IF InLoop(t) THEN call[t].i ELSE Least(call[t].i + 1, call[t].n)
Filling(t) == IF pc[t] \in {"arguments", "command"} THEN call[t].i + 1 ELSE Given(t)
Done(t) == Count(t) - Total(t)

CountInv(t) ==
  LET c == call[t] IN
    /\ IF c.req.op = "to" THEN issued.to = wTotal + Given(t) /\ rTotal = issued.from
       ELSE issued.from = rTotal + Given(t) /\ wTotal = issued.to
    /\ Done(t) \in Nat /\ Done(t) >= c.i - 1
    /\ pc[t] = "seen" => Target(t) <= c.seen /\ c.seen <= Count(t)
    /\ \A k \in 1 .. Len(up) : Answer(k) => up[k].count <= Count(t)

(* m commands have been taken by procCmd; the others, up to g, are in      *)
(* dmaCmdQ and, as words, in down.                                         *)
Progress == [host : Nat, fpga : Nat, n : Nat]
WordMoves(r) ==
  {m \in Progress \X Words \X Progress :
     LET w == m[2] IN
       /\ w[1] = "host" => m[3] = [m[1] EXCEPT !.host = w[2]]
       /\ w[1] = "fpga" => m[3] = [m[1] EXCEPT !.fpga = w[2]]
       /\ w[1] \in {"to", "from"} =>
            /\ m[3] = [m[1] EXCEPT !.n = @ + 1]
            /\ [op |-> w[1], host |-> m[1].host, fpga |-> m[1].fpga, pages |-> w[2]]
                 = CommandOf(r, m[1].n)}
Queued(r, m) ==
  \A k \in 1 .. Len(dmaCmdQ) : dmaCmdQ[k] = CommandOf(r, m + (k - 1))
OnTheWay(r, m, a) ==
  Path(Progress, down, [host |-> hostMemTemp, fpga |-> fpgaMemTemp, n |-> m + Len(dmaCmdQ)],
       a, WordMoves(r))
CommandInv(t, r, m) ==
  /\ m \in Nat /\ m + Len(dmaCmdQ) <= Given(t) /\ Done(t) <= m
  /\ Queued(r, m)
  /\ \E a \in Progress : /\ OnTheWay(r, m, a)
                         /\ a.n = Given(t) /\ ArgsOf(t, [host |-> a.host, fpga |-> a.fpga])

(* A copy to the FPGA: cells asked for, arrived, written.                  *)
Asked(r, m) == E(r, m) - memReadLeft
Arrived(r, m) == Asked(r, m) - Len(reads)
Written(r, m) == Asked(r, m) - Len(dmaReadTagOrderQ)
Waiting == Len(dmaReadTagOrderQ) - Len(reads)   \* arrived and not written
Begun(m) == m - Len(dmaReadWordCntQ)            \* bursts begun
ToAsks(r, m, x) ==
  memReadLeft > 0 => m > 0 /\ memReadLeft <= E(r, m) - E(r, m - 1) /\ hostMemOff = Place(x)
ToBursts(r, b, d, w) ==
  /\ \A k \in 1 .. Len(dmaReadWordCntQ) : dmaReadWordCntQ[k] = BurstOf(r, b + (k - 1))
  /\ d = b - (IF dramWrite.left > 0 THEN 1 ELSE 0)
  /\ w = E(r, b) - dramWrite.left
  /\ dramWrite.left > 0 => dramWrite.left <= E(r, d + 1) - E(r, d) /\ dramWrite.at = Start(r) + w
ToTags(r, w) ==
  /\ Waiting \in Nat
  /\ \A k \in 1 .. Waiting : vDmaReadWords[dmaReadTagOrderQ[k]] = <<Cell(r, w + (k - 1))>>
  /\ \A k, l \in 1 .. Waiting : dmaReadTagOrderQ[k] = dmaReadTagOrderQ[l] => k = l
  /\ \A g \in ReadTags : vDmaReadWords[g] # <<>> => \E k \in 1 .. Waiting : dmaReadTagOrderQ[k] = g
ToReads(r, y) ==
  \A k \in 1 .. Len(reads) :
    /\ reads[k].tag = dmaReadTagOrderQ[Waiting + k]
    /\ reads[k].addr = Place(y + (k - 1))
    /\ reads[k].cell \in {None, Cell(r, y + (k - 1))}
ToBuffer(r, f) ==
  \A x \in 0 .. E(r, f) - 1 : x >= (f - 2) * HalfCells => dmabuf[Place(x)] = Cell(r, x)
ToMemory(r, w) ==
  \A k \in MemCells :
    mem[k] = IF k - Start(r) \in 0 .. w - 1 THEN Cell(r, k - Start(r)) ELSE before[k]
ToInv(t, r, m) ==
  /\ FromQuiet /\ \A k \in 1 .. Len(up) : Answer(k)
  /\ ToAsks(r, m, Asked(r, m)) /\ ToBursts(r, Begun(m), Done(t), Written(r, m))
  /\ ToTags(r, Written(r, m)) /\ ToReads(r, Arrived(r, m))
  /\ ToBuffer(r, Filling(t)) /\ ToMemory(r, Written(r, m))

(* A copy from the FPGA: cells asked to be written, handed to the link,    *)
(* read from DRAM; the link takes the number of those landed, l, to the    *)
(* number handed over, h, and an answer in it counts no chunk that lands   *)
(* behind it.                                                              *)
Wanted(r, m) == E(r, m) - memWriteLeft
Handed(r, m) == Wanted(r, m) - Len(pcieWriteReqQ)
Fetched(r, m) == Handed(r, m) + Len(dramReadWordQ)
Fetching(m) == m - Len(dramReadWordCntQ)        \* bursts begun
LandMoves(r) ==
  {m \in Nat \X LinkWord \X Nat :
     /\ "addr" \in DOMAIN m[2] =>
          /\ m[3] = m[1] + 1
          /\ m[2].addr = Place(m[1]) /\ m[2].cell = mem[Start(r) + m[1]]
     /\ "count" \in DOMAIN m[2] => m[3] = m[1] /\ E(r, m[2].count - rTotal) <= m[1]}
FromAsks(r, m, x) ==
  memWriteLeft > 0 => m > 0 /\ memWriteLeft <= E(r, m) - E(r, m - 1) /\ hostMemOff = Place(x)
FromBursts(r, b, f) ==
  /\ b \in Nat
  /\ \A k \in 1 .. Len(dramReadWordCntQ) : dramReadWordCntQ[k] = BurstOf(r, b + (k - 1))
  /\ f = E(r, b) - dramRead.left
  /\ dramRead.left > 0 => dramRead.at = Start(r) + f
FromWords(r, h) ==
  \A k \in 1 .. Len(dramReadWordQ) : dramReadWordQ[k] = mem[Start(r) + h + (k - 1)]
FromDone(r, h, d) ==
  h >= 0 /\ E(r, d) <= h /\ (d < Passes(r) => h < E(r, d + 1))
FromRequests(r, h) ==
  \A k \in 1 .. Len(pcieWriteReqQ) :
    /\ pcieWriteReqQ[k].addr = Place(h + (k - 1))
    /\ \A j \in 0 .. Passes(r) - 1 :
         h + (k - 1) \in E(r, j) .. E(r, j + 1) - 1 =>
           (pcieWriteReqQ[k].last <=> h + k = E(r, j + 1))
FromLink(r, l, h) == Path(Nat, up, l, h, LandMoves(r))
FromLanded(t, l) ==
  LET c == call[t] IN
    /\ c.i > 0 => E(c.req, c.i - 1) <= l
    /\ pc[t] = "seen" => E(c.req, c.i) <= l
FromBuffer(r, l) ==
  \A x \in 0 .. l - 1 : x >= l - 2 * HalfCells => dmabuf[Place(x)] = mem[Start(r) + x]
FromUser(t) ==
  LET c == call[t] IN \A x \in 0 .. c.done - 1 : user[t][x] = mem[Start(c.req) + x]
FromInv(t, r, m, l) ==
  /\ ToQuiet
  /\ FromAsks(r, m, Wanted(r, m)) /\ FromBursts(r, Fetching(m), Fetched(r, m))
  /\ FromWords(r, Handed(r, m)) /\ FromDone(r, Handed(r, m), Done(t))
  /\ FromRequests(r, Handed(r, m)) /\ FromLink(r, l, Handed(r, m))
  /\ FromLanded(t, l) /\ FromBuffer(r, l) /\ FromUser(t)

BusyFor(t, r) ==
  /\ CountInv(t)
  /\ \E m \in Nat : /\ CommandInv(t, r, m)
                    /\ \/ r.op = "to" /\ ToInv(t, r, m)
                       \/ r.op = "from" /\ \E l \in Nat : FromInv(t, r, m, l)
BusyInv == mutex # None => BusyFor(mutex, call[mutex].req)
Inv == QuietInv /\ BusyInv

-----------------------------------------------------------------------------
(* Paths.                                                                  *)
(* An empty queue leaves the state as it is.                               *)
LEMMA PathEmpty ==
  ASSUME NEW S, NEW a \in S, NEW M
  PROVE  Path(S, <<>>, a, a, M)
<1> DEFINE st == [k \in 0 .. 0 |-> a]
<1>1. Len(<<>>) = 0 /\ st \in [0 .. 0 -> S] /\ st[0] = a
  OBVIOUS
<1> HIDE DEF st
<1> QED  BY <1>1 DEF Path

(* A path begins and ends in its states.                                   *)
LEMMA PathEnds ==
  ASSUME NEW S, NEW U, NEW q \in Seq(U), NEW a, NEW b, NEW M, Path(S, q, a, b, M)
  PROVE  a \in S /\ b \in S /\ (q = <<>> => a = b)
<1>1. Len(q) \in Nat /\ (q = <<>> => Len(q) = 0)
  OBVIOUS
<1> QED  BY <1>1 DEF Path

(* An entry put in makes one more move at the end.                         *)
LEMMA PathAppend ==
  ASSUME NEW S, NEW U, NEW q \in Seq(U), NEW e \in U, NEW a, NEW b, NEW c \in S, NEW M,
         Path(S, q, a, b, M), <<b, e, c>> \in M
  PROVE  Path(S, Append(q, e), a, c, M)
<1> DEFINE r == Append(q, e)
<1>1. /\ Len(q) \in Nat /\ Len(r) = Len(q) + 1 /\ r[Len(q) + 1] = e
      /\ \A k \in 1 .. Len(q) : r[k] = q[k]
  OBVIOUS
<1>2. PICK st \in [0 .. Len(q) -> S] :
        /\ st[0] = a /\ st[Len(q)] = b
        /\ \A k \in 1 .. Len(q) : <<st[k - 1], q[k], st[k]>> \in M
  BY DEF Path
<1> DEFINE more == [k \in 0 .. Len(q) + 1 |-> IF k <= Len(q) THEN st[k] ELSE c]
<1> HIDE DEF r
<1>3. /\ more \in [0 .. Len(r) -> S] /\ more[0] = a /\ more[Len(r)] = c
      /\ \A k \in 0 .. Len(q) : more[k] = st[k]
  BY <1>1, <1>2
<1> HIDE DEF more
<1>4. ASSUME NEW k \in 1 .. Len(r)
      PROVE  <<more[k - 1], r[k], more[k]>> \in M
  <2>1. CASE k = Len(q) + 1
    <3>1. r[k] = e /\ more[k] = c /\ more[k - 1] = b
      BY <1>1, <1>2, <1>3, <2>1, SMTT(40)
    <3> QED  BY <3>1
  <2>2. CASE k \in 1 .. Len(q)
    <3>1. r[k] = q[k] /\ more[k] = st[k] /\ more[k - 1] = st[k - 1]
      BY <1>1, <1>3, <2>2
    <3> QED  BY <1>2, <2>2, <3>1
  <2> QED  BY <1>1, <2>1, <2>2
<1>5. Path(S, r, a, c, M)
  BY <1>3, <1>4 DEF Path
<1> QED  BY <1>5 DEF r

(* Taking the first entry out makes the first move.                        *)
LEMMA PathTail ==
  ASSUME NEW S, NEW U, NEW q \in Seq(U), q # <<>>, NEW a, NEW b, NEW M, Path(S, q, a, b, M)
  PROVE  \E c \in S : <<a, Head(q), c>> \in M /\ Path(S, Tail(q), c, b, M)
<1> DEFINE r == Tail(q)
<1>1. /\ Len(q) \in Nat \ {0} /\ Len(r) = Len(q) - 1 /\ Head(q) = q[1]
      /\ \A k \in 1 .. Len(r) : r[k] = q[k + 1]
  OBVIOUS
<1>2. PICK st \in [0 .. Len(q) -> S] :
        /\ st[0] = a /\ st[Len(q)] = b
        /\ \A k \in 1 .. Len(q) : <<st[k - 1], q[k], st[k]>> \in M
  BY DEF Path
<1> DEFINE rest == [k \in 0 .. Len(q) - 1 |-> st[k + 1]]
<1> HIDE DEF r
<1>3. /\ rest \in [0 .. Len(r) -> S] /\ rest[0] = st[1] /\ rest[Len(r)] = b
      /\ \A k \in 0 .. Len(r) : rest[k] = st[k + 1]
  BY <1>1, <1>2
<1> HIDE DEF rest
<1>4. ASSUME NEW k \in 1 .. Len(r)
      PROVE  <<rest[k - 1], r[k], rest[k]>> \in M
  <2>1. /\ r[k] = q[k + 1] /\ rest[k] = st[k + 1] /\ rest[k - 1] = st[(k + 1) - 1]
        /\ k + 1 \in 1 .. Len(q)
    BY <1>1, <1>3
  <2>2. <<st[(k + 1) - 1], q[k + 1], st[k + 1]>> \in M
    BY <1>2, <2>1
  <2> QED  BY <2>1, <2>2
<1>5. Path(S, r, st[1], b, M)
  BY <1>3, <1>4 DEF Path
<1>6. st[1] \in S /\ <<a, Head(q), st[1]>> \in M
  <2>1. 1 \in 1 .. Len(q) /\ 1 - 1 = 0
    BY <1>1
  <2>2. <<st[1 - 1], q[1], st[1]>> \in M
    BY <1>2, <2>1
  <2> QED  BY <1>1, <1>2, <2>1, <2>2
<1> QED  BY <1>5, <1>6 DEF r

-----------------------------------------------------------------------------
(* A queue after an entry is put in, or taken out.                         *)
LEMMA PutIn ==
  ASSUME NEW S, NEW s \in Seq(S), NEW x \in S
  PROVE  /\ Append(s, x) \in Seq(S) /\ Len(Append(s, x)) = Len(s) + 1 /\ Len(s) \in Nat
         /\ \A k \in 1 .. Len(s) : Append(s, x)[k] = s[k] /\ s[k] \in S
         /\ Append(s, x)[Len(s) + 1] = x
<1>1. \A k \in 1 .. Len(s) : s[k] \in S
  BY ElementOfSeq
<1> QED  BY <1>1, AppendProperties, LenProperties

LEMMA TakenOut ==
  ASSUME NEW S, NEW s \in Seq(S), s # <<>>
  PROVE  /\ Tail(s) \in Seq(S) /\ Len(Tail(s)) = Len(s) - 1 /\ Len(s) \in Nat \ {0}
         /\ \A k \in 1 .. Len(s) - 1 : Tail(s)[k] = s[k + 1]
         /\ Head(s) = s[1] /\ s[1] \in S
<1>1. Len(s) \in Nat /\ Len(s) # 0
  BY LenProperties, EmptySeq
<1>2. s[1] \in S
  BY <1>1, ElementOfSeq
<1> QED  BY <1>1, <1>2, HeadTailProperties

(* Numbers.                                                                *)
LEMMA Times ==
  ASSUME NEW n \in Nat \ {0}, NEW p \in Int, NEW q \in Int
  PROVE  /\ n * p \in Int /\ n * (p - q) = n * p - n * q /\ n * (p + q) = n * p + n * q
         /\ (p > q => n * p - n * q >= n)
<1>1. /\ n * p \in Int /\ n * (p - q) = n * p - n * q /\ n * (p + q) = n * p + n * q
  OBVIOUS
<1>2. ASSUME p > q PROVE n * p - n * q >= n
  <2>1. ASSUME NEW d \in Nat PROVE n * (d + 1) >= n
    OBVIOUS
  <2>2. (p - q) - 1 \in Nat
    BY <1>2
  <2>3. n * (((p - q) - 1) + 1) >= n
    BY <2>1, <2>2
  <2>4. ((p - q) - 1) + 1 = p - q
    OBVIOUS
  <2> QED BY <1>1, <2>3, <2>4
<1> QED BY <1>1, <1>2

(* A remainder is what is left of a multiple.                              *)
LEMMA Rest ==
  ASSUME NEW n \in Nat \ {0}, NEW a \in Int
  PROVE  a % n \in 0 .. n - 1 /\ a \div n \in Int /\ a = n * (a \div n) + (a % n)
OBVIOUS

(* A number has one remainder.                                             *)
LEMMA OneRest ==
  ASSUME NEW n \in Nat \ {0}, NEW q \in Int, NEW r \in 0 .. n - 1
  PROVE  (n * q + r) % n = r
<1> DEFINE a == n * q + r
<1>1. a \in Int /\ n * q \in Int
  BY Times
<1>2. a % n \in 0 .. n - 1 /\ a \div n \in Int /\ a = n * (a \div n) + (a % n)
  BY <1>1, Rest
<1>3. PICK p : p = a \div n
  OBVIOUS
<1>4. PICK m : m = a % n
  OBVIOUS
<1>5. m \in 0 .. n - 1 /\ p \in Int /\ n * q + r = n * p + m
  BY <1>2, <1>3, <1>4
<1>6. n * p \in Int /\ (p > q => n * p - n * q >= n) /\ (q > p => n * q - n * p >= n)
  BY <1>5, Times
<1>7. p = q
  BY <1>1, <1>5, <1>6
<1> QED  BY <1>1, <1>4, <1>5, <1>7

(* A multiple of n does not change it.                                     *)
LEMMA Shifted ==
  ASSUME NEW n \in Nat \ {0}, NEW q \in Int, NEW x \in Int
  PROVE  (x + n * q) % n = x % n /\ n * q \in Int
<1>1. PICK p \in Int, r \in 0 .. n - 1 : x = n * p + r /\ x % n = r
  BY Rest
<1>2. n * p \in Int /\ n * q \in Int /\ n * (p + q) = n * p + n * q
  BY Times
<1>3. x + n * q = n * (p + q) + r
  BY <1>1, <1>2
<1>4. (n * (p + q) + r) % n = r
  BY <1>1, OneRest
<1> QED  BY <1>1, <1>2, <1>3, <1>4

(* A number that is small enough is its own.                               *)
LEMMA Modulo ==
  ASSUME NEW n \in Nat \ {0}, NEW a \in Int
  PROVE  /\ a % n \in 0 .. n - 1
         /\ a \in 0 .. n - 1 => a % n = a
<1>1. a % n \in 0 .. n - 1
  BY Rest
<1>2. ASSUME a \in 0 .. n - 1 PROVE a % n = a
  <2>1. (n * 0 + a) % n = a
    BY <1>2, OneRest
  <2>2. n * 0 + a = a
    OBVIOUS
  <2> QED  BY <2>1, <2>2
<1> QED  BY <1>1, <1>2

(* A counter modulo n keeps in step with the number it counts, as does a   *)
(* difference of two; numbers less than n apart are told apart.            *)
LEMMA InStep ==
  ASSUME NEW n \in Nat \ {0}, NEW a \in Int, NEW c \in Int
  PROVE  /\ ((a % n) + c) % n = (a + c) % n
         /\ ((a % n) - (c % n)) % n = (a - c) % n
         /\ a % n = c % n /\ a - c < n /\ c - a < n => a = c
<1>1. PICK p \in Int, r \in 0 .. n - 1 : a = n * p + r /\ a % n = r
  BY Rest
<1>2. PICK q \in Int, s \in 0 .. n - 1 : c = n * q + s /\ c % n = s
  BY Rest
<1>3. /\ n * p \in Int /\ n * q \in Int /\ n * (p - q) = n * p - n * q
      /\ (p > q => n * p - n * q >= n) /\ (q > p => n * q - n * p >= n)
  BY Times
<1>4. (r + c) % n = (a + c) % n
  <2>1. PICK x \in Int : x = r + c
    OBVIOUS
  <2>2. (x + n * p) % n = x % n
    BY Shifted
  <2>3. x + n * p = a + c
    BY <1>1, <1>3, <2>1
  <2> QED  BY <2>1, <2>2, <2>3
<1>5. (r - s) % n = (a - c) % n
  <2>1. PICK x \in Int : x = r - s
    OBVIOUS
  <2>2. PICK d \in Int : d = p - q
    OBVIOUS
  <2>3. (x + n * d) % n = x % n
    BY Shifted
  <2>4. x + n * d = a - c
    BY <1>1, <1>2, <1>3, <2>1, <2>2
  <2> QED  BY <2>1, <2>3, <2>4
<1>6. ASSUME r = s, a - c < n, c - a < n PROVE a = c
  <2>1. p = q
    BY <1>1, <1>2, <1>3, <1>6
  <2> QED  BY <1>1, <1>2, <1>6, <2>1
<1> QED  BY <1>1, <1>2, <1>4, <1>5, <1>6


-----------------------------------------------------------------------------
(* The sizes of pages and halves.                                          *)
LEMMA Sizes ==
  /\ PageCells \in Nat \ {0} /\ HalfPages \in Nat \ {0} /\ FpgaPages \in Nat \ {0}
  /\ HalfCells = HalfPages * PageCells /\ HalfCells \in Nat \ {0}
  /\ 2 * HalfCells \in Nat \ {0} /\ HalfCells >= PageCells
<1>1. PageCells \in Nat \ {0} /\ HalfPages \in Nat \ {0} /\ FpgaPages \in Nat \ {0}
  BY HostDmaAssumption
<1>2. HalfCells = HalfPages * PageCells /\ HalfCells \in Nat /\ HalfCells >= PageCells
  <2>1. PageCells * HalfPages \in Int /\ PageCells * 0 = 0
        /\ PageCells * HalfPages - PageCells * 0 >= PageCells
    BY <1>1, Times
  <2>2. PageCells * HalfPages = HalfPages * PageCells
    BY <1>1
  <2> QED  BY <1>1, <2>1, <2>2 DEF HalfCells
<1> QED  BY <1>1, <1>2

(* A quotient rounded up.                                                  *)
LEMMA RoundedUp ==
  ASSUME NEW a \in Nat, NEW b \in Nat \ {0}
  PROVE  /\ Ceil(a, b) \in Nat /\ b * Ceil(a, b) \in Nat
         /\ a <= b * Ceil(a, b) /\ b * Ceil(a, b) < a + b
<1>1. PICK x \in Int : x = a + b - 1
  OBVIOUS
<1>2. x % b \in 0 .. b - 1 /\ x \div b \in Int /\ x = b * (x \div b) + (x % b)
  BY Rest
<1>3. PICK q \in Int : q = x \div b /\ q = Ceil(a, b)
  BY <1>1, <1>2 DEF Ceil
<1>4. b * q \in Int /\ b * q >= a /\ b * q < a + b
  <2>1. b * q \in Int
    BY Times
  <2> QED  BY <1>1, <1>2, <1>3, <2>1
<1>5. q >= 0
  <2>1. ASSUME q < 0 PROVE FALSE
    <3>1. b * 0 - b * q >= b /\ b * 0 = 0
      BY <2>1, Times
    <3> QED  BY <1>4, <3>1
  <2> QED  BY <2>1
<1> QED  BY <1>3, <1>4, <1>5

(* Where the chunks of a copy begin, in pages.                             *)
LEMMA Fronts ==
  ASSUME NEW r, r.len \in Nat
  PROVE  /\ Pages(r.len) \in Nat /\ Passes(r) \in Nat
         /\ \A j \in Nat :
              /\ Front(r, j) \in 0 .. Pages(r.len) /\ Front(r, j) <= Front(r, j + 1)
              /\ Front(r, j) <= j * HalfPages
              /\ Front(r, j + 1) - Front(r, j) = Least(HalfPages, Pages(r.len) - Front(r, j))
              /\ j < Passes(r) => /\ Front(r, j) = j * HalfPages
                            /\ Front(r, j + 1) - Front(r, j) \in 1 .. HalfPages
         /\ Front(r, 0) = 0 /\ Front(r, Passes(r)) = Pages(r.len)
<1> DEFINE P == Pages(r.len)
<1>1. P \in Nat
  BY Sizes, RoundedUp DEF Pages
<1> HIDE DEF P
<1>2. Passes(r) = Ceil(P, HalfPages)
  BY DEF P, Chunks, Passes
<1>3. PICK n \in Nat : n = Passes(r) /\ P <= HalfPages * n /\ HalfPages * n < P + HalfPages
                      /\ HalfPages * n \in Nat
  BY <1>1, <1>2, Sizes, RoundedUp
<1>4. \A j : Front(r, j) = Least(j * HalfPages, P)
  BY DEF P, Front
<1>5. ASSUME NEW j \in Nat
      PROVE  /\ HalfPages * j \in Nat /\ j * HalfPages = HalfPages * j
             /\ (j + 1) * HalfPages = HalfPages * j + HalfPages
             /\ j < n => HalfPages * j + HalfPages <= HalfPages * n
             /\ j >= n => HalfPages * j >= HalfPages * n
  <2>1. /\ HalfPages * j \in Int /\ HalfPages * j >= 0
    BY Sizes
  <2>2. j * HalfPages = HalfPages * j /\ (j + 1) * HalfPages = HalfPages * j + HalfPages
    BY Sizes
  <2>3. /\ j < n => HalfPages * n - HalfPages * j >= HalfPages
        /\ j > n => HalfPages * j - HalfPages * n >= HalfPages
    BY Sizes, Times
  <2> QED  BY <1>3, <2>1, <2>2, <2>3, Sizes
<1>6. ASSUME NEW j \in Nat
      PROVE  /\ Front(r, j) \in 0 .. P /\ Front(r, j) <= Front(r, j + 1)
             /\ Front(r, j) <= j * HalfPages
             /\ Front(r, j + 1) - Front(r, j) = Least(HalfPages, P - Front(r, j))
             /\ j < n => /\ Front(r, j) = j * HalfPages
                         /\ Front(r, j + 1) - Front(r, j) \in 1 .. HalfPages
  <2>1. PICK x \in Nat : x = HalfPages * j
    BY <1>5
  <2>2. Front(r, j) = Least(x, P) /\ Front(r, j + 1) = Least(x + HalfPages, P) /\ j * HalfPages = x
    BY <1>4, <1>5, <2>1
  <2>3. j < n => x + HalfPages <= HalfPages * n
    BY <1>5, <2>1
  <2>4. j < n => x < P
    BY <1>1, <1>3, <2>3, Sizes
  <2> QED  BY <1>1, <2>2, <2>4, Sizes DEF Least
<1>7. Front(r, 0) = 0
  <2>1. 0 * HalfPages = 0
    BY Sizes
  <2> QED  BY <1>1, <1>4, <2>1 DEF Least
<1>8. Front(r, n) = P
  <2>1. n * HalfPages = HalfPages * n
    BY <1>5
  <2> QED  BY <1>1, <1>3, <1>4, <2>1 DEF Least
<1> QED  BY <1>1, <1>3, <1>6, <1>7, <1>8 DEF P

LEMMA FrontNat ==
  ASSUME NEW r, r.len \in Nat, NEW j \in Nat
  PROVE  Front(r, j) \in Nat /\ Front(r, j + 1) \in Nat /\ j + 1 \in Nat /\ Pages(r.len) \in Nat
<1>1. j + 1 \in Nat /\ Pages(r.len) \in Nat
  BY Fronts
<1>2. Front(r, j) \in 0 .. Pages(r.len)
  BY Fronts
<1>3. Front(r, j + 1) \in 0 .. Pages(r.len)
  BY <1>1, Fronts
<1> QED  BY <1>1, <1>2, <1>3

(* Where they begin, in cells.                                             *)
LEMMA Edges ==
  ASSUME NEW r, r.len \in Nat
  PROVE  /\ Passes(r) \in Nat
         /\ \A j \in Nat :
              /\ E(r, j) \in Nat /\ E(r, j) <= E(r, j + 1) /\ E(r, j) <= E(r, Passes(r))
              /\ E(r, j) <= j * HalfCells
              /\ E(r, j + 1) - E(r, j) <= HalfCells
              /\ j < Passes(r) => E(r, j) = j * HalfCells /\ E(r, j) < E(r, j + 1)
              /\ j >= Passes(r) => E(r, j) = E(r, Passes(r))
         /\ E(r, 0) = 0 /\ E(r, Passes(r)) = Pages(r.len) * PageCells
<1>1. PICK n \in Nat : n = Passes(r)
  BY Fronts
<1>2. PICK P \in Nat : P = Pages(r.len)
  BY Fronts
<1>3. \A a, b \in Nat : /\ a * PageCells \in Nat /\ (a - b) * PageCells = a * PageCells - b * PageCells
                        /\ a <= b => a * PageCells <= b * PageCells
                        /\ a < b => a * PageCells < b * PageCells
  <2> TAKE a, b \in Nat
  <2>1. /\ PageCells * a \in Int /\ PageCells * a = a * PageCells /\ PageCells * b = b * PageCells
        /\ PageCells * b \in Int /\ (a - b) * PageCells = a * PageCells - b * PageCells
    BY Sizes
  <2>2. a < b => PageCells * b - PageCells * a >= PageCells
    BY Sizes, Times
  <2>3. PageCells * a >= 0
    BY Sizes
  <2> QED  BY <2>1, <2>2, <2>3, Sizes
<1>4. ASSUME NEW j \in Nat
      PROVE  /\ E(r, j) \in Nat /\ E(r, j) <= E(r, j + 1) /\ E(r, j) <= E(r, n)
             /\ E(r, j) <= j * HalfCells
             /\ E(r, j + 1) - E(r, j) <= HalfCells
             /\ j < n => E(r, j) = j * HalfCells /\ E(r, j) < E(r, j + 1)
             /\ j >= n => E(r, j) = E(r, n)
  <2>1. PICK f \in Nat, g \in Nat : f = Front(r, j) /\ g = Front(r, j + 1)
    BY FrontNat
  <2>2. /\ f \in 0 .. P /\ f <= g /\ f <= j * HalfPages /\ g - f <= HalfPages
        /\ j < n => f = j * HalfPages /\ f < g
        /\ Front(r, n) = P
    <3>1. g - f = Least(HalfPages, P - f)
      BY <1>2, <2>1, Fronts
    <3>2. P - f \in Int /\ HalfPages \in Nat
      BY Sizes
    <3>3. g - f <= HalfPages
      BY <3>1, <3>2 DEF Least
    <3>4. /\ f \in 0 .. P /\ f <= g /\ f <= j * HalfPages
          /\ j < n => f = j * HalfPages /\ g - f \in 1 .. HalfPages
          /\ Front(r, n) = P
      BY <1>1, <1>2, <2>1, Fronts
    <3>5. j < n => f < g
      BY <3>4, Sizes
    <3> QED  BY <3>3, <3>4, <3>5
  <2>3. /\ E(r, j) = f * PageCells /\ E(r, j + 1) = g * PageCells /\ E(r, n) = P * PageCells
    BY <2>1, <2>2 DEF E
  <2>4. (j * HalfPages) * PageCells = j * HalfCells /\ j * HalfPages \in Nat
    <3>1. (j * HalfPages) * PageCells = j * (HalfPages * PageCells) /\ j * HalfPages \in Int
          /\ j * HalfPages >= 0
      BY Sizes
    <3> QED  BY <3>1, Sizes
  <2>5. g - f \in Nat => (g - f) * PageCells <= HalfPages * PageCells
    BY <1>3, <2>2, Sizes
  <2>6. j >= n => f = P
    <3>1. ASSUME j >= n PROVE f = P
      <4>1. f = Least(j * HalfPages, P) /\ P = Least(n * HalfPages, P)
        BY <1>2, <2>1, <2>2 DEF Front
      <4>2. n * HalfPages <= j * HalfPages
        <5>1. HalfPages * j >= HalfPages * n
          BY <3>1, Sizes, Times
        <5>2. HalfPages * j = j * HalfPages /\ HalfPages * n = n * HalfPages
          BY Sizes
        <5> QED  BY <5>1, <5>2
      <4>3. n * HalfPages \in Nat
        BY Sizes
      <4> QED  BY <2>4, <4>1, <4>2, <4>3 DEF Least
    <3> QED  BY <3>1
  <2>7. /\ f * PageCells \in Nat /\ g * PageCells \in Nat /\ P * PageCells \in Nat
        /\ f * PageCells <= g * PageCells /\ f * PageCells <= P * PageCells
        /\ f * PageCells <= j * HalfCells
        /\ g * PageCells - f * PageCells <= HalfCells
        /\ j < n => f * PageCells = j * HalfCells /\ f * PageCells < g * PageCells
    BY <1>3, <2>2, <2>4, <2>5, Sizes
  <2> QED  BY <2>3, <2>6, <2>7
<1>5. E(r, 0) = 0 /\ E(r, n) = P * PageCells
  <2>1. Front(r, 0) = 0 /\ Front(r, n) = P
    BY <1>1, <1>2, Fronts
  <2>2. 0 * PageCells = 0
    BY Sizes
  <2> QED  BY <2>1, <2>2 DEF E
<1> QED  BY <1>1, <1>2, <1>4, <1>5

(* A later chunk begins later.                                             *)
LEMMA Later ==
  ASSUME NEW r, r.len \in Nat, NEW j \in Nat, NEW k \in Nat
  PROVE  /\ j <= k => E(r, j) <= E(r, k)
         /\ j < k /\ j < Passes(r) => E(r, j + 1) <= E(r, k) /\ E(r, j) < E(r, k)
<1>1. PICK n \in Nat : n = Passes(r)
  BY Edges
<1>2. PICK x \in Nat, y \in Nat, z \in Nat, w \in Nat :
        x = E(r, j) /\ y = E(r, j + 1) /\ z = E(r, k) /\ w = E(r, n)
  <2>1. j + 1 \in Nat
    OBVIOUS
  <2>2. \A i \in Nat : E(r, i) \in Nat
    BY Edges
  <2> QED  BY <1>1, <2>1, <2>2
<1>3. /\ x <= y /\ x <= w /\ y <= w /\ z <= w /\ x <= j * HalfCells /\ y <= (j + 1) * HalfCells
      /\ j < n => x < y
      /\ k < n => z = k * HalfCells
      /\ k >= n => z = w
  <2>1. j + 1 \in Nat
    OBVIOUS
  <2>2. /\ x <= y /\ x <= w /\ x <= j * HalfCells
    BY <1>1, <1>2, Edges
  <2>3. y <= w /\ y <= (j + 1) * HalfCells
    BY <1>1, <1>2, <2>1, Edges
  <2>4. z <= w /\ (k < n => z = k * HalfCells) /\ (k >= n => z = w)
    BY <1>1, <1>2, Edges
  <2>5. j < n => x < y
    BY <1>1, <1>2, Edges
  <2> QED  BY <2>2, <2>3, <2>4, <2>5
<1>4. /\ j <= k => j * HalfCells <= k * HalfCells
      /\ j < k => (j + 1) * HalfCells <= k * HalfCells
  <2>1. ASSUME NEW a \in Nat, NEW b \in Nat, a <= b PROVE a * HalfCells <= b * HalfCells
    <3>1. a < b => HalfCells * b - HalfCells * a >= HalfCells
      BY Sizes, Times
    <3>2. /\ HalfCells * b = b * HalfCells /\ HalfCells * a = a * HalfCells
          /\ HalfCells * a \in Int /\ HalfCells * b \in Int
      BY Sizes
    <3> QED  BY <2>1, <3>1, <3>2, Sizes
  <2>2. j + 1 \in Nat /\ (j < k => j + 1 <= k)
    OBVIOUS
  <2> QED  BY <2>1, <2>2
<1>5. j * HalfCells \in Nat /\ k * HalfCells \in Nat /\ (j + 1) * HalfCells \in Nat
  BY Sizes
<1> QED  BY <1>1, <1>2, <1>3, <1>4, <1>5

(* The two halves of the buffer: where the cells of a chunk are, and that  *)
(* cells less than the whole buffer apart are in different places.         *)
LEMMA Places ==
  /\ \A x \in Int : Place(x) \in BufCells /\ Place(x) \in Nat
  /\ \A j \in Nat, o \in 0 .. HalfCells - 1 :
       Place(j * HalfCells + o) = Half(j) + o /\ j * HalfCells \in Nat
  /\ \A x, y \in Int : Place(x) = Place(y) /\ x - y < 2 * HalfCells /\ y - x < 2 * HalfCells => x = y
  /\ \A j \in Nat : /\ HalfPage(j) \in {0, HalfPages} /\ Half(j) \in {0, HalfCells}
                    /\ Half(j + 2) = Half(j)
                    /\ HostCell(HalfPage(j)) = Half(j)
<1>1. PICK n \in Nat \ {0} : n = 2 * HalfCells
  BY Sizes
<1>2. ASSUME NEW x \in Int PROVE Place(x) \in BufCells /\ Place(x) \in Nat
  BY <1>1, Modulo DEF Place, BufCells
<1>3. ASSUME NEW j \in Nat
      PROVE  /\ HalfPage(j) \in {0, HalfPages} /\ Half(j) \in {0, HalfCells}
             /\ Half(j + 2) = Half(j)
             /\ HostCell(HalfPage(j)) = Half(j)
             /\ Half(j) = (j % 2) * HalfCells
  <2>1. j % 2 \in {0, 1} /\ (j + 2) % 2 = j % 2
    OBVIOUS
  <2>2. (j % 2) * HalfPages \in {0, HalfPages}
    <3>1. 0 * HalfPages = 0 /\ 1 * HalfPages = HalfPages
      BY Sizes
    <3> QED  BY <2>1, <3>1
  <2>3. ((j % 2) * HalfPages) * PageCells \in {0, HalfCells}
        /\ ((j % 2) * HalfPages) * PageCells = (j % 2) * HalfCells
    <3>1. 0 * HalfPages = 0 /\ 1 * HalfPages = HalfPages /\ 0 * PageCells = 0
          /\ 0 * HalfCells = 0 /\ 1 * HalfCells = HalfCells
      BY Sizes
    <3> QED  BY <2>1, <3>1, Sizes
  <2> QED  BY <2>1, <2>2, <2>3 DEF HalfPage, Half, HostCell
<1>4. ASSUME NEW j \in Nat, NEW o \in 0 .. HalfCells - 1
      PROVE  Place(j * HalfCells + o) = Half(j) + o /\ j * HalfCells \in Nat
  <2>1. PICK q \in Int, r \in 0 .. 1 : j = 2 * q + r /\ r = j % 2
    <3>1. j % 2 \in 0 .. 1 /\ j \div 2 \in Int /\ j = 2 * (j \div 2) + (j % 2)
      OBVIOUS
    <3> QED  BY <3>1
  <2>2. j * HalfCells = n * q + r * HalfCells /\ n * q \in Int
    <3>1. (2 * q + r) * HalfCells = (2 * HalfCells) * q + r * HalfCells /\ (2 * HalfCells) * q \in Int
      BY Sizes
    <3> QED  BY <1>1, <2>1, <3>1
  <2>3. r * HalfCells \in {0, HalfCells}
    <3>1. 0 * HalfCells = 0 /\ 1 * HalfCells = HalfCells
      BY Sizes
    <3> QED  BY <2>1, <3>1
  <2>4. r * HalfCells + o \in 0 .. n - 1
    BY <1>1, <2>3, Sizes
  <2>5. (n * q + (r * HalfCells + o)) % n = r * HalfCells + o
    BY <2>4, OneRest
  <2>6. n * q + (r * HalfCells + o) = j * HalfCells + o
    BY <2>2, <2>3, Sizes
  <2>7. Half(j) = r * HalfCells
    BY <1>3, <2>1
  <2>8. j * HalfCells \in Nat
    BY Sizes
  <2> QED  BY <1>1, <2>5, <2>6, <2>7, <2>8 DEF Place
<1>5. ASSUME NEW x \in Int, NEW y \in Int, Place(x) = Place(y), x - y < n, y - x < n PROVE x = y
  BY <1>1, <1>5, InStep DEF Place
<1> QED  BY <1>1, <1>2, <1>3, <1>4, <1>5

LEMMA Halves ==
  ASSUME NEW j \in Nat
  PROVE  Half(j) \in Nat /\ HalfPage(j) \in Nat /\ Half(j) + HalfCells <= 2 * HalfCells
<1>1. HalfPage(j) \in {0, HalfPages} /\ Half(j) \in {0, HalfCells}
  BY Places
<1> QED  BY <1>1, Sizes

(* The cells of one chunk are side by side in the buffer.                  *)
LEMMA InChunk ==
  ASSUME NEW r, r.len \in Nat, NEW j \in Nat, j < Passes(r),
         NEW x \in E(r, j) .. E(r, j + 1) - 1
  PROVE  /\ Place(x) = Half(j) + (x - E(r, j)) /\ x \in Nat /\ x - E(r, j) \in 0 .. HalfCells - 1
         /\ Place(E(r, j)) = Half(j)
<1>1. PICK a \in Nat, b \in Nat : a = E(r, j) /\ b = E(r, j + 1)
  BY Edges
<1>2. a = j * HalfCells /\ b - a <= HalfCells /\ a < b
  BY <1>1, Edges
<1>3. x - a \in 0 .. HalfCells - 1 /\ x \in Nat /\ x = a + (x - a) /\ a = a + 0
  BY <1>1, <1>2, Sizes
<1>4. 0 \in 0 .. HalfCells - 1
  BY Sizes
<1>5. \A o \in 0 .. HalfCells - 1 : Place(j * HalfCells + o) = Half(j) + o
  BY Places
<1>6. Half(j) \in {0, HalfCells}
  BY Places
<1>7. Place(x) = Half(j) + (x - a) /\ Place(a) = Half(j) + 0
  BY <1>2, <1>3, <1>4, <1>5
<1> QED  BY <1>1, <1>3, <1>6, <1>7, Sizes

-----------------------------------------------------------------------------
(* What a copy begins with.                                                *)
LEMMA FirstPages ==
  ASSUME NEW a \in Nat
  PROVE  FirstPage(a) \in Nat
<1>1. a % PageCells \in 0 .. PageCells - 1 /\ a \div PageCells \in Int
      /\ a = PageCells * (a \div PageCells) + (a % PageCells)
  BY Sizes, Rest
<1>2. PICK q \in Int : q = a \div PageCells
  BY <1>1
<1>3. q < 0 => PageCells * 0 - PageCells * q >= PageCells
  BY Sizes, Times
<1>4. PageCells * q \in Int /\ PageCells * 0 = 0
  BY Sizes, Times
<1>5. q >= 0
  BY <1>1, <1>2, <1>3, <1>4, Sizes
<1> QED  BY <1>2, <1>5 DEF FirstPage

LEMMA ACall ==
  ASSUME NEW c \in Calls
  PROVE  /\ c.op \in {"to", "from"} /\ c.at \in Nat /\ c.len \in Nat /\ c.data \in Seq(Data)
         /\ c # NoCall /\ c \in Requests /\ (c.op = "to" => Len(c.data) = c.len)
         /\ FirstPage(c.at) \in Nat /\ Pages(c.len) \in Nat /\ FirstPage(c.at) + Pages(c.len) <= FpgaPages
<1>1. c \in [op : {"to", "from"}, at : Nat, len : Nat, data : Seq(Data)]
  BY HostDmaAssumption
<1>2. c.op \in {"to", "from"} /\ c.at \in Nat /\ c.len \in Nat /\ c.data \in Seq(Data)
  BY <1>1
<1>3. NoCall.op = "none"
  BY DEF NoCall
<1>4. c \in Requests
  BY <1>1 DEF Requests
<1>5. Pages(c.len) \in Nat
  BY <1>2, Sizes, RoundedUp DEF Pages
<1> QED  BY <1>2, <1>3, <1>4, <1>5, FirstPages, HostDmaAssumption, CallsAssumption

LEMMA NoRequest ==
  /\ NoCall \in Requests /\ NoCall.op = "none" /\ NoCall.at = 0 /\ NoCall.len = 0
<1>1. <<>> \in Seq(Data)
  OBVIOUS
<1> QED  BY <1>1 DEF NoCall, Requests

(* The pages of a copy that is in its loop.                                *)
LEMMA Copies ==
  ASSUME NEW c, LoopInv(c)
  PROVE  /\ c.req \in Requests /\ c.req.len \in Nat /\ c.req.at \in Nat
         /\ c.n = Passes(c.req) /\ c.n \in Nat /\ c.i \in 0 .. c.n
         /\ FirstPage(c.req.at) \in Nat /\ Pages(c.req.len) \in Nat
         /\ Front(c.req, c.i) \in 0 .. Pages(c.req.len)
         /\ c.at \in Nat /\ c.left \in Nat /\ c.done \in Nat /\ c.last \in 0 .. HalfPages /\ c.seen \in Nat
<1>1. c.req \in Calls \cup {NoCall}
  BY DEF LoopInv
<1>2. c.req \in Requests /\ c.req.len \in Nat /\ c.req.at \in Nat
  BY <1>1, ACall, NoRequest
<1>3. c.n = Passes(c.req)
  BY DEF LoopInv
<1>4. c.n \in Nat /\ c.i \in 0 .. c.n /\ Pages(c.req.len) \in Nat
  BY <1>2, <1>3, Fronts DEF LoopInv
<1>5. \A j \in Nat : /\ Front(c.req, j) \in 0 .. Pages(c.req.len) /\ Front(c.req, j) \in Nat
                     /\ Front(c.req, j + 1) - Front(c.req, j) = Least(HalfPages, Pages(c.req.len) - Front(c.req, j))
                     /\ Front(c.req, j) <= Front(c.req, j + 1)
  BY <1>2, Fronts, FrontNat
<1>6. FirstPage(c.req.at) \in Nat
  BY <1>2, FirstPages
<1>7. c.at \in Nat /\ c.left \in Nat /\ c.seen \in Nat
  BY <1>4, <1>5, <1>6 DEF LoopInv
<1>8. c.done \in Nat /\ c.last \in 0 .. HalfPages
  <2>1. \A f \in Nat : f * PageCells \in Nat
    <3>1. ASSUME NEW f \in Nat PROVE f * PageCells \in Nat
      <4>1. f * PageCells = PageCells * f /\ PageCells * f \in Int
        BY Sizes
      <4>2. PageCells * f >= 0
        BY Sizes
      <4> QED  BY <4>1, <4>2
    <3> QED  BY <3>1
  <2>2. CASE c.req.op # "from"
    BY <1>4, <1>5, <2>1, <2>2, Sizes DEF LoopInv
  <2>3. CASE c.req.op = "from" /\ c.i = 0
    BY <1>4, <1>5, <2>1, <2>3, Sizes DEF LoopInv
  <2>4. CASE c.req.op = "from" /\ c.i # 0
    <3>1. PICK j \in Nat : c.i = j + 1 /\ j = c.i - 1
      BY <1>4, <2>4
    <3>2. c.done = Front(c.req, j) * PageCells /\ c.last = Front(c.req, j + 1) - Front(c.req, j)
      BY <2>4, <3>1 DEF LoopInv
    <3>3. Front(c.req, j) \in Nat /\ Front(c.req, j + 1) \in Nat
      BY <1>5, <3>1
    <3>4. Least(HalfPages, Pages(c.req.len) - Front(c.req, j)) <= HalfPages
      BY <1>4, <3>3, Sizes DEF Least
    <3>5. Front(c.req, j + 1) - Front(c.req, j) <= HalfPages /\ Front(c.req, j) <= Front(c.req, j + 1)
      BY <1>5, <3>4
    <3> QED  BY <2>1, <3>2, <3>3, <3>5, Sizes
  <2> QED  BY <2>2, <2>3, <2>4
<1> QED  BY <1>2, <1>3, <1>4, <1>5, <1>6, <1>7, <1>8

LEMMA Entered ==
  ASSUME NEW c \in Calls \cup {NoCall}
  PROVE  LoopInv(Locals(c)) /\ Locals(c) \in Local /\ Locals(c).req = c /\ Locals(c).i = 0
<1> DEFINE k == Locals(c)
<1>1. /\ k.req = c /\ k.at = FirstPage(c.at) /\ k.left = Pages(c.len) /\ k.i = 0
      /\ k.n = Passes(c) /\ k.done = 0 /\ k.last = 0 /\ k.seen = 0
  BY DEF Locals, Passes
<1>2. c.len \in Nat /\ c.at \in Nat /\ c \in Requests
  BY ACall, NoRequest
<1>3. k \in [req : {c}, at : {FirstPage(c.at)}, left : {Pages(c.len)}, i : {0}, n : {Passes(c)},
             done : {0}, last : {0}, seen : {0}]
  BY DEF Locals, Passes
<1> HIDE DEF k
<1>4. Front(k.req, 0) = 0 /\ k.n \in Nat /\ Pages(c.len) \in Nat /\ FirstPage(c.at) \in Nat
  BY <1>1, <1>2, Fronts, FirstPages
<1>5. 0 * PageCells = 0
  BY Sizes
<1>6. LoopInv(k)
  BY <1>1, <1>4, <1>5 DEF LoopInv
<1>7. k \in Local
  BY <1>1, <1>2, <1>3, <1>4 DEF Local
<1> QED  BY <1>1, <1>6, <1>7 DEF k

(* A pass of the loop ends.                                                *)
LEMMA NextPass ==
  ASSUME NEW c, c \in Local, LoopInv(c), c.i < c.n, NEW d,
         \/ /\ c.req.op = "to"
            /\ d = [c EXCEPT !.i = @ + 1, !.at = @ + Cur(c),
                             !.left = @ - Cur(c), !.done = @ + Cur(c) * PageCells]
         \/ /\ c.req.op = "from"
            /\ d = [c EXCEPT !.i = @ + 1, !.at = @ + Cur(c),
                             !.left = @ - Cur(c), !.last = Cur(c),
                             !.done = @ + c.last * PageCells]
  PROVE  LoopInv(d) /\ d \in Local /\ d.req = c.req /\ d.n = c.n /\ d.i = c.i + 1 /\ d.seen = c.seen
<1>1. PICK i \in Nat : i = c.i
  BY Copies
<1>2. /\ d.req = c.req /\ d.n = c.n /\ d.i = i + 1 /\ d.seen = c.seen
      /\ d.at = c.at + Cur(c) /\ d.left = c.left - Cur(c)
      /\ c.req.op = "to" => d.done = c.done + Cur(c) * PageCells /\ d.last = c.last
      /\ c.req.op = "from" => d.done = c.done + c.last * PageCells /\ d.last = Cur(c)
  BY <1>1 DEF Local
<1>3. /\ c.req.len \in Nat /\ c.n = Passes(c.req) /\ c.n \in Nat
      /\ FirstPage(c.req.at) \in Nat
  BY Copies
<1>4. \A j : Front(d.req, j) = Front(c.req, j)
  BY <1>2 DEF Front
<1>5. Cur(c) = Front(c.req, i + 1) - Front(c.req, i)
  BY <1>1, <1>3, Fronts DEF Cur, LoopInv
<1>6. PICK f \in Nat, g \in Nat, P \in Nat : f = Front(c.req, i) /\ g = Front(c.req, i + 1) /\ P = Pages(c.req.len)
  BY <1>1, <1>3, FrontNat
<1>7. c.at = FirstPage(c.req.at) + f /\ c.left = P - f
  BY <1>1, <1>6 DEF LoopInv
<1>8. d.at = FirstPage(d.req.at) + Front(d.req, d.i) /\ d.left = Pages(d.req.len) - Front(d.req, d.i)
  BY <1>2, <1>3, <1>4, <1>5, <1>6, <1>7
<1>9. \A a, b \in Nat : /\ (a - b) * PageCells = a * PageCells - b * PageCells
                       /\ a * PageCells \in Int
  BY Sizes
<1>10. ASSUME c.req.op = "to" PROVE LoopInv(d)
  <2>1. c.done = f * PageCells /\ c.last = 0
    BY <1>1, <1>6, <1>10 DEF LoopInv
  <2>2. d.done = g * PageCells
    BY <1>2, <1>5, <1>6, <1>9, <1>10, <2>1
  <2>3. d.last = 0
    BY <1>2, <1>10, <2>1
  <2>4. LoopInv(d)
    <3>1. d.i \in 0 .. d.n /\ d.seen \in Nat /\ d.req \in Calls \cup {NoCall} /\ d.n = Passes(d.req)
      BY <1>1, <1>2, <1>3 DEF LoopInv
    <3> QED  BY <1>2, <1>4, <1>6, <1>8, <1>10, <2>2, <2>3, <3>1 DEF LoopInv
  <2> QED  BY <2>4
<1>11. ASSUME c.req.op = "from" PROVE LoopInv(d)
  <2>1. c.i = 0 => c.done = 0 * PageCells /\ c.last = 0 /\ f = 0
    BY <1>1, <1>3, <1>6, <1>11, Fronts DEF LoopInv
  <2>2. d.done = f * PageCells
    <3>1. CASE i = 0
      <4>1. 0 * PageCells = 0
        BY Sizes
      <4> QED  BY <1>1, <1>2, <1>11, <2>1, <3>1, <4>1
    <3>2. CASE i # 0
      <4>1. PICK e \in Nat : e = Front(c.req, i - 1)
        BY <1>1, <1>3, <3>2, FrontNat
      <4>2. c.done = e * PageCells /\ c.last = f - e
        BY <1>1, <1>6, <1>11, <3>2, <4>1 DEF LoopInv
      <4> QED  BY <1>2, <1>6, <1>9, <1>11, <4>1, <4>2
    <3> QED  BY <3>1, <3>2
  <2>3. d.last = g - f
    BY <1>2, <1>5, <1>6, <1>11
  <2>4. LoopInv(d)
    <3>1. d.i \in 0 .. d.n /\ d.seen \in Nat /\ d.req \in Calls \cup {NoCall} /\ d.n = Passes(d.req)
          /\ d.i # 0 /\ d.i - 1 = i
      BY <1>1, <1>2, <1>3 DEF LoopInv
    <3> QED  BY <1>2, <1>4, <1>6, <1>8, <1>11, <2>2, <2>3, <3>1 DEF LoopInv
  <2> QED  BY <2>4
<1>12. LoopInv(d)
  <2>1. c.req.op \in {"to", "from"}
    OBVIOUS
  <2> QED  BY <1>10, <1>11, <2>1
<1>13. d \in [req : {d.req}, at : {d.at}, left : {d.left}, i : {d.i}, n : {d.n},
             done : {d.done}, last : {d.last}, seen : {d.seen}]
  BY DEF Local
<1>14. /\ d.req \in Requests /\ d.at \in Nat /\ d.left \in Nat /\ d.i \in Nat /\ d.n \in Nat
       /\ d.done \in Nat /\ d.last \in Nat /\ d.seen \in Nat
  BY <1>12, Copies, Sizes
<1>15. d \in Local
  BY ONLY <1>13, <1>14 DEF Local
<1> QED  BY <1>1, <1>2, <1>12, <1>15

-----------------------------------------------------------------------------
(* What stays as it is keeps its type.                                     *)
LEMMA HostSame == ASSUME UNCHANGED hostVars PROVE
  (HostTypes => HostTypes') /\ (Loops => Loops') /\ (Alone => Alone')
<1> USE DEF hostVars
<1>1. HostTypes => HostTypes'
  BY DEF HostTypes
<1>2. Loops => Loops'
  BY DEF Loops, InLoop
<1>3. Alone => Alone'
  BY DEF Alone
<1> QED  BY <1>1, <1>2, <1>3

LEMMA LinkSame ==
  ASSUME up' = up, \A s \in Threads : pc[s] = "load" => pc'[s] = "load", LinkTypes
  PROVE  LinkTypes'
<1>1. \A k \in 1 .. Len(up) : Answer(k) => up[k].thread \in Threads
  <2> TAKE k \in 1 .. Len(up)
  <2>1. up[k] \in LinkWord
    BY DEF LinkTypes
  <2> QED  BY <2>1 DEF LinkWord, Answer
<1>2. OneAnswer'
  BY <1>1 DEF LinkTypes, OneAnswer, Answer
<1> QED  BY <1>2 DEF LinkTypes

LEMMA CommandSame ==
  ASSUME UNCHANGED <<down, hostMemTemp, fpgaMemTemp, dmaCmdQ>>,
         \A s \in Threads : pc'[s] = "command" => pc[s] = "command" /\ call'[s] = call[s], CommandTypes
  PROVE  CommandTypes'
<1>1. ASSUME NEW a, \A s \in Threads : ArgsOf(s, a) PROVE \A s \in Threads : ArgsOf(s, a)'
  BY <1>1 DEF ArgsOf
<1>2. CommandsFit'
  BY <1>1 DEF CommandTypes, CommandsFit
<1> QED  BY <1>2 DEF CommandTypes

LEMMA BurstSame ==
  ASSUME UNCHANGED <<hostMemOff, memReadLeft, memWriteLeft, dmaReadWordCntQ, dramReadWordCntQ,
                     dramWrite, dramRead>>, BurstTypes
  PROVE  BurstTypes'
BY DEF BurstTypes, BurstsFit

LEMMA ReadSame ==
  ASSUME UNCHANGED <<freeTags, dmaReadTagOrderQ, reads, vDmaReadWords>>, ReadTypes
  PROVE  ReadTypes'
BY DEF ReadTypes

LEMMA WriteSame ==
  ASSUME UNCHANGED <<dramReadWordQ, pcieWriteReqQ>>, WriteTypes
  PROVE  WriteTypes'
BY DEF WriteTypes

LEMMA MemorySame ==
  ASSUME UNCHANGED <<dmabuf, mem, before, doneVars>>, MemoryTypes
  PROVE  MemoryTypes'
BY DEF MemoryTypes, doneVars

(* What a step of the program leaves to the FPGA.                          *)
LEMMA FpgaSame ==
  ASSUME UNCHANGED <<hostMemOff, memReadLeft, memWriteLeft, toVars, fromVars>>,
         BurstTypes, ReadTypes, WriteTypes
  PROVE  BurstTypes' /\ ReadTypes' /\ WriteTypes'
BY BurstSame, ReadSame, WriteSame DEF toVars, fromVars

-----------------------------------------------------------------------------
LEMMA TypeStart == Init => TypeInv
<1> SUFFICES ASSUME Init PROVE TypeInv
  OBVIOUS
<1> USE DEF Init
<1>1. NoCall \in Calls \cup {NoCall} /\ \A c : c = Idle => LoopInv(c) /\ c \in Local /\ c.req = NoCall /\ c.i = 0
  BY Entered DEF Idle
<1>2. HostTypes
  BY <1>1 DEF HostTypes
<1>3. Loops
  BY <1>1 DEF Loops, InLoop
<1>4. Alone
  BY DEF Alone
<1>5. LinkTypes
  BY DEF LinkTypes, OneAnswer
<1>6. CommandTypes
  <2>1. Path(Args, down, [host |-> 0, fpga |-> 0], [host |-> 0, fpga |-> 0], ArgMoves)
    BY PathEmpty DEF Args
  <2>2. \A s \in Threads : ArgsOf(s, [host |-> 0, fpga |-> 0])
    BY DEF ArgsOf
  <2>3. [host |-> 0, fpga |-> 0] \in Args
    BY DEF Args
  <2>4. CommandsFit
    BY <2>1, <2>2, <2>3 DEF CommandsFit
  <2> QED  BY <2>4, HostDmaAssumption DEF CommandTypes
<1>7. BurstTypes
  BY DEF BurstTypes, BurstsFit, Bursts
<1>8. ReadTypes
  BY DEF ReadTypes
<1>9. WriteTypes
  BY HostDmaAssumption DEF WriteTypes
<1>10. MemoryTypes
  BY DEF MemoryTypes, Cells, MemCells
<1> QED  BY <1>2, <1>3, <1>4, <1>5, <1>6, <1>7, <1>8, <1>9, <1>10 DEF TypeInv

-----------------------------------------------------------------------------
(* The steps of the program.                                               *)
(* A thread moves on.                                                      *)
LEMMA Moves ==
  ASSUME HostTypes, NEW t \in Threads, NEW v, pc' = [pc EXCEPT ![t] = v]
  PROVE  /\ pc'[t] = v /\ \A s \in Threads : s # t => pc'[s] = pc[s]
         /\ v \in {"idle", "lock", "chunk", "arguments", "command", "poll", "load", "seen"} =>
              pc' \in [Threads -> {"idle", "lock", "chunk", "arguments", "command", "poll", "load", "seen"}]
BY DEF HostTypes

LEMMA TypeConstruct ==
  ASSUME TypeInv, NEW t \in Threads, Construct(t) PROVE TypeInv'
<1> USE DEF Construct
<1>1. HostTypes /\ Loops /\ Alone
  BY DEF TypeInv
<1>2. pc'[t] = "poll" /\ (\A s \in Threads : s # t => pc'[s] = pc[s])
      /\ pc' \in [Threads -> {"idle", "lock", "chunk", "arguments", "command", "poll", "load", "seen"}]
  BY <1>1, Moves
<1>3. HostTypes'
  BY <1>1, <1>2 DEF HostTypes
<1>4. Loops'
  BY <1>1, <1>2 DEF Loops, InLoop
<1>5. Alone'
  BY <1>1, <1>2 DEF Alone
<1>6. LinkTypes'
  BY <1>2, LinkSame DEF TypeInv, linkVars
<1>7. CommandTypes'
  BY <1>2, CommandSame DEF TypeInv, linkVars, cmdVars
<1>8. BurstTypes' /\ ReadTypes' /\ WriteTypes'
  BY FpgaSame DEF TypeInv, cmdVars
<1>9. MemoryTypes'
  BY MemorySame DEF TypeInv
<1> QED  BY <1>3, <1>4, <1>5, <1>6, <1>7, <1>8, <1>9 DEF TypeInv

LEMMA TypeEnter ==
  ASSUME TypeInv, NEW t \in Threads, NEW c \in Calls, Enter(t, c) PROVE TypeInv'
<1> USE DEF Enter
<1>1. HostTypes /\ Loops /\ Alone
  BY DEF TypeInv
<1>2. pc'[t] = "lock" /\ (\A s \in Threads : s # t => pc'[s] = pc[s])
      /\ pc' \in [Threads -> {"idle", "lock", "chunk", "arguments", "command", "poll", "load", "seen"}]
  BY <1>1, Moves
<1>3. /\ LoopInv(Locals(c)) /\ Locals(c) \in Local /\ Locals(c).req = c /\ Locals(c).i = 0 /\ c # NoCall
      /\ c.len \in Nat
  BY Entered, ACall
<1>4. /\ call'[t] = Locals(c) /\ \A s \in Threads : s # t => call'[s] = call[s]
  BY <1>1 DEF HostTypes
<1>5. HostTypes'
  <2>1. call' \in [Threads -> Local] /\ user' = [s \in Threads |-> user'[s]]
    BY <1>1, <1>3 DEF HostTypes
  <2>2. /\ user'[t] = [k \in 0 .. c.len + HalfCells - 1 |-> Junk]
        /\ \A s \in Threads : s # t => user'[s] = user[s]
    BY <1>1 DEF HostTypes
  <2>3. ASSUME NEW s \in Threads, call'[s].req # NoCall
        PROVE  user'[s] \in [0 .. call'[s].req.len + HalfCells - 1 -> Cells]
    <3>1. CASE s = t
      BY <1>3, <1>4, <2>2, <3>1 DEF Cells
    <3>2. CASE s # t
      BY <1>1, <1>4, <2>2, <2>3, <3>2 DEF HostTypes
    <3> QED  BY <3>1, <3>2
  <2> QED  BY <1>1, <1>2, <2>1, <2>3 DEF HostTypes
<1>6. Loops'
  BY <1>1, <1>2, <1>3, <1>4 DEF Loops, InLoop
<1>7. Alone'
  BY <1>1, <1>2 DEF Alone
<1>8. LinkTypes'
  BY <1>2, LinkSame DEF TypeInv, linkVars
<1>9. CommandTypes'
  BY <1>2, <1>4, CommandSame DEF TypeInv, linkVars, cmdVars
<1>10. BurstTypes' /\ ReadTypes' /\ WriteTypes'
  BY FpgaSame DEF TypeInv, cmdVars
<1>11. MemoryTypes'
  BY MemorySame DEF TypeInv
<1> QED  BY <1>5, <1>6, <1>7, <1>8, <1>9, <1>10, <1>11 DEF TypeInv

LEMMA TypeLock ==
  ASSUME TypeInv, NEW t \in Threads, Lock(t) PROVE TypeInv'
<1> USE DEF Lock
<1>1. HostTypes /\ Loops /\ Alone
  BY DEF TypeInv
<1>2. pc'[t] = LoopHead(call[t]) /\ (\A s \in Threads : s # t => pc'[s] = pc[s])
      /\ pc'[t] = (IF call[t].i < call[t].n THEN "chunk" ELSE "poll")
      /\ pc' \in [Threads -> {"idle", "lock", "chunk", "arguments", "command", "poll", "load", "seen"}]
  BY <1>1, Moves DEF LoopHead
<1>3. HostTypes'
  BY <1>1, <1>2 DEF HostTypes
<1>4. Loops'
  BY <1>1, <1>2 DEF Loops, InLoop
<1>5. Alone'
  BY <1>1, <1>2, HostDmaAssumption DEF Alone
<1>6. LinkTypes'
  BY <1>2, LinkSame DEF TypeInv, linkVars
<1>7. CommandTypes'
  BY <1>2, CommandSame DEF TypeInv, linkVars, cmdVars
<1>8. BurstTypes' /\ ReadTypes' /\ WriteTypes'
  BY FpgaSame DEF TypeInv, cmdVars
<1>9. MemoryTypes'
  BY DEF TypeInv, MemoryTypes, doneVars
<1> QED  BY <1>3, <1>4, <1>5, <1>6, <1>7, <1>8, <1>9 DEF TypeInv

LEMMA TypeStartChunk ==
  ASSUME TypeInv, NEW t \in Threads, StartChunk(t) PROVE TypeInv'
<1> USE DEF StartChunk
<1>1. HostTypes /\ Loops /\ Alone
  BY DEF TypeInv
<1>2. pc'[t] = "arguments" /\ (\A s \in Threads : s # t => pc'[s] = pc[s])
      /\ pc' \in [Threads -> {"idle", "lock", "chunk", "arguments", "command", "poll", "load", "seen"}]
  BY <1>1, Moves
<1>3. HostTypes'
  BY <1>1, <1>2 DEF HostTypes
<1>4. Loops'
  BY <1>1, <1>2 DEF Loops, InLoop
<1>5. Alone'
  BY <1>1, <1>2 DEF Alone
<1>6. LinkTypes'
  BY <1>2, LinkSame DEF TypeInv, linkVars
<1>7. CommandTypes'
  BY <1>2, CommandSame DEF TypeInv, linkVars, cmdVars
<1>8. BurstTypes' /\ ReadTypes' /\ WriteTypes'
  BY FpgaSame DEF TypeInv, cmdVars
<1>9. dmabuf' \in [BufCells -> Cells]
  <2>1. CASE call[t].req.op # "to"
    BY <2>1 DEF TypeInv, MemoryTypes
  <2>2. CASE call[t].req.op = "to"
    <3> DEFINE c == call[t]
    <3>1. LoopInv(c)
      BY <1>1 DEF Loops
    <3>2. c.done \in Nat /\ c.req.len \in Nat /\ c.req.data \in Seq(Data) /\ Len(c.req.data) = c.req.len
      <4>1. c.req \in Calls
        BY <3>1, <2>2, NoRequest DEF LoopInv
      <4> QED  BY <2>2, <3>1, <4>1, ACall, Copies
    <3>3. Half(c.i) \in Nat
      <4>1. c.i \in Nat
        BY <3>1, Copies
      <4>2. \A j \in Nat : Half(j) \in Nat
        BY Halves
      <4> QED  BY <4>1, <4>2
    <3>4. ASSUME NEW k \in BufCells PROVE Filled(c)[k] \in Cells
      <4>1. k \in Nat /\ dmabuf[k] \in Cells /\ Pad \in Cells /\ Data \subseteq Cells
        BY Sizes, SMTT(40) DEF BufCells, TypeInv, MemoryTypes, Cells
      <4>2. PICK hi \in Nat, w \in Int : hi = Half(c.i) /\ w = c.done + (k - hi)
        BY <3>2, <3>3, <4>1
      <4>3. k \in hi .. Half(c.i) + Cur(c) * PageCells - 1 /\ w < c.req.len => w + 1 \in 1 .. Len(c.req.data)
        BY <3>2, <4>1, <4>2, SMTT(40)
      <4>4. k \in hi .. Half(c.i) + Cur(c) * PageCells - 1 /\ w < c.req.len => c.req.data[w + 1] \in Data
        BY <3>2, <4>3, ElementOfSeq
      <4>5. Filled(c)[k] = IF k \notin hi .. Half(c.i) + Cur(c) * PageCells - 1 THEN dmabuf[k]
                           ELSE IF w < c.req.len THEN c.req.data[w + 1] ELSE Pad
        BY <4>2 DEF Filled
      <4> QED  BY <4>1, <4>4, <4>5
    <3>5. dmabuf' = Filled(c) /\ Filled(c) = [k \in BufCells |-> Filled(c)[k]]
      BY <2>2 DEF Filled
    <3> HIDE DEF c
    <3> QED  BY <3>4, <3>5
  <2> QED  BY <2>1, <2>2
<1>10. MemoryTypes'
  BY <1>9 DEF TypeInv, MemoryTypes, doneVars
<1> QED  BY <1>3, <1>4, <1>5, <1>6, <1>7, <1>8, <1>10 DEF TypeInv

-----------------------------------------------------------------------------
(* Two entries put in together.                                            *)
LEMMA TwoMore ==
  ASSUME NEW S, NEW s \in Seq(S), NEW x \in S, NEW y \in S
  PROVE  s \o <<x, y>> = Append(Append(s, x), y)
OBVIOUS

(* A command's words are understood as they were meant.                    *)
LEMMA TypeArguments ==
  ASSUME TypeInv, NEW t \in Threads, Arguments(t) PROVE TypeInv'
<1> USE DEF Arguments
<1>1. HostTypes /\ Loops /\ Alone
  BY DEF TypeInv
<1>2. pc'[t] = "command" /\ (\A s \in Threads : s # t => pc'[s] = pc[s])
      /\ pc' \in [Threads -> {"idle", "lock", "chunk", "arguments", "command", "poll", "load", "seen"}]
  BY <1>1, Moves
<1>3. HostTypes'
  BY <1>1, <1>2 DEF HostTypes
<1>4. Loops'
  BY <1>1, <1>2 DEF Loops, InLoop
<1>5. Alone'
  BY <1>1, <1>2 DEF Alone
<1>6. LinkTypes'
  BY <1>2, LinkSame DEF TypeInv
<1>7. CommandTypes'
  <2>1. PICK h \in Nat, f \in Nat : h = HalfPage(call[t].i) /\ f = call[t].at
    <3>1. LoopInv(call[t])
      BY <1>1 DEF Loops
    <3>2. call[t].i \in Nat /\ call[t].at \in Nat
      BY <3>1, Copies
    <3>3. \A j \in Nat : HalfPage(j) \in Nat
      BY Halves
    <3> QED  BY <3>2, <3>3
  <2>2. PICK a \in Args : /\ Path(Args, down, [host |-> hostMemTemp, fpga |-> fpgaMemTemp], a, ArgMoves)
                          /\ \A s \in Threads : ArgsOf(s, a)
    BY DEF TypeInv, CommandTypes, CommandsFit
  <2> DEFINE b == [a EXCEPT !.host = h]
             d == [b EXCEPT !.fpga = f]
             one == Append(down, <<"host", h>>)
             two == Append(one, <<"fpga", f>>)
  <2> HIDE DEF b, d
  <2>3. b \in Args /\ d \in Args /\ d = [host |-> h, fpga |-> f] /\ <<"host", h>> \in Words /\ <<"fpga", f>> \in Words
    <3>1. a.host \in Nat /\ a.fpga \in Nat /\ a = [host |-> a.host, fpga |-> a.fpga]
      BY <2>2 DEF Args
    <3>2. b = [host |-> h, fpga |-> a.fpga]
      BY <3>1 DEF b
    <3>3. d = [host |-> h, fpga |-> f]
      BY <3>2 DEF d
    <3> QED  BY <2>1, <3>1, <3>2, <3>3 DEF Args, Words
  <2>4. <<a, <<"host", h>>, b>> \in ArgMoves /\ <<b, <<"fpga", f>>, d>> \in ArgMoves
    BY <2>2, <2>3 DEF ArgMoves, b, d
  <2>5. down \in Seq(Words)
    BY DEF TypeInv, CommandTypes
  <2> HIDE DEF b, d
  <2>6. one \in Seq(Words) /\ Path(Args, one, [host |-> hostMemTemp, fpga |-> fpgaMemTemp], b, ArgMoves)
    BY <2>2, <2>3, <2>4, <2>5, PathAppend, PutIn
  <2> HIDE DEF one
  <2>7. two \in Seq(Words) /\ Path(Args, two, [host |-> hostMemTemp, fpga |-> fpgaMemTemp], d, ArgMoves)
    BY <2>3, <2>4, <2>6, PathAppend, PutIn
  <2>8. down' = two
    BY <2>1, <2>3, <2>5, TwoMore DEF one
  <2>9. \A s \in Threads : ArgsOf(s, d)'
    <3>1. \A s \in Threads : pc'[s] = "command" => s = t
      BY <1>1, <1>2, HostDmaAssumption DEF Alone
    <3>2. call' = call
      OBVIOUS
    <3> QED  BY <2>1, <2>3, <3>1, <3>2 DEF ArgsOf
  <2>10. hostMemTemp' = hostMemTemp /\ fpgaMemTemp' = fpgaMemTemp /\ dmaCmdQ' = dmaCmdQ
    BY DEF cmdVars
  <2>11. Path(Args, down, [host |-> hostMemTemp, fpga |-> fpgaMemTemp], d, ArgMoves)'
    BY <2>7, <2>8, <2>10
  <2>12. CommandsFit'
    BY <2>3, <2>9, <2>10, <2>11 DEF TypeInv, CommandTypes, CommandsFit
  <2> QED  BY <2>7, <2>8, <2>10, <2>12 DEF TypeInv, CommandTypes
<1>8. BurstTypes' /\ ReadTypes' /\ WriteTypes'
  BY FpgaSame DEF TypeInv, cmdVars
<1>9. MemoryTypes'
  BY MemorySame DEF TypeInv
<1> QED  BY <1>3, <1>4, <1>5, <1>6, <1>7, <1>8, <1>9 DEF TypeInv

(* The pages of a chunk.                                                   *)
LEMMA ChunkFits ==
  ASSUME NEW c, LoopInv(c), c.req # NoCall, c.i < c.n
  PROVE  /\ c.req \in Calls /\ Cur(c) \in 1 .. HalfPages /\ c.at + Cur(c) <= FpgaPages
         /\ c.at = FirstPage(c.req.at) + Front(c.req, c.i) /\ Cur(c) = Front(c.req, c.i + 1) - Front(c.req, c.i)
         /\ HalfPage(c.i) \in {0, HalfPages} /\ c.i \in Nat
<1>1. PICK i \in Nat : i = c.i /\ i < c.n
  BY Copies
<1>2. c.req \in Calls
  BY DEF LoopInv
<1>3. PICK P \in Nat : P = Pages(c.req.len)
  BY Copies
<1>4. PICK f \in Nat, g \in Nat : f = Front(c.req, i) /\ g = Front(c.req, i + 1)
  <2>1. c.req.len \in Nat /\ c.n = Passes(c.req) /\ Pages(c.req.len) \in Nat
    BY Copies
  <2>2. \A j \in Nat : Front(c.req, j) \in 0 .. Pages(c.req.len)
    BY <2>1, Fronts
  <2>3. \A j \in Nat : Front(c.req, j) \in Nat
    BY <2>1, <2>2
  <2> QED  BY <2>3
<1>5. g - f \in 1 .. HalfPages /\ g - f = Least(HalfPages, P - f) /\ g <= P
  <2>1. i + 1 \in Nat
    OBVIOUS
  <2>2. g \in 0 .. P
    BY <1>3, <1>4, <2>1, Copies, Fronts
  <2>3. c.req.len \in Nat /\ c.n = Passes(c.req)
    BY Copies
  <2>4. i < Passes(c.req)
    BY <1>1, <2>3
  <2>5. Front(c.req, i + 1) - Front(c.req, i) \in 1 .. HalfPages
    BY <2>3, <2>4, Fronts
  <2>6. Front(c.req, i + 1) - Front(c.req, i) = Least(HalfPages, Pages(c.req.len) - Front(c.req, i))
    BY <2>3, Fronts
  <2>7. g \in Nat /\ P \in Nat /\ g <= P
    BY <2>2
  <2> QED  BY <1>3, <1>4, <2>5, <2>6, <2>7
<1>6. c.at = FirstPage(c.req.at) + f /\ c.left = P - f
  BY <1>1, <1>3, <1>4 DEF LoopInv
<1>7. FirstPage(c.req.at) \in Nat /\ FirstPage(c.req.at) + P <= FpgaPages
  BY <1>2, <1>3, ACall
<1>8. HalfPage(i) \in {0, HalfPages}
  BY Places
<1> QED  BY <1>1, <1>2, <1>4, <1>5, <1>6, <1>7, <1>8, Sizes DEF Cur

LEMMA TypeCommand ==
  ASSUME TypeInv, NEW t \in Threads, Command(t) PROVE TypeInv'
<1> USE DEF Command
<1>1. HostTypes /\ Loops /\ Alone
  BY DEF TypeInv
<1>2. pc'[t] = "poll" /\ (\A s \in Threads : s # t => pc'[s] = pc[s])
      /\ pc' \in [Threads -> {"idle", "lock", "chunk", "arguments", "command", "poll", "load", "seen"}]
  BY <1>1, Moves
<1> DEFINE c == call[t]
<1>3. inst = "ready" /\ LoopInv(c) /\ c.req # NoCall /\ c.i < c.n
  BY <1>1 DEF Loops, Alone, InLoop
<1>4. PICK op \in {"to", "from"}, p \in Nat : op = c.req.op /\ p = Cur(c)
  BY <1>3, ACall, ChunkFits
<1>5. HostTypes'
  <2>1. issued' \in [to : Nat, from : Nat]
    BY <1>1, <1>4, SMTT(40) DEF HostTypes
  <2> QED  BY <1>1, <1>2, <2>1 DEF HostTypes
<1>6. Loops'
  BY <1>1, <1>2 DEF Loops, InLoop
<1>7. Alone'
  BY <1>1, <1>2 DEF Alone
<1>8. LinkTypes'
  BY <1>2, LinkSame DEF TypeInv
<1>9. CommandTypes'
  <2>1. PICK a \in Args : /\ Path(Args, down, [host |-> hostMemTemp, fpga |-> fpgaMemTemp], a, ArgMoves)
                          /\ \A s \in Threads : ArgsOf(s, a)
    BY DEF TypeInv, CommandTypes, CommandsFit
  <2>2. a.host = HalfPage(c.i) /\ a.fpga = c.at
    BY <2>1 DEF ArgsOf
  <2>3. Fits([op |-> op, host |-> a.host, fpga |-> a.fpga, pages |-> p])
    BY <1>3, <1>4, <2>2, ChunkFits DEF Fits
  <2>4. <<op, p>> \in Words
    BY <1>4 DEF Words
  <2>5. <<a, <<op, p>>, a>> \in ArgMoves
    BY <1>4, <2>3, <2>4 DEF ArgMoves
  <2>6. down \in Seq(Words) /\ down' = Append(down, <<op, p>>)
    BY <1>4 DEF TypeInv, CommandTypes
  <2> DEFINE one == Append(down, <<op, p>>)
  <2> HIDE DEF c
  <2>7. one \in Seq(Words) /\ Path(Args, one, [host |-> hostMemTemp, fpga |-> fpgaMemTemp], a, ArgMoves)
    BY <2>1, <2>4, <2>5, <2>6, PathAppend, PutIn
  <2>8. hostMemTemp' = hostMemTemp /\ fpgaMemTemp' = fpgaMemTemp /\ dmaCmdQ' = dmaCmdQ
    BY DEF cmdVars
  <2>9. \A s \in Threads : ArgsOf(s, a)'
    BY <1>2, <2>1 DEF ArgsOf
  <2>10. CommandsFit'
    BY <2>1, <2>6, <2>7, <2>8, <2>9 DEF TypeInv, CommandTypes, CommandsFit
  <2> QED  BY <2>6, <2>7, <2>8, <2>10 DEF TypeInv, CommandTypes
<1>10. BurstTypes' /\ ReadTypes' /\ WriteTypes'
  BY FpgaSame DEF TypeInv, cmdVars
<1>11. MemoryTypes'
  BY MemorySame DEF TypeInv
<1> QED  BY <1>5, <1>6, <1>7, <1>8, <1>9, <1>10, <1>11 DEF TypeInv

LEMMA TypeNextChunk ==
  ASSUME TypeInv, NEW t \in Threads, NextChunk(t) PROVE TypeInv'
<1>1. HostTypes /\ Loops /\ Alone
  BY DEF TypeInv
<1> DEFINE c == call[t]
           d == call'[t]
<1>2. pc[t] = "seen" /\ c.i < c.n /\ c.req.op \in {"to", "from"}
  BY DEF NextChunk
<1>3. inst = "ready" /\ inst' = "ready" /\ LoopInv(c) /\ c \in Local
  BY <1>1, <1>2, SMTT(40) DEF Loops, Alone, HostTypes, NextChunk
<1>4. /\ LoopInv(d) /\ d \in Local /\ d.req = c.req /\ d.n = c.n /\ d.i = c.i + 1
      /\ \A s \in Threads : s # t => call'[s] = call[s]
  <2>1. \/ /\ c.req.op = "to"
           /\ d = [c EXCEPT !.i = @ + 1, !.at = @ + Cur(c),
                            !.left = @ - Cur(c), !.done = @ + Cur(c) * PageCells]
        \/ /\ c.req.op = "from"
           /\ d = [c EXCEPT !.i = @ + 1, !.at = @ + Cur(c),
                            !.left = @ - Cur(c), !.last = Cur(c),
                            !.done = @ + c.last * PageCells]
    BY <1>1 DEF NextChunk, HostTypes
  <2>2. \A s \in Threads : s # t => call'[s] = call[s]
    BY <1>1 DEF NextChunk, HostTypes
  <2> HIDE DEF c, d
  <2> QED  BY <1>2, <1>3, <2>1, <2>2, NextPass
<1>5. pc'[t] = (IF d.i < d.n THEN "chunk" ELSE "poll") /\ (\A s \in Threads : s # t => pc'[s] = pc[s])
      /\ pc' \in [Threads -> {"idle", "lock", "chunk", "arguments", "command", "poll", "load", "seen"}]
  BY <1>1, Moves DEF LoopHead, NextChunk
<1>6. HostTypes'
  <2>1. call' \in [Threads -> Local]
    BY <1>1, <1>4 DEF HostTypes, NextChunk
  <2>2. \A s \in Threads : s # t => user'[s] = user[s]
    BY <1>1 DEF HostTypes, NextChunk
  <2>3. user' = [s \in Threads |-> user'[s]]
    BY <1>1 DEF HostTypes, NextChunk
  <2>4. user[t] \in [0 .. c.req.len + HalfCells - 1 -> Cells]
    BY <1>1, <1>2, <1>3 DEF HostTypes, Loops
  <2>5. user'[t] \in [0 .. c.req.len + HalfCells - 1 -> Cells]
    <3>1. CASE c.req.op = "to"
      BY <2>4, <3>1 DEF NextChunk
    <3>2. CASE c.req.op = "from"
      <4>1. PICK h \in {0, HalfCells}, n \in 0 .. HalfCells, o \in Nat :
              h = Half(c.i + 1) /\ n = c.last * PageCells /\ o = c.done
        <5>1. c.i + 1 \in Nat /\ c.last \in 0 .. HalfPages /\ c.done \in Nat
          BY <1>3, Copies
        <5>2. \A j \in Nat : Half(j) \in {0, HalfCells}
          BY Places
        <5>3. \A p \in 0 .. HalfPages : p * PageCells \in 0 .. HalfCells
          <6> TAKE p \in 0 .. HalfPages
          <6>1. PageCells * p \in Int /\ PageCells * p >= 0 /\ PageCells * p = p * PageCells
            BY Sizes
          <6>2. p < HalfPages => PageCells * HalfPages - PageCells * p >= PageCells
            BY Sizes, Times
          <6>3. PageCells * HalfPages = HalfCells /\ HalfCells \in Nat
            BY Sizes
          <6> QED  BY <6>1, <6>2, <6>3, Sizes
        <5> QED  BY <5>1, <5>2, <5>3
      <4>2. user'[t] = Drained(user[t], o, h, n, 0)
        BY <1>1, <3>2, <4>1 DEF NextChunk, HostTypes
      <4>3. ASSUME NEW k \in DOMAIN user[t] PROVE Drained(user[t], o, h, n, 0)[k] \in Cells
        <5>1. k \in o .. o + n - 1 => h + (k - o) \in BufCells
          BY <4>1, Sizes DEF BufCells
        <5>2. k \in o .. o + n - 1 => dmabuf[h + (k - o)] \in Cells
          BY <5>1 DEF TypeInv, MemoryTypes
        <5>3. user[t][k] \in Cells /\ Pad \in Cells
          BY <2>4, <4>3 DEF Cells
        <5> QED  BY <4>3, <5>2, <5>3 DEF Drained
      <4>4. Drained(user[t], o, h, n, 0) = [k \in DOMAIN user[t] |-> Drained(user[t], o, h, n, 0)[k]]
        BY DEF Drained
      <4>5. DOMAIN user[t] = 0 .. c.req.len + HalfCells - 1
        BY <2>4
      <4> QED  BY <4>2, <4>3, <4>4, <4>5
    <3> QED  BY <1>2, <3>1, <3>2
  <2>6. ASSUME NEW s \in Threads, call'[s].req # NoCall
        PROVE  user'[s] \in [0 .. call'[s].req.len + HalfCells - 1 -> Cells]
    BY <1>1, <1>4, <2>2, <2>5, <2>6 DEF HostTypes
  <2>7. UNCHANGED <<mutex, inst, wTotal, rTotal, result, issued>>
    BY DEF NextChunk
  <2> QED  BY <1>1, <1>5, <2>1, <2>3, <2>6, <2>7 DEF HostTypes
<1>7. Loops'
  BY <1>1, <1>2, <1>3, <1>4, <1>5 DEF Loops, InLoop
<1>8. Alone'
  BY <1>1, <1>2, <1>3, <1>5 DEF Alone, NextChunk
<1>9. LinkTypes'
  BY <1>2, <1>5, LinkSame DEF TypeInv, linkVars, NextChunk
<1>10. CommandTypes'
  BY <1>4, <1>5, CommandSame DEF TypeInv, linkVars, cmdVars, NextChunk
<1>11. BurstTypes' /\ ReadTypes' /\ WriteTypes'
  BY FpgaSame DEF TypeInv, cmdVars, NextChunk
<1>12. MemoryTypes'
  BY MemorySame DEF TypeInv, NextChunk
<1> QED  BY <1>6, <1>7, <1>8, <1>9, <1>10, <1>11, <1>12 DEF TypeInv

-----------------------------------------------------------------------------
LEMMA TypeReturn ==
  ASSUME TypeInv, NEW t \in Threads, Return(t) PROVE TypeInv'
<1>1. HostTypes /\ Loops /\ Alone
  BY DEF TypeInv
<1>2. pc'[t] = "idle" /\ (\A s \in Threads : s # t => pc'[s] = pc[s])
      /\ pc' \in [Threads -> {"idle", "lock", "chunk", "arguments", "command", "poll", "load", "seen"}]
  BY <1>1, Moves DEF Return
<1> DEFINE c == call[t]
           rest == Least(c.req.len - c.done, HalfCells)
<1>3. pc[t] = "seen" /\ inst = "ready" /\ inst' = "ready" /\ mutex = t /\ mutex' = None
  BY <1>1 DEF Alone, Return
<1>4. /\ call'[t] = Idle /\ \A s \in Threads : s # t => call'[s] = call[s]
  BY <1>1 DEF Return, HostTypes
<1>5. LoopInv(Idle) /\ Idle \in Local /\ Idle.req = NoCall /\ Idle.i = 0
  BY Entered DEF Idle
<1>6. HostTypes'
  <2>1. call' \in [Threads -> Local]
    BY <1>1, <1>4, <1>5 DEF HostTypes, Return
  <2>2. \A s \in Threads : s # t => user'[s] = user[s]
    BY <1>1 DEF HostTypes, Return
  <2>3. user' = [s \in Threads |-> user'[s]] /\ result' = [s \in Threads |-> result'[s]]
    BY <1>1 DEF HostTypes, Return
  <2>4. \A s \in Threads : call'[s].req # NoCall =>
          user'[s] \in [0 .. call'[s].req.len + HalfCells - 1 -> Cells]
    BY <1>1, <1>4, <1>5, <2>2 DEF HostTypes
  <2>5. wTotal' \in Nat /\ rTotal' \in Nat
    BY <1>1 DEF HostTypes, Return, Local
  <2>6. UNCHANGED <<inst, issued>>
    BY DEF Return
  <2> QED  BY <1>1, <1>2, <1>3, <2>1, <2>3, <2>4, <2>5, <2>6 DEF HostTypes
<1>7. Loops'
  BY <1>1, <1>2, <1>3, <1>4, <1>5 DEF Loops, InLoop
<1>8. Alone'
  <2>1. \A s \in Threads : pc'[s] \in {"idle", "lock"}
    BY <1>1, <1>2, <1>3 DEF Alone
  <2> QED  BY <1>1, <1>2, <1>3, <2>1 DEF Alone
<1>9. LinkTypes'
  BY <1>2, <1>3, LinkSame DEF TypeInv, linkVars, Return
<1>10. CommandTypes'
  BY <1>2, <1>4, CommandSame DEF TypeInv, linkVars, cmdVars, Return
<1>11. BurstTypes' /\ ReadTypes' /\ WriteTypes'
  BY FpgaSame DEF TypeInv, cmdVars, Return
<1>12. MemoryTypes'
  BY MemorySame DEF TypeInv, Return
<1> QED  BY <1>6, <1>7, <1>8, <1>9, <1>10, <1>11, <1>12 DEF TypeInv

LEMMA TypeRestart ==
  ASSUME TypeInv, Restart PROVE TypeInv'
<1> USE DEF Restart
<1>1. HostTypes /\ Loops /\ Alone
  BY DEF TypeInv
<1>2. LoopInv(Idle) /\ Idle \in Local /\ Idle.req = NoCall /\ Idle.i = 0
  BY Entered DEF Idle
<1>3. HostTypes'
  BY <1>1, <1>2 DEF HostTypes
<1>4. Loops'
  BY <1>2 DEF Loops, InLoop
<1>5. Alone'
  BY HostDmaAssumption DEF Alone
<1>6. LinkTypes'
  BY LinkSame DEF TypeInv, linkVars
<1>7. CommandTypes'
  BY CommandSame DEF TypeInv, linkVars, cmdVars
<1>8. BurstTypes' /\ ReadTypes' /\ WriteTypes'
  BY FpgaSame DEF TypeInv, cmdVars
<1>9. MemoryTypes'
  BY MemorySame DEF TypeInv
<1> QED  BY <1>3, <1>4, <1>5, <1>6, <1>7, <1>8, <1>9 DEF TypeInv

LEMMA TypeReadStat ==
  ASSUME TypeInv, NEW t \in Threads, readStat(t) PROVE TypeInv'
<1> USE DEF readStat
<1>1. HostTypes /\ Loops /\ Alone
  BY DEF TypeInv
<1>2. pc'[t] = "load" /\ (\A s \in Threads : s # t => pc'[s] = pc[s])
      /\ pc' \in [Threads -> {"idle", "lock", "chunk", "arguments", "command", "poll", "load", "seen"}]
  BY <1>1, Moves
<1>3. HostTypes'
  BY <1>1, <1>2 DEF HostTypes
<1>4. Loops'
  BY <1>1, <1>2 DEF Loops, InLoop
<1>5. Alone'
  BY <1>1, <1>2 DEF Alone
<1>6. LinkTypes'
  <2> DEFINE w == [thread |-> t, count |-> Count(t)]
  <2>1. w \in LinkWord /\ "count" \in DOMAIN w /\ w.thread = t
    BY DEF LinkWord, Count, TypeInv, MemoryTypes
  <2> HIDE DEF w
  <2>2. /\ up \in Seq(LinkWord) /\ OneAnswer /\ up' = Append(up, w)
    BY DEF TypeInv, LinkTypes, w
  <2>3. /\ up' \in Seq(LinkWord) /\ Len(up') = Len(up) + 1 /\ Len(up) \in Nat
        /\ \A k \in 1 .. Len(up) : up'[k] = up[k] /\ up[k] \in LinkWord
        /\ up'[Len(up) + 1] = w
    BY <2>1, <2>2, PutIn
  <2>4. \A k \in 1 .. Len(up) : ~Answer(k)
    <3>1. ASSUME NEW k \in 1 .. Len(up), Answer(k) PROVE FALSE
      <4>1. up[k].thread \in Threads /\ pc[up[k].thread] = "load"
        BY <2>2, <2>3, <3>1 DEF OneAnswer, LinkWord, Answer
      <4> QED  BY <1>1, <4>1 DEF Alone
    <3> QED  BY <3>1
  <2>5. OneAnswer'
    BY <1>2, <2>1, <2>3, <2>4 DEF OneAnswer, Answer
  <2> QED  BY <2>3, <2>5 DEF LinkTypes
<1>7. CommandTypes'
  BY <1>2, CommandSame DEF TypeInv, cmdVars
<1>8. BurstTypes' /\ ReadTypes' /\ WriteTypes'
  BY FpgaSame DEF TypeInv, cmdVars
<1>9. MemoryTypes'
  BY MemorySame DEF TypeInv
<1> QED  BY <1>3, <1>4, <1>5, <1>6, <1>7, <1>8, <1>9 DEF TypeInv

(* What the link carries, after its first word has left.                   *)
LEMMA LinkTail ==
  ASSUME LinkTypes, up # <<>>, up' = Tail(up),
         \A s \in Threads : pc[s] = "load" /\ (Answer(1) => s # up[1].thread) => pc'[s] = "load"
  PROVE  LinkTypes' /\ Head(up) = up[1] /\ up[1] \in LinkWord /\ (Answer(1) => pc[up[1].thread] = "load")
<1>1. /\ up' \in Seq(LinkWord) /\ Len(up') = Len(up) - 1 /\ Len(up) \in Nat \ {0}
      /\ \A k \in 1 .. Len(up) - 1 : up'[k] = up[k + 1]
      /\ Head(up) = up[1] /\ up[1] \in LinkWord
  BY TakenOut DEF LinkTypes
<1>2. \A k \in 1 .. Len(up) : up[k] \in LinkWord /\ (Answer(k) => up[k].thread \in Threads)
  <2> TAKE k \in 1 .. Len(up)
  <2>1. up[k] \in LinkWord
    BY ElementOfSeq DEF LinkTypes
  <2> QED  BY <2>1 DEF LinkWord, Answer
<1>3. OneAnswer
  BY DEF LinkTypes
<1>4. ASSUME NEW k \in 1 .. Len(up'), Answer(k)'
      PROVE  k + 1 \in 1 .. Len(up) /\ Answer(k + 1) /\ up'[k] = up[k + 1] /\ ~Answer(1)
  BY <1>1, <1>3, <1>4 DEF OneAnswer, Answer
<1>5. OneAnswer'
  <2>1. ASSUME NEW k \in 1 .. Len(up'), Answer(k)' PROVE pc'[up'[k].thread] = "load"
    <3>1. k + 1 \in 1 .. Len(up) /\ Answer(k + 1) /\ up'[k] = up[k + 1] /\ ~Answer(1)
      BY <1>4, <2>1
    <3>2. pc[up[k + 1].thread] = "load" /\ up[k + 1].thread \in Threads
      BY <1>2, <1>3, <3>1 DEF OneAnswer
    <3> QED  BY <3>1, <3>2
  <2>2. ASSUME NEW k \in 1 .. Len(up'), NEW l \in 1 .. Len(up'), Answer(k)', Answer(l)' PROVE k = l
    <3>1. k + 1 \in 1 .. Len(up) /\ Answer(k + 1) /\ l + 1 \in 1 .. Len(up) /\ Answer(l + 1)
      BY <1>4, <2>2
    <3>2. k + 1 = l + 1
      BY <1>3, <3>1 DEF OneAnswer
    <3> QED  BY <3>2, <1>1
  <2> QED  BY <2>1, <2>2 DEF OneAnswer
<1>6. Answer(1) => pc[up[1].thread] = "load"
  BY <1>1, <1>3 DEF OneAnswer
<1> QED  BY <1>1, <1>5, <1>6 DEF LinkTypes

LEMMA TypeLandCell ==
  ASSUME TypeInv, LandCell PROVE TypeInv'
<1> USE DEF LandCell
<1>1. HostTypes' /\ Loops' /\ Alone'
  BY HostSame DEF TypeInv
<1>2. LinkTypes' /\ Head(up) = up[1] /\ up[1] \in LinkWord
  BY LinkTail DEF TypeInv, hostVars
<1>3. CommandTypes'
  BY CommandSame DEF TypeInv, hostVars, cmdVars
<1>4. BurstTypes' /\ ReadTypes' /\ WriteTypes'
  BY FpgaSame DEF TypeInv, cmdVars
<1>5. Head(up).addr \in BufCells /\ Head(up).cell \in Cells
  BY <1>2 DEF LinkWord
<1>6. MemoryTypes'
  BY <1>5 DEF TypeInv, MemoryTypes, hostVars, doneVars
<1> QED  BY <1>1, <1>2, <1>3, <1>4, <1>6 DEF TypeInv

LEMMA TypeLandCount ==
  ASSUME TypeInv, LandCount PROVE TypeInv'
<1>1. HostTypes /\ Loops /\ Alone /\ LinkTypes
  BY DEF TypeInv
<1>2. up # <<>> /\ up' = Tail(up) /\ "count" \in DOMAIN Head(up)
  BY DEF LandCount
<1>3. Head(up) = up[1] /\ up[1] \in LinkWord /\ Len(up) \in Nat \ {0}
  BY <1>1, <1>2, TakenOut DEF LinkTypes
<1> DEFINE t == Head(up).thread
           n == Head(up).count
<1>4. t \in Threads /\ n \in Nat /\ pc[t] = "load" /\ Answer(1) /\ t = up[1].thread
  BY <1>1, <1>2, <1>3 DEF LinkWord, LinkTypes, OneAnswer, Answer
<1>5. PICK v \in {"idle", "poll", "seen"} : pc' = [pc EXCEPT ![t] = v] /\ (inst = "ready" => v # "idle")
        /\ (inst = "write" => v = "poll") /\ (inst = "read" => v = "idle")
  BY DEF LandCount
<1> HIDE DEF t
<1>6. pc'[t] = v /\ (\A s \in Threads : s # t => pc'[s] = pc[s])
      /\ pc' \in [Threads -> {"idle", "lock", "chunk", "arguments", "command", "poll", "load", "seen"}]
  BY <1>1, <1>4, <1>5, Moves
<1>7. /\ call' \in [Threads -> Local]
      /\ \A s \in Threads : /\ call'[s].req = call[s].req /\ call'[s].i = call[s].i /\ call'[s].n = call[s].n
                            /\ s # t => call'[s] = call[s]
                            /\ LoopInv(call'[s])
  <2>1. CASE call' = call
    BY <1>1, <2>1 DEF HostTypes, Loops
  <2>2. CASE call' = [call EXCEPT ![t].seen = n]
    <3>1. ASSUME NEW s \in Threads, s # t PROVE call'[s] = call[s]
      BY <1>1, <2>2, <3>1 DEF HostTypes
    <3>2. call'[t] = [call[t] EXCEPT !.seen = n]
      BY <1>1, <1>4, <2>2 DEF HostTypes
    <3> HIDE DEF n
    <3>0. PICK c \in Local : c = call[t]
      BY <1>1, <1>4 DEF HostTypes
    <3> PICK d : d = [c EXCEPT !.seen = n]
      OBVIOUS
    <3>3. c = call[t] /\ d = [c EXCEPT !.seen = n]
      BY <3>0
    <3>4. d \in Local /\ d.req = c.req /\ d.at = c.at /\ d.left = c.left /\ d.i = c.i /\ d.n = c.n
          /\ d.done = c.done /\ d.last = c.last /\ d.seen = n
      BY <1>4, <3>3 DEF Local
    <3>5. LoopInv(c)
      BY <1>1, <1>4, <3>3 DEF Loops
    <3>6. LoopInv(d)
      BY <1>4, <3>4, <3>5 DEF LoopInv, Front
    <3>7. \A s \in Threads : s # t => call[s] \in Local /\ LoopInv(call[s])
      BY <1>1 DEF HostTypes, Loops
    <3>8. call' \in [Threads -> Local]
      BY <1>1, <2>2, <3>1, <3>2, <3>3, <3>4, <3>7 DEF HostTypes
    <3> QED  BY <3>1, <3>2, <3>3, <3>4, <3>6, <3>7, <3>8
  <2> QED  BY <2>1, <2>2 DEF LandCount, t
<1>8. UNCHANGED <<mutex, user, result, made, restarts, issued, before, down, cmdVars, toVars, fromVars,
                  doneVars, dmabuf, mem>>
  BY DEF LandCount
<1>9. /\ inst = "ready" => inst' = "ready"
      /\ inst = "write" => inst' = "read"
      /\ inst = "read" => inst' = "ready"
      /\ inst \in {"write", "read", "ready"}
  BY DEF LandCount
<1>10. HostTypes'
  <2>1. wTotal' \in Nat /\ rTotal' \in Nat
    BY <1>1, <1>4 DEF LandCount, HostTypes
  <2> QED  BY <1>1, <1>6, <1>7, <1>8, <1>9, <2>1 DEF HostTypes
<1>11. Loops'
  <2>1. inst # "ready" => \A s \in Threads : s # t => pc[s] = "idle"
    BY <1>1, <1>4 DEF Alone
  <2> QED  BY <1>1, <1>4, <1>5, <1>6, <1>7, <1>9, <2>1 DEF Loops, InLoop
<1>12. Alone'
  BY <1>1, <1>4, <1>5, <1>6, <1>8, <1>9 DEF Alone
<1>13. LinkTypes'
  BY <1>1, <1>2, <1>4, <1>6, LinkTail
<1>14. CommandTypes'
  <2>1. \A s \in Threads : pc'[s] = "command" => pc[s] = "command" /\ call'[s] = call[s]
    BY <1>5, <1>6, <1>7
  <2> QED  BY <1>8, <2>1, CommandSame DEF TypeInv, cmdVars
<1>15. BurstTypes' /\ ReadTypes' /\ WriteTypes'
  BY <1>8, FpgaSame DEF TypeInv, cmdVars
<1>16. MemoryTypes'
  BY <1>8, MemorySame DEF TypeInv
<1> QED  BY <1>10, <1>11, <1>12, <1>13, <1>14, <1>15, <1>16 DEF TypeInv

-----------------------------------------------------------------------------
(* The steps of the FPGA.                                                  *)
LEMMA HostAndLink ==
  ASSUME TypeInv, UNCHANGED hostVars, up' = up
  PROVE  HostTypes' /\ Loops' /\ Alone' /\ LinkTypes'
BY HostSame, LinkSame DEF TypeInv, hostVars

LEMMA TypeGetCmd ==
  ASSUME TypeInv, getCmd PROVE TypeInv'
<1> DEFINE w == Head(down)
<1>1. HostTypes' /\ Loops' /\ Alone' /\ LinkTypes'
  BY HostAndLink DEF getCmd
<1>2. CommandTypes'
  <2> DEFINE a == [host |-> hostMemTemp, fpga |-> fpgaMemTemp]
  <2>1. PICK z \in Args : Path(Args, down, a, z, ArgMoves) /\ \A s \in Threads : ArgsOf(s, z)
    BY DEF TypeInv, CommandTypes, CommandsFit
  <2>2. /\ down \in Seq(Words) /\ down # <<>> /\ down' = Tail(down)
        /\ down' \in Seq(Words) /\ w \in Words /\ w[1] \in {"host", "fpga", "to", "from"} /\ w[2] \in Nat
        /\ hostMemTemp \in Nat /\ fpgaMemTemp \in Nat
    BY TakenOut DEF TypeInv, CommandTypes, getCmd, Words
  <2> HIDE DEF a, w
  <2>3. PICK b \in Args : <<a, w, b>> \in ArgMoves /\ Path(Args, down', b, z, ArgMoves)
    BY <2>1, <2>2, PathTail DEF w
  <2>4. /\ w[1] = "host" => b = [a EXCEPT !.host = w[2]]
        /\ w[1] = "fpga" => b = [a EXCEPT !.fpga = w[2]]
        /\ w[1] \in {"to", "from"} =>
             b = a /\ Fits([op |-> w[1], host |-> a.host, fpga |-> a.fpga, pages |-> w[2]])
    BY <2>3 DEF ArgMoves
  <2>5. /\ b = [host |-> hostMemTemp', fpga |-> fpgaMemTemp']
        /\ hostMemTemp' \in Nat /\ fpgaMemTemp' \in Nat
        /\ dmaCmdQ' \in Seq(Commands) /\ Len(dmaCmdQ') <= CmdCap
        /\ \A k \in 1 .. Len(dmaCmdQ') : Fits(dmaCmdQ'[k])
    <3>1. a.host = hostMemTemp /\ a.fpga = fpgaMemTemp
      BY DEF a
    <3>2. dmaCmdQ \in Seq(Commands) /\ Len(dmaCmdQ) <= CmdCap /\ \A k \in 1 .. Len(dmaCmdQ) : Fits(dmaCmdQ[k])
      BY DEF TypeInv, CommandTypes, CommandsFit
    <3>3. CASE w[1] = "host"
      BY <2>2, <2>4, <3>1, <3>2, <3>3 DEF getCmd, a, w
    <3>4. CASE w[1] = "fpga"
      BY <2>2, <2>4, <3>1, <3>2, <3>4 DEF getCmd, a, w
    <3>5. CASE w[1] \in {"to", "from"}
      <4> DEFINE d == [op |-> w[1], host |-> hostMemTemp, fpga |-> fpgaMemTemp, pages |-> w[2]]
      <4>1. d \in Commands /\ Fits(d)
        BY <2>2, <2>4, <3>1, <3>5 DEF Commands
      <4> HIDE DEF d
      <4>2. dmaCmdQ' = Append(dmaCmdQ, d) /\ Len(dmaCmdQ) < CmdCap /\ hostMemTemp' = hostMemTemp
            /\ fpgaMemTemp' = fpgaMemTemp
        BY <3>5 DEF getCmd, d, w
      <4>3. /\ dmaCmdQ' \in Seq(Commands) /\ Len(dmaCmdQ') = Len(dmaCmdQ) + 1 /\ Len(dmaCmdQ) \in Nat
            /\ \A k \in 1 .. Len(dmaCmdQ) : dmaCmdQ'[k] = dmaCmdQ[k]
            /\ dmaCmdQ'[Len(dmaCmdQ) + 1] = d
        BY <3>2, <4>1, <4>2, PutIn
      <4>4. b = a
        BY <2>4, <3>5
      <4>5. \A k \in 1 .. Len(dmaCmdQ') : Fits(dmaCmdQ'[k])
        BY <3>2, <4>1, <4>3
      <4>6. Len(dmaCmdQ') <= CmdCap
        BY <4>2, <4>3, HostDmaAssumption
      <4> QED  BY <2>2, <4>2, <4>3, <4>4, <4>5, <4>6 DEF a
    <3> QED  BY <2>2, <3>3, <3>4, <3>5
  <2>6. \A s \in Threads : ArgsOf(s, z)'
    BY <2>1 DEF ArgsOf, getCmd, hostVars
  <2>7. CommandsFit'
    BY <2>1, <2>3, <2>5, <2>6 DEF CommandsFit
  <2> QED  BY <2>2, <2>5, <2>7 DEF CommandTypes
<1>3. BurstTypes' /\ ReadTypes' /\ WriteTypes'
  BY FpgaSame DEF TypeInv, getCmd
<1>4. MemoryTypes'
  BY MemorySame DEF TypeInv, getCmd, hostVars
<1> QED  BY <1>1, <1>2, <1>3, <1>4 DEF TypeInv

(* Pages of a command, in cells.                                           *)
LEMMA Paged ==
  ASSUME NEW d \in Commands, Fits(d)
  PROVE  /\ d.fpga * PageCells \in Nat /\ d.pages * PageCells \in Nat /\ HostCell(d.host) \in Nat
         /\ d.fpga * PageCells + d.pages * PageCells <= FpgaPages * PageCells
         /\ HostCell(d.host) + d.pages * PageCells <= 2 * HalfCells
<1>1. PICK h \in {0, HalfPages}, f \in Nat, p \in Nat :
        h = d.host /\ f = d.fpga /\ p = d.pages /\ p <= HalfPages /\ f + p <= FpgaPages
  BY DEF Commands, Fits
<1>2. \A a \in Nat : PageCells * a = a * PageCells /\ a * PageCells \in Nat
  <2> TAKE a \in Nat
  <2>1. PageCells * a = a * PageCells /\ PageCells * a \in Int /\ PageCells * a >= 0
    BY Sizes
  <2> QED  BY <2>1
<1>3. \A a, b \in Nat : a <= b => a * PageCells <= b * PageCells
  <2> TAKE a, b \in Nat
  <2>1. a < b => PageCells * b - PageCells * a >= PageCells
    BY Sizes, Times
  <2> QED  BY <1>2, <2>1, Sizes
<1>4. (f + p) * PageCells = f * PageCells + p * PageCells
  BY <1>1, Sizes
<1>5. f + p \in Nat /\ FpgaPages \in Nat /\ HalfPages \in Nat
  BY <1>1, Sizes
<1>6. (f + p) * PageCells <= FpgaPages * PageCells /\ p * PageCells <= HalfPages * PageCells
  BY <1>1, <1>3, <1>5
<1>7. h * PageCells \in {0, HalfCells}
  <2>1. 0 * PageCells = 0
    BY Sizes
  <2> QED  BY <1>1, <2>1, Sizes
<1> QED  BY <1>1, <1>2, <1>4, <1>6, <1>7, Sizes DEF HostCell

LEMMA TypeProcCmd ==
  ASSUME TypeInv, procCmd PROVE TypeInv'
<1> DEFINE d == Head(dmaCmdQ)
           burst == [at |-> d.fpga * PageCells, left |-> d.pages * PageCells]
<1>1. HostTypes' /\ Loops' /\ Alone' /\ LinkTypes'
  BY HostAndLink DEF procCmd, linkVars
<1>2. /\ dmaCmdQ \in Seq(Commands) /\ dmaCmdQ # <<>> /\ dmaCmdQ' = Tail(dmaCmdQ)
      /\ \A k \in 1 .. Len(dmaCmdQ) : Fits(dmaCmdQ[k])
      /\ Len(dmaCmdQ) <= CmdCap
  BY DEF TypeInv, CommandTypes, CommandsFit, procCmd
<1>3. /\ dmaCmdQ' \in Seq(Commands) /\ Len(dmaCmdQ') = Len(dmaCmdQ) - 1 /\ Len(dmaCmdQ) \in Nat \ {0}
      /\ \A k \in 1 .. Len(dmaCmdQ) - 1 : dmaCmdQ'[k] = dmaCmdQ[k + 1]
      /\ d = dmaCmdQ[1] /\ d \in Commands /\ Fits(d)
  BY <1>2, TakenOut
<1>4. CommandTypes'
  <2>1. Len(dmaCmdQ') <= CmdCap /\ \A k \in 1 .. Len(dmaCmdQ') : Fits(dmaCmdQ'[k])
    BY <1>2, <1>3, HostDmaAssumption
  <2>2. PICK z \in Args : /\ Path(Args, down, [host |-> hostMemTemp, fpga |-> fpgaMemTemp], z, ArgMoves)
                          /\ \A s \in Threads : ArgsOf(s, z)
    BY DEF TypeInv, CommandTypes, CommandsFit
  <2>3. down' = down /\ hostMemTemp' = hostMemTemp /\ fpgaMemTemp' = fpgaMemTemp /\ pc' = pc /\ call' = call
    BY DEF procCmd, linkVars, hostVars
  <2>4. CommandsFit'
    BY <2>1, <2>2, <2>3 DEF CommandsFit, ArgsOf
  <2> QED  BY <1>3, <2>1, <2>3, <2>4 DEF TypeInv, CommandTypes
<1>5. BurstTypes'
  <2>1. /\ burst \in Bursts /\ BurstFits(burst) /\ burst.left \in Nat /\ HostCell(d.host) \in Nat
        /\ HostCell(d.host) + burst.left <= 2 * HalfCells
    BY <1>3, Paged DEF Bursts, BurstFits
  <2>2. BurstTypes
    BY DEF TypeInv
  <2>3. /\ hostMemOff' = HostCell(d.host) /\ memReadLeft = 0 /\ memWriteLeft = 0
        /\ UNCHANGED <<dramWrite, dramRead>>
    BY DEF procCmd
  <2> HIDE DEF d
  <2>4. CASE d.op = "from"
    <3>1. /\ memWriteLeft' = burst.left /\ memReadLeft' = 0 /\ dmaReadWordCntQ' = dmaReadWordCntQ
          /\ dramReadWordCntQ' = Append(dramReadWordCntQ, burst)
      BY <2>3, <2>4 DEF procCmd, d
    <3> HIDE DEF burst
    <3>2. /\ dramReadWordCntQ' \in Seq(Bursts) /\ Len(dramReadWordCntQ') = Len(dramReadWordCntQ) + 1
          /\ Len(dramReadWordCntQ) \in Nat
          /\ \A k \in 1 .. Len(dramReadWordCntQ) : dramReadWordCntQ'[k] = dramReadWordCntQ[k]
          /\ dramReadWordCntQ'[Len(dramReadWordCntQ) + 1] = burst
      BY <2>1, <2>2, <3>1, PutIn DEF BurstTypes
    <3>3. \A k \in 1 .. Len(dramReadWordCntQ') : BurstFits(dramReadWordCntQ'[k])
      BY <2>1, <2>2, <3>2, SMTT(40) DEF BurstTypes, BurstsFit
    <3> QED  BY <2>1, <2>2, <2>3, <3>1, <3>2, <3>3 DEF BurstTypes, BurstsFit
  <2>5. CASE d.op = "to"
    <3>1. /\ memReadLeft' = burst.left /\ memWriteLeft' = 0 /\ dramReadWordCntQ' = dramReadWordCntQ
          /\ dmaReadWordCntQ' = Append(dmaReadWordCntQ, burst)
      BY <2>3, <2>5 DEF procCmd, d
    <3> HIDE DEF burst
    <3>2. /\ dmaReadWordCntQ' \in Seq(Bursts) /\ Len(dmaReadWordCntQ') = Len(dmaReadWordCntQ) + 1
          /\ Len(dmaReadWordCntQ) \in Nat
          /\ \A k \in 1 .. Len(dmaReadWordCntQ) : dmaReadWordCntQ'[k] = dmaReadWordCntQ[k]
          /\ dmaReadWordCntQ'[Len(dmaReadWordCntQ) + 1] = burst
      BY <2>1, <2>2, <3>1, PutIn DEF BurstTypes
    <3>3. \A k \in 1 .. Len(dmaReadWordCntQ') : BurstFits(dmaReadWordCntQ'[k])
      <4>1. \A k \in 1 .. Len(dmaReadWordCntQ) : BurstFits(dmaReadWordCntQ[k])
        BY <2>2 DEF BurstTypes, BurstsFit
      <4> QED  BY <2>1, <3>2, <4>1
    <3> QED  BY <2>1, <2>2, <2>3, <3>1, <3>2, <3>3 DEF BurstTypes, BurstsFit
  <2> QED  BY <1>3, <2>4, <2>5 DEF Commands
<1>6. ReadTypes' /\ WriteTypes'
  BY ReadSame, WriteSame DEF TypeInv, procCmd
<1>7. MemoryTypes'
  BY MemorySame DEF TypeInv, procCmd, hostVars
<1> QED  BY <1>1, <1>4, <1>5, <1>6, <1>7 DEF TypeInv

(* Reads of host memory.                                                   *)
LEMMA TypeSendDMARead ==
  ASSUME TypeInv, sendDMARead PROVE TypeInv'
<1>1. HostTypes' /\ Loops' /\ Alone' /\ LinkTypes'
  BY HostAndLink DEF sendDMARead, linkVars
<1>2. CommandTypes'
  BY CommandSame DEF TypeInv, sendDMARead, linkVars, hostVars
<1>3. /\ memReadLeft > 0 /\ memReadLeft' = memReadLeft - 1 /\ memReadLeft \in Nat
      /\ hostMemOff' = hostMemOff + 1 /\ hostMemOff \in Nat /\ hostMemOff + memReadLeft <= 2 * HalfCells
      /\ memWriteLeft = 0 /\ memWriteLeft' = 0
      /\ UNCHANGED <<dmaReadWordCntQ, dramReadWordCntQ, dramWrite, dramRead>>
  BY DEF TypeInv, BurstTypes, BurstsFit, sendDMARead, fromVars
<1>4. BurstTypes'
  <2>1. hostMemOff + 1 \in Nat /\ memReadLeft - 1 \in Nat
        /\ (hostMemOff + 1) + (memReadLeft - 1) <= 2 * HalfCells
    BY ONLY <1>3, Sizes
  <2> QED  BY <1>3, <2>1 DEF TypeInv, BurstTypes, BurstsFit
<1>5. hostMemOff \in BufCells
  BY <1>3, Sizes DEF BufCells
<1>6. ReadTypes'
  <2>1. PICK g \in freeTags :
          /\ freeTags' = freeTags \ {g}
          /\ dmaReadTagOrderQ' = Append(dmaReadTagOrderQ, g)
          /\ reads' = Append(reads, [tag |-> g, addr |-> hostMemOff, cell |-> None])
          /\ vDmaReadWords' = vDmaReadWords
    BY DEF sendDMARead
  <2>2. g \in ReadTags /\ [tag |-> g, addr |-> hostMemOff, cell |-> None]
            \in Request
    BY <1>5 DEF TypeInv, ReadTypes, Request
  <2> QED  BY <2>1, <2>2 DEF TypeInv, ReadTypes
<1>7. WriteTypes'
  BY WriteSame DEF TypeInv, sendDMARead, fromVars
<1>8. MemoryTypes'
  BY MemorySame DEF TypeInv, sendDMARead, hostVars
<1> QED  BY <1>1, <1>2, <1>4, <1>6, <1>7, <1>8 DEF TypeInv

LEMMA TypeMemoryRead ==
  ASSUME TypeInv, NEW k \in DOMAIN reads, MemoryRead(k) PROVE TypeInv'
<1> USE DEF MemoryRead
<1>1. HostTypes' /\ Loops' /\ Alone' /\ LinkTypes'
  BY HostAndLink DEF linkVars
<1>2. CommandTypes'
  BY CommandSame DEF TypeInv, linkVars, hostVars, cmdVars
<1>3. BurstTypes' /\ WriteTypes'
  BY BurstSame, WriteSame DEF TypeInv, fromVars, cmdVars
<1>4. ReadTypes'
  <2>1. reads \in Seq(Request)
    BY DEF TypeInv, ReadTypes
  <2>2. reads[k] \in Request
    BY <2>1
  <2>3. dmabuf[reads[k].addr] \in Cells
    BY <2>2 DEF Request, TypeInv, MemoryTypes
  <2> DEFINE r == [reads[k] EXCEPT !.cell = dmabuf[reads[k].addr]]
  <2>4. r \in Request
    BY <2>2, <2>3 DEF Request
  <2>5. reads' = [reads EXCEPT ![k] = r]
    OBVIOUS
  <2> HIDE DEF r
  <2>6. reads' \in Seq(Request)
    BY <2>1, <2>4, <2>5
  <2> QED  BY <2>6 DEF TypeInv, ReadTypes
<1>5. MemoryTypes'
  BY MemorySame DEF TypeInv, hostVars
<1> QED  BY <1>1, <1>2, <1>3, <1>4, <1>5 DEF TypeInv

LEMMA TypeGetDMARead ==
  ASSUME TypeInv, getDMARead PROVE TypeInv'
<1> USE DEF getDMARead
<1>1. HostTypes' /\ Loops' /\ Alone' /\ LinkTypes'
  BY HostAndLink DEF linkVars
<1>2. CommandTypes'
  BY CommandSame DEF TypeInv, linkVars, hostVars, cmdVars
<1>3. BurstTypes' /\ WriteTypes'
  BY BurstSame, WriteSame DEF TypeInv, fromVars, cmdVars
<1>4. ReadTypes'
  <2>1. /\ reads' \in Seq(Request)
        /\ Head(reads) \in Request
    BY TakenOut DEF TypeInv, ReadTypes
  <2>2. Head(reads).tag \in ReadTags /\ <<Head(reads).cell>> \in Seq(Cells)
    BY <2>1 DEF Request
  <2> QED  BY <2>1, <2>2 DEF TypeInv, ReadTypes
<1>5. MemoryTypes'
  BY MemorySame DEF TypeInv, hostVars
<1> QED  BY <1>1, <1>2, <1>3, <1>4, <1>5 DEF TypeInv

(* Bursts.                                                                 *)
LEMMA BurstTaken ==
  ASSUME NEW q \in Seq(Bursts), q # <<>>, \A k \in 1 .. Len(q) : BurstFits(q[k])
  PROVE  /\ Tail(q) \in Seq(Bursts) /\ \A k \in 1 .. Len(Tail(q)) : BurstFits(Tail(q)[k])
         /\ Head(q) \in Bursts /\ BurstFits(Head(q))
<1>1. /\ Tail(q) \in Seq(Bursts) /\ Len(Tail(q)) = Len(q) - 1 /\ Len(q) \in Nat \ {0}
      /\ \A k \in 1 .. Len(q) - 1 : Tail(q)[k] = q[k + 1]
      /\ Head(q) = q[1] /\ q[1] \in Bursts
  BY TakenOut
<1> QED  BY <1>1

LEMMA TypeDramStartBurst ==
  ASSUME TypeInv, dramStartBurst PROVE TypeInv'
<1> USE DEF dramStartBurst
<1>1. HostTypes' /\ Loops' /\ Alone' /\ LinkTypes'
  BY HostAndLink DEF linkVars
<1>2. CommandTypes'
  BY CommandSame DEF TypeInv, linkVars, hostVars, cmdVars
<1>3. BurstTypes'
  BY BurstTaken DEF TypeInv, BurstTypes, BurstsFit, fromVars, cmdVars
<1>4. ReadTypes' /\ WriteTypes'
  BY ReadSame, WriteSame DEF TypeInv, fromVars
<1>5. MemoryTypes'
  BY MemorySame DEF TypeInv, hostVars
<1> QED  BY <1>1, <1>2, <1>3, <1>4, <1>5 DEF TypeInv

LEMMA TypeStartDRAMRead ==
  ASSUME TypeInv, startDRAMRead PROVE TypeInv'
<1> USE DEF startDRAMRead
<1>1. HostTypes' /\ Loops' /\ Alone' /\ LinkTypes'
  BY HostAndLink DEF linkVars
<1>2. CommandTypes'
  BY CommandSame DEF TypeInv, linkVars, hostVars, cmdVars
<1>3. BurstTypes'
  BY BurstTaken DEF TypeInv, BurstTypes, BurstsFit, toVars, cmdVars
<1>4. ReadTypes' /\ WriteTypes'
  BY ReadSame, WriteSame DEF TypeInv, toVars
<1>5. MemoryTypes'
  BY MemorySame DEF TypeInv, hostVars
<1> QED  BY <1>1, <1>2, <1>3, <1>4, <1>5 DEF TypeInv

(* One cell of a burst.                                                    *)
LEMMA BurstMoves ==
  ASSUME NEW b \in Bursts, b.left > 0, BurstFits(b)
  PROVE  /\ b.at \in MemCells
         /\ [at |-> b.at + 1, left |-> b.left - 1] \in Bursts
         /\ BurstFits([at |-> b.at + 1, left |-> b.left - 1])
<1>1. PICK n \in Int : n = FpgaPages * PageCells
  BY Sizes
<1>2. PICK a \in Nat, l \in Nat : a = b.at /\ l = b.left
  BY DEF Bursts
<1> QED  BY <1>1, <1>2 DEF Bursts, BurstFits, MemCells

LEMMA TypeRelayDRAMWriteBurst ==
  ASSUME TypeInv, relayDRAMWriteBurst PROVE TypeInv'
<1> USE DEF relayDRAMWriteBurst
<1>1. HostTypes' /\ Loops' /\ Alone' /\ LinkTypes'
  BY HostAndLink DEF linkVars
<1>2. CommandTypes'
  BY CommandSame DEF TypeInv, linkVars, hostVars, cmdVars
<1>3. dramWrite \in Bursts /\ dramWrite.left > 0 /\ BurstFits(dramWrite)
  BY DEF TypeInv, BurstTypes, BurstsFit
<1>4. dramWrite' \in Bursts /\ BurstFits(dramWrite')
  BY <1>3, BurstMoves
<1>5. BurstTypes'
  <2>1. UNCHANGED <<hostMemOff, memReadLeft, memWriteLeft, dmaReadWordCntQ, dramReadWordCntQ, dramRead>>
    BY DEF fromVars, cmdVars
  <2> QED  BY <1>4, <2>1 DEF TypeInv, BurstTypes, BurstsFit
<1>6. dmaReadTagOrderQ' \in Seq(ReadTags) /\ Head(dmaReadTagOrderQ) \in ReadTags
  BY TakenOut DEF TypeInv, ReadTypes
<1>7. ReadTypes'
  BY <1>6 DEF TypeInv, ReadTypes
<1>8. WriteTypes'
  BY WriteSame DEF TypeInv, fromVars
<1>9. Head(vDmaReadWords[Head(dmaReadTagOrderQ)]) \in Cells
  BY <1>6 DEF TypeInv, ReadTypes
<1>10. MemoryTypes'
  <2>1. mem' \in [MemCells -> Cells]
    BY <1>9 DEF TypeInv, MemoryTypes
  <2>2. writeDoneCount' \in Nat
    BY DEF TypeInv, MemoryTypes
  <2> QED  BY <2>1, <2>2 DEF TypeInv, MemoryTypes, hostVars
<1> QED  BY <1>1, <1>2, <1>5, <1>7, <1>8, <1>10 DEF TypeInv

LEMMA TypeRelayDRAMWord ==
  ASSUME TypeInv, relayDRAMWord PROVE TypeInv'
<1> USE DEF relayDRAMWord
<1>1. HostTypes' /\ Loops' /\ Alone' /\ LinkTypes'
  BY HostAndLink DEF linkVars
<1>2. CommandTypes'
  BY CommandSame DEF TypeInv, linkVars, hostVars, cmdVars
<1>3. dramRead \in Bursts /\ dramRead.left > 0 /\ BurstFits(dramRead)
  BY DEF TypeInv, BurstTypes, BurstsFit
<1>4. dramRead' \in Bursts /\ BurstFits(dramRead') /\ dramRead.at \in MemCells
  BY <1>3, BurstMoves
<1>5. BurstTypes'
  <2>1. UNCHANGED <<hostMemOff, memReadLeft, memWriteLeft, dmaReadWordCntQ, dramReadWordCntQ, dramWrite>>
    BY DEF toVars, cmdVars
  <2> QED  BY <1>4, <2>1 DEF TypeInv, BurstTypes, BurstsFit
<1>6. ReadTypes'
  BY ReadSame DEF TypeInv, toVars
<1>7. WriteTypes'
  <2>1. mem[dramRead.at] \in Cells
    BY <1>4 DEF TypeInv, MemoryTypes
  <2>2. dramReadWordQ' \in Seq(Cells) /\ Len(dramReadWordQ') = Len(dramReadWordQ) + 1 /\ Len(dramReadWordQ) \in Nat
    BY <2>1, PutIn DEF TypeInv, WriteTypes
  <2>3. Len(dramReadWordQ') <= DramCap
    BY <2>2, HostDmaAssumption
  <2> QED  BY <2>2, <2>3 DEF TypeInv, WriteTypes
<1>8. MemoryTypes'
  BY MemorySame DEF TypeInv, hostVars
<1> QED  BY <1>1, <1>2, <1>5, <1>6, <1>7, <1>8 DEF TypeInv

(* Writes to host memory.                                                  *)
LEMMA TypeGenPcieDmaWrite ==
  ASSUME TypeInv, genPcieDmaWrite PROVE TypeInv'
<1> USE DEF genPcieDmaWrite
<1>1. HostTypes' /\ Loops' /\ Alone' /\ LinkTypes'
  BY HostAndLink DEF linkVars
<1>2. CommandTypes'
  BY CommandSame DEF TypeInv, linkVars, hostVars
<1>3. /\ memWriteLeft > 0 /\ memWriteLeft' = memWriteLeft - 1 /\ memWriteLeft \in Nat
      /\ hostMemOff' = (IF memWriteLeft > 1 THEN hostMemOff + 1 ELSE hostMemOff)
      /\ hostMemOff \in Nat /\ hostMemOff + memWriteLeft <= 2 * HalfCells
      /\ memReadLeft = 0 /\ memReadLeft' = 0
      /\ UNCHANGED <<dmaReadWordCntQ, dramReadWordCntQ, dramWrite, dramRead>>
  BY DEF TypeInv, BurstTypes, BurstsFit, toVars
<1>4. BurstTypes'
  <2>1. hostMemOff' \in Nat /\ memWriteLeft - 1 \in Nat
        /\ (memWriteLeft - 1 > 0 => hostMemOff' + (memWriteLeft - 1) <= 2 * HalfCells)
    BY ONLY <1>3, Sizes
  <2> QED  BY <1>3, <2>1 DEF TypeInv, BurstTypes, BurstsFit
<1>5. hostMemOff \in BufCells
  BY <1>3, Sizes DEF BufCells
<1>6. ReadTypes'
  BY ReadSame DEF TypeInv, toVars
<1>7. WriteTypes'
  <2>1. [addr |-> hostMemOff, last |-> memWriteLeft = 1] \in WriteRequest
    BY <1>5 DEF WriteRequest
  <2> QED  BY <2>1 DEF TypeInv, WriteTypes
<1>8. MemoryTypes'
  BY MemorySame DEF TypeInv, hostVars
<1> QED  BY <1>1, <1>2, <1>4, <1>6, <1>7, <1>8 DEF TypeInv

LEMMA TypeSendPcieDmaWrite ==
  ASSUME TypeInv, sendPcieDmaWrite PROVE TypeInv'
<1> USE DEF sendPcieDmaWrite
<1>1. HostTypes' /\ Loops' /\ Alone'
  BY HostSame DEF TypeInv
<1>2. CommandTypes'
  BY CommandSame DEF TypeInv, hostVars, cmdVars
<1>3. /\ pcieWriteReqQ' \in Seq(WriteRequest)
      /\ Head(pcieWriteReqQ) \in WriteRequest
      /\ dramReadWordQ' \in Seq(Cells) /\ Head(dramReadWordQ) \in Cells
      /\ Len(dramReadWordQ') = Len(dramReadWordQ) - 1 /\ Len(dramReadWordQ) \in Nat /\ Len(dramReadWordQ) <= DramCap
  BY TakenOut DEF TypeInv, WriteTypes
<1>4. WriteTypes'
  <2>1. Len(dramReadWordQ') <= DramCap
    BY <1>3, HostDmaAssumption
  <2> QED  BY <1>3, <2>1 DEF WriteTypes
<1>5. LinkTypes'
  <2> DEFINE w == [addr |-> Head(pcieWriteReqQ).addr, cell |-> Head(dramReadWordQ)]
  <2>1. w \in LinkWord /\ "count" \notin DOMAIN w
    BY <1>3 DEF LinkWord, WriteRequest
  <2> HIDE DEF w
  <2>2. up \in Seq(LinkWord) /\ OneAnswer /\ up' = Append(up, w)
    BY DEF TypeInv, LinkTypes, w
  <2>3. /\ up' \in Seq(LinkWord) /\ Len(up') = Len(up) + 1 /\ Len(up) \in Nat
        /\ \A k \in 1 .. Len(up) : up'[k] = up[k]
        /\ up'[Len(up) + 1] = w
    BY <2>1, <2>2, PutIn
  <2>4. \A k \in 1 .. Len(up') : Answer(k)' => k \in 1 .. Len(up) /\ Answer(k) /\ up'[k] = up[k]
    BY <2>1, <2>3 DEF Answer
  <2>5. pc' = pc
    BY DEF hostVars
  <2>6. OneAnswer'
    BY <2>2, <2>4, <2>5 DEF OneAnswer
  <2> QED  BY <2>3, <2>6 DEF LinkTypes
<1>6. BurstTypes' /\ ReadTypes'
  BY BurstSame, ReadSame DEF TypeInv, toVars, cmdVars
<1>7. MemoryTypes'
  BY DEF TypeInv, MemoryTypes, hostVars
<1> QED  BY <1>1, <1>2, <1>4, <1>5, <1>6, <1>7 DEF TypeInv

-----------------------------------------------------------------------------
LEMMA TypeStep == TypeInv /\ [Next]_vars => TypeInv'
<1> SUFFICES ASSUME TypeInv, [Next]_vars PROVE TypeInv'
  OBVIOUS
<1>1. ASSUME NEW t \in Threads, Run(t) PROVE TypeInv'
  BY <1>1, TypeConstruct, TypeLock, TypeStartChunk, TypeArguments, TypeCommand, TypeNextChunk, TypeReturn
     DEF Run
<1>2. ASSUME NEW t \in Threads, NEW c \in Calls, Enter(t, c) PROVE TypeInv'
  BY <1>2, TypeEnter
<1>3. CASE Move
  BY <1>3, TypeGetCmd, TypeProcCmd, TypeSendDMARead, TypeMemoryRead, TypeGetDMARead, TypeDramStartBurst,
     TypeRelayDRAMWriteBurst, TypeStartDRAMRead, TypeRelayDRAMWord, TypeGenPcieDmaWrite, TypeSendPcieDmaWrite
     DEF Move, ToStep, FromStep
<1>4. CASE Link
  BY <1>4, TypeLandCell, TypeLandCount, TypeReadStat DEF Link
<1>5. CASE Restart
  BY <1>5, TypeRestart
<1>6. CASE UNCHANGED vars
  <2>1. UNCHANGED <<hostVars, linkVars, cmdVars, toVars, fromVars, doneVars, dmabuf, mem>>
    BY <1>6 DEF vars
  <2>2. HostTypes' /\ Loops' /\ Alone' /\ LinkTypes'
    BY <2>1, HostAndLink DEF linkVars
  <2>3. CommandTypes'
    BY <2>1, CommandSame DEF TypeInv, hostVars, linkVars, cmdVars
  <2>4. BurstTypes' /\ ReadTypes' /\ WriteTypes'
    BY <2>1, FpgaSame DEF TypeInv, cmdVars
  <2>5. MemoryTypes'
    BY <2>1, MemorySame DEF TypeInv, hostVars
  <2> QED  BY <2>2, <2>3, <2>4, <2>5 DEF TypeInv
<1> QED  BY <1>1, <1>2, <1>3, <1>4, <1>5, <1>6 DEF Next

LEMMA TypesFollow == TypeInv => TypeOK
<1> SUFFICES ASSUME TypeInv PROVE TypeOK
  OBVIOUS
<1>1. /\ mutex \in Threads \cup {None}
      /\ pc \in [Threads -> {"idle", "lock", "chunk", "arguments", "command", "poll", "load", "seen"}]
      /\ call \in [Threads -> [req : Requests, at : Nat, left : Nat, i : Nat, n : Nat,
                               done : Nat, last : Nat, seen : Nat]]
      /\ inst \in {"none", "write", "read", "ready"} /\ wTotal \in Nat /\ rTotal \in Nat
  BY DEF TypeInv, HostTypes, Local
<1>2. /\ \A k \in DOMAIN down : down[k][1] \in {"host", "fpga", "to", "from"} /\ down[k][2] \in Nat
      /\ hostMemTemp \in Nat /\ fpgaMemTemp \in Nat
      /\ dmaCmdQ \in Seq(Commands) /\ Len(dmaCmdQ) <= CmdCap
  <2>1. down \in Seq(Words)
    BY DEF TypeInv, CommandTypes
  <2>2. \A k \in DOMAIN down : down[k] \in Words
    BY <2>1
  <2> QED  BY <2>2 DEF Words, TypeInv, CommandTypes
<1>3. up \in Seq([addr : BufCells, cell : Cells] \cup [thread : Threads, count : Nat])
  BY DEF TypeInv, LinkTypes, LinkWord
<1>4. /\ hostMemOff \in Nat /\ memReadLeft \in Nat /\ memWriteLeft \in Nat
      /\ dmaReadWordCntQ \in Seq(Bursts) /\ dramReadWordCntQ \in Seq(Bursts)
      /\ dramWrite \in Bursts /\ dramRead \in Bursts
  BY DEF TypeInv, BurstTypes
<1>5. /\ freeTags \subseteq ReadTags /\ dmaReadTagOrderQ \in Seq(ReadTags)
      /\ reads \in Seq([tag : ReadTags, addr : BufCells, cell : Cells \cup {None}])
      /\ vDmaReadWords \in [ReadTags -> Seq(Cells)]
  BY DEF TypeInv, ReadTypes, Request
<1>6. /\ dramReadWordQ \in Seq(Cells) /\ Len(dramReadWordQ) <= DramCap
      /\ pcieWriteReqQ \in Seq([addr : BufCells, last : BOOLEAN])
  BY DEF TypeInv, WriteTypes, WriteRequest
<1>7. /\ dmabuf \in [BufCells -> Cells] /\ mem \in [0 .. FpgaPages * PageCells - 1 -> Cells]
      /\ writeDoneCount \in Nat /\ readDoneCount \in Nat
  BY DEF TypeInv, MemoryTypes, MemCells
<1> QED  BY <1>1, <1>2, <1>3, <1>4, <1>5, <1>6, <1>7 DEF TypeOK

THEOREM TypesHold == Spec => []TypeOK
<1>1. Spec => []TypeInv
  BY TypeStart, TypeStep, PTL DEF Spec
<1> QED  BY <1>1, TypesFollow, PTL

-----------------------------------------------------------------------------
(* A set of numbers has a least one: what an induction over the entries of *)
(* a queue rests on.                                                       *)
LEMMA LeastOf ==
  ASSUME NEW T, T \subseteq Nat, T # {}
  PROVE  \E x \in T : \A y \in T : x <= y
<1> DEFINE R == OpToRel(<, Nat)
<1>1. IsWellFoundedOn(R, Nat)
  BY NatLessThanWellFounded
<1>2. \A x, y \in Nat : <<x, y>> \in R <=> x < y
  BY DEF OpToRel
<1> HIDE DEF R
<1>3. PICK x \in T : \A y \in T : ~(<<y, x>> \in R)
  BY <1>1, WFMin
<1>4. \A y \in T : ~(y < x)
  BY <1>2, <1>3
<1> QED  BY <1>4

(* What no move of a path lowers has, at every entry, a value between      *)
(* those at its ends.                                                      *)
LEMMA PathRises ==
  ASSUME NEW S, NEW q, Len(q) \in Nat, NEW a, NEW b, NEW M, Path(S, q, a, b, M),
         NEW rank \in [S -> Int], \A x, y \in S : \A e : <<x, e, y>> \in M => rank[x] <= rank[y]
  PROVE  /\ rank[a] <= rank[b] /\ a \in S /\ b \in S
         /\ \A k \in 1 .. Len(q) : \E x, y \in S :
              <<x, q[k], y>> \in M /\ rank[a] <= rank[x] /\ rank[x] <= rank[y] /\ rank[y] <= rank[b]
<1>1. PICK n \in Nat : n = Len(q)
  OBVIOUS
<1>2. PICK st \in [0 .. n -> S] :
        /\ st[0] = a /\ st[n] = b
        /\ \A k \in 1 .. n : <<st[k - 1], q[k], st[k]>> \in M
  BY <1>1 DEF Path
<1>3. \A k \in 0 .. n : st[k] \in S /\ rank[st[k]] \in Int
  BY <1>2
<1>4. \A k \in 1 .. n : rank[st[k - 1]] <= rank[st[k]]
  <2> TAKE k \in 1 .. n
  <2>1. st[k - 1] \in S /\ st[k] \in S /\ <<st[k - 1], q[k], st[k]>> \in M
    BY <1>2
  <2> QED  BY <2>1
<1>5. ASSUME NEW i \in 0 .. n, NEW j \in i .. n
      PROVE  rank[st[i]] <= rank[st[j]]
  <2> DEFINE T == {k \in i .. n : rank[st[i]] > rank[st[k]]}
  <2>1. SUFFICES ASSUME T # {} PROVE FALSE
    <3>1. j \notin T => rank[st[i]] <= rank[st[j]]
      <4>1. rank[st[i]] \in Int /\ rank[st[j]] \in Int
        BY <1>3
      <4> QED  BY <4>1
    <3> QED  BY <3>1
  <2>2. T \subseteq Nat
    OBVIOUS
  <2> HIDE DEF T
  <2>3. PICK k \in T : \A l \in T : k <= l
    BY <2>1, <2>2, LeastOf
  <2>4. k \in i .. n /\ rank[st[i]] > rank[st[k]]
    BY <2>3 DEF T
  <2>5. k # i
    <3>1. rank[st[i]] \in Int
      BY <1>3
    <3> QED  BY <2>4, <3>1
  <2>6. k \in 1 .. n /\ k - 1 \in i .. n /\ ~(k <= k - 1)
    BY <2>4, <2>5
  <2>7. ~(rank[st[i]] > rank[st[k - 1]])
    BY <2>3, <2>6 DEF T
  <2>8. rank[st[k - 1]] <= rank[st[k]] /\ rank[st[k - 1]] \in Int /\ rank[st[k]] \in Int /\ rank[st[i]] \in Int
    <3>1. k - 1 \in 0 .. n /\ k \in 0 .. n
      BY <2>6
    <3> QED  BY <1>3, <1>4, <2>6, <3>1
  <2> QED  BY <2>4, <2>7, <2>8
<1>6. rank[a] <= rank[b] /\ a \in S /\ b \in S
  <2>1. 0 \in 0 .. n /\ n \in 0 .. n
    OBVIOUS
  <2> QED  BY <1>2, <1>3, <1>5, <2>1
<1>7. ASSUME NEW k \in 1 .. n
      PROVE  \E x, y \in S :
               <<x, q[k], y>> \in M /\ rank[a] <= rank[x] /\ rank[x] <= rank[y] /\ rank[y] <= rank[b]
  <2>1. k - 1 \in 0 .. n /\ k \in 0 .. n /\ 0 \in 0 .. n /\ k - 1 \in 0 .. n /\ n \in k .. n
    OBVIOUS
  <2>2. st[k - 1] \in S /\ st[k] \in S /\ <<st[k - 1], q[k], st[k]>> \in M
    BY <1>2, <1>3, <2>1
  <2>3. rank[st[0]] <= rank[st[k - 1]] /\ rank[st[k]] <= rank[st[n]] /\ rank[st[k - 1]] <= rank[st[k]]
    BY <1>4, <1>5, <2>1
  <2> QED  BY <1>2, <2>2, <2>3
<1> QED  BY <1>1, <1>6, <1>7

(* The words on their way to the FPGA add commands, never take one away.   *)
LEMMA WordsCount ==
  ASSUME NEW r, NEW p, NEW a, NEW q \in Seq(Words), Path(Progress, q, p, a, WordMoves(r))
  PROVE  /\ p \in Progress /\ a \in Progress /\ p.n \in Nat /\ a.n \in Nat /\ p.n <= a.n
         /\ p.n = a.n => \A k \in 1 .. Len(q) : q[k][1] \notin {"to", "from"}
<1> DEFINE rank == [x \in Progress |-> x.n]
<1>1. rank \in [Progress -> Int]
  BY DEF Progress
<1>2. \A x \in Progress : rank[x] = x.n /\ x.n \in Nat
  BY DEF Progress
<1>3. ASSUME NEW x \in Progress, NEW y \in Progress, NEW e, <<x, e, y>> \in WordMoves(r)
      PROVE  e \in Words /\ x.n <= y.n /\ (e[1] \in {"to", "from"} => y.n = x.n + 1)
  <2>1. /\ e \in Words
        /\ e[1] = "host" => y = [x EXCEPT !.host = e[2]]
        /\ e[1] = "fpga" => y = [x EXCEPT !.fpga = e[2]]
        /\ e[1] \in {"to", "from"} => y = [x EXCEPT !.n = @ + 1]
    BY <1>3 DEF WordMoves
  <2>2. e[1] \in {"host", "fpga", "to", "from"}
    BY <2>1 DEF Words
  <2> QED  BY <2>1, <2>2 DEF Progress
<1>4. Len(q) \in Nat
  OBVIOUS
<1> HIDE DEF rank
<1> DEFINE M == WordMoves(r)
<1>5. \A x, y \in Progress : \A e : <<x, e, y>> \in M => rank[x] <= rank[y]
  <2> TAKE x, y \in Progress
  <2> TAKE e
  <2> QED  BY <1>2, <1>3
<1>8. Path(Progress, q, p, a, M)
  OBVIOUS
<1> HIDE DEF M
<1>6. /\ rank[p] <= rank[a] /\ p \in Progress /\ a \in Progress
      /\ \A k \in 1 .. Len(q) : \E x, y \in Progress :
           <<x, q[k], y>> \in M /\ rank[p] <= rank[x] /\ rank[x] <= rank[y] /\ rank[y] <= rank[a]
  <2>1. rank \in [Progress -> Int]
    BY <1>1
  <2> QED  BY ONLY <2>1, <1>4, <1>5, <1>8, PathRises, ZenonT(120)
<1>7. ASSUME p.n = a.n, NEW k \in 1 .. Len(q) PROVE q[k][1] \notin {"to", "from"}
  <2>1. PICK x \in Progress, y \in Progress :
          <<x, q[k], y>> \in WordMoves(r) /\ rank[p] <= rank[x] /\ rank[x] <= rank[y] /\ rank[y] <= rank[a]
    BY <1>6 DEF M
  <2>2. p.n <= x.n /\ x.n <= y.n /\ y.n <= a.n /\ x.n \in Nat /\ y.n \in Nat /\ p.n \in Nat
    BY <1>2, <1>6, <2>1
  <2>3. x.n = y.n
    BY <1>7, <2>2
  <2>4. ~(q[k][1] \in {"to", "from"})
    <3>1. q[k][1] \in {"to", "from"} => y.n = x.n + 1
      BY <1>3, <2>1
    <3> QED  BY <2>2, <2>3, <3>1
  <2> QED  BY <2>4
<1> QED  BY <1>2, <1>6, <1>7

(* The writes on the link add cells that land.                             *)
LEMMA CellsCount ==
  ASSUME NEW r, NEW l, NEW h, up \in Seq(LinkWord), FromLink(r, l, h)
  PROVE  /\ l \in Nat /\ h \in Nat /\ l <= h
         /\ l = h => \A k \in 1 .. Len(up) : Answer(k)
<1> DEFINE rank == [x \in Nat |-> x]
<1>1. rank \in [Nat -> Int] /\ \A x \in Nat : rank[x] = x
  OBVIOUS
<1>2. ASSUME NEW x \in Nat, NEW y \in Nat, NEW e, <<x, e, y>> \in LandMoves(r)
      PROVE  e \in LinkWord /\ x <= y /\ ("addr" \in DOMAIN e => y = x + 1)
  <2>1. /\ e \in LinkWord
        /\ "addr" \in DOMAIN e => y = x + 1
        /\ "count" \in DOMAIN e => y = x
    BY <1>2 DEF LandMoves
  <2>2. "addr" \in DOMAIN e \/ "count" \in DOMAIN e
    BY <2>1 DEF LinkWord
  <2> QED  BY <2>1, <2>2
<1>3. Len(up) \in Nat
  OBVIOUS
<1> HIDE DEF rank
<1> DEFINE M == LandMoves(r)
<1>4. \A x, y \in Nat : \A e : <<x, e, y>> \in M => rank[x] <= rank[y]
  <2> TAKE x, y \in Nat
  <2> TAKE e
  <2> QED  BY <1>1, <1>2
<1>7. Path(Nat, up, l, h, M)
  BY DEF FromLink
<1> HIDE DEF M
<1>5. /\ rank[l] <= rank[h] /\ l \in Nat /\ h \in Nat
      /\ \A k \in 1 .. Len(up) : \E x, y \in Nat :
           <<x, up[k], y>> \in M /\ rank[l] <= rank[x] /\ rank[x] <= rank[y] /\ rank[y] <= rank[h]
  BY ONLY <1>1, <1>3, <1>4, <1>7, PathRises, ZenonT(80)
<1>6. ASSUME l = h, NEW k \in 1 .. Len(up) PROVE Answer(k)
  <2>1. PICK x \in Nat, y \in Nat :
          <<x, up[k], y>> \in LandMoves(r) /\ rank[l] <= rank[x] /\ rank[x] <= rank[y] /\ rank[y] <= rank[h]
    BY <1>5 DEF M
  <2>2. l <= x /\ x <= y /\ y <= h
    BY <1>1, <1>5, <2>1
  <2>3. x = y
    BY <1>5, <1>6, <2>2
  <2>4. "addr" \notin DOMAIN up[k] /\ up[k] \in LinkWord
    <3>1. up[k] \in LinkWord /\ ("addr" \in DOMAIN up[k] => y = x + 1)
      BY <1>2, <2>1
    <3> QED  BY <2>3, <3>1
  <2> QED  BY <2>4 DEF LinkWord, Answer
<1> QED  BY <1>1, <1>5, <1>6

-----------------------------------------------------------------------------
(* The thread that has the mutex.                                          *)
LEMMA Busy ==
  ASSUME TypeInv, NEW t, t = mutex, mutex # None
  PROVE  /\ t \in Threads /\ inst = "ready" /\ LoopInv(call[t]) /\ call[t] \in Local
         /\ call[t].req \in Calls /\ call[t].req.op \in {"to", "from"} /\ call[t].req.len \in Nat
         /\ call[t].n = Passes(call[t].req) /\ call[t].n \in Nat
         /\ call[t].i \in Nat /\ call[t].i <= call[t].n
         /\ InLoop(t) => call[t].i < call[t].n
         /\ pc[t] \in {"chunk", "arguments", "command", "poll", "load", "seen"}
         /\ Given(t) \in Nat /\ call[t].i <= Given(t) /\ Given(t) <= call[t].n /\ Given(t) <= call[t].i + 1
         /\ Filling(t) \in Nat /\ Given(t) <= Filling(t) /\ Filling(t) <= call[t].i + 1
         /\ Filling(t) <= call[t].n
         /\ call[t].req.op = "to" => Count(t) = writeDoneCount /\ Total(t) = wTotal
         /\ call[t].req.op = "from" => Count(t) = readDoneCount /\ Total(t) = rTotal
         /\ Count(t) \in Nat /\ Total(t) \in Nat /\ Done(t) \in Int
         /\ \A s \in Threads : s # t => pc[s] \in {"idle", "lock"}
         /\ \A k \in 1 .. Len(up) : Answer(k) => up[k].thread = t /\ pc[t] = "load"
<1>1. HostTypes /\ Loops /\ Alone /\ MemoryTypes /\ LinkTypes
  BY DEF TypeInv
<1>2. t \in Threads /\ inst = "ready" /\ pc[t] \notin {"idle", "lock"}
  BY <1>1 DEF HostTypes, Alone
<1>3. pc[t] \in {"chunk", "arguments", "command", "poll", "load", "seen"} /\ call[t] \in Local
  BY <1>1, <1>2 DEF HostTypes
<1>4. LoopInv(call[t]) /\ call[t].req # NoCall /\ (InLoop(t) => call[t].i < call[t].n)
  BY <1>1, <1>2 DEF Loops
<1>5. call[t].req \in Calls
  BY <1>4 DEF LoopInv
<1>6. call[t].req.op \in {"to", "from"} /\ call[t].req.len \in Nat
  BY <1>5, ACall
<1>7. PICK i \in Nat, n \in Nat : i = call[t].i /\ n = call[t].n /\ i <= n
  BY <1>4, Copies
<1>8. call[t].n = Passes(call[t].req)
  BY <1>4, Copies
<1>9. Given(t) \in Nat /\ i <= Given(t) /\ Given(t) <= n /\ Given(t) <= i + 1
  BY <1>4, <1>7 DEF Given, Least
<1>10. Filling(t) \in Nat /\ Given(t) <= Filling(t) /\ Filling(t) <= i + 1 /\ Filling(t) <= n
  <2>1. CASE pc[t] \in {"arguments", "command"}
    BY <1>4, <1>7, <1>9, <2>1 DEF Filling, InLoop
  <2>2. CASE pc[t] \notin {"arguments", "command"}
    BY <1>9, <2>2 DEF Filling
  <2> QED  BY <2>1, <2>2
<1>11. /\ call[t].req.op = "to" => Count(t) = writeDoneCount /\ Total(t) = wTotal
       /\ call[t].req.op = "from" => Count(t) = readDoneCount /\ Total(t) = rTotal
  BY <1>2 DEF Count, ToFpga, Total
<1>12. Count(t) \in Nat /\ Total(t) \in Nat
  BY <1>1, <1>6, <1>11 DEF MemoryTypes, HostTypes
<1>13. Done(t) \in Int
  BY <1>12 DEF Done
<1>14. \A s \in Threads : s # t => pc[s] \in {"idle", "lock"}
  BY <1>1, <1>2 DEF Alone
<1>15. \A k \in 1 .. Len(up) : Answer(k) => up[k].thread = t /\ pc[t] = "load"
  <2> TAKE k \in 1 .. Len(up)
  <2>1. up[k] \in LinkWord
    BY <1>1, ElementOfSeq DEF LinkTypes
  <2>2. Answer(k) => up[k].thread \in Threads /\ pc[up[k].thread] = "load"
    BY <1>1, <2>1 DEF LinkWord, Answer, LinkTypes, OneAnswer
  <2> QED  BY <1>14, <2>2
<1> QED  BY <1>2, <1>3, <1>4, <1>5, <1>6, <1>7, <1>8, <1>9, <1>10, <1>11, <1>12, <1>13, <1>14, <1>15

-----------------------------------------------------------------------------
(* How far a copy to the FPGA is.                                          *)
LEMMA EdgeFacts ==
  ASSUME NEW r, r.len \in Nat, NEW j \in Nat
  PROVE  /\ E(r, j) \in Nat /\ E(r, j + 1) \in Nat /\ Passes(r) \in Nat /\ E(r, Passes(r)) \in Nat
         /\ E(r, j) <= E(r, j + 1) /\ E(r, j) <= E(r, Passes(r)) /\ E(r, j + 1) - E(r, j) <= HalfCells
         /\ j < Passes(r) => E(r, j) = j * HalfCells /\ E(r, j) < E(r, j + 1)
         /\ j >= Passes(r) => E(r, j) = E(r, Passes(r))
         /\ E(r, j) <= j * HalfCells
<1>1. j + 1 \in Nat /\ Passes(r) \in Nat
  BY Edges
<1>2. /\ E(r, j) \in Nat /\ E(r, j + 1) \in Nat /\ E(r, Passes(r)) \in Nat
  BY <1>1, Edges
<1> QED  BY <1>1, <1>2, Edges

(* What a wait has seen is done, so half a buffer is free for the next.    *)
LEMMA HalfFree ==
  ASSUME NEW r, r.len \in Nat, NEW d \in Nat, NEW i \in Nat, NEW f \in Nat,
         d >= i - 1, f <= i + 1, f <= Passes(r)
  PROVE  (f - 2) * HalfCells <= E(r, d) /\ (f - 2) * HalfCells \in Int
<1>1. (f - 2) * HalfCells \in Int /\ (f <= 2 => (f - 2) * HalfCells <= 0)
  <2>1. PICK z \in Int : z = f - 2
    OBVIOUS
  <2>2. HalfCells * z \in Int /\ HalfCells * z = z * HalfCells /\ HalfCells * 0 = 0
    BY Sizes
  <2>3. z < 0 => HalfCells * 0 - HalfCells * z >= HalfCells
    BY Sizes, Times
  <2>4. z <= 0 => z * HalfCells <= 0
    BY <2>1, <2>2, <2>3, Sizes
  <2> QED  BY <2>1, <2>2, <2>4
<1>2. E(r, d) \in Nat
  BY EdgeFacts
<1>3. CASE f <= 2
  BY <1>1, <1>2, <1>3
<1>4. CASE f > 2
  <2>1. PICK z \in Nat : z = f - 2 /\ z < Passes(r) /\ z <= d
    <3>1. Passes(r) \in Nat
      BY EdgeFacts
    <3> QED  BY <1>4, <3>1
  <2>2. E(r, z) = z * HalfCells /\ E(r, z) <= E(r, d) /\ E(r, z) \in Nat
    BY <2>1, EdgeFacts, Later
  <2> QED  BY <1>1, <1>2, <2>1, <2>2
<1> QED  BY <1>3, <1>4

ToSteps(t, r, m) ==
  /\ m <= Given(t) /\ m + Len(dmaCmdQ) <= Given(t) /\ Given(t) \in Nat
  /\ Done(t) \in Nat /\ Begun(m) \in Nat /\ Done(t) <= Begun(m) /\ Begun(m) <= m
  /\ Begun(m) = m - Len(dmaReadWordCntQ)
  /\ Done(t) = Begun(m) - (IF dramWrite.left > 0 THEN 1 ELSE 0)
ToSizes ==
  /\ Len(dmaCmdQ) \in Nat /\ Len(reads) \in Nat /\ Len(dmaReadTagOrderQ) \in Nat
  /\ Len(dmaReadWordCntQ) \in Nat /\ memReadLeft \in Nat /\ dramWrite.left \in Nat /\ Waiting \in Nat
ToCells(r, m) ==
  /\ Asked(r, m) \in Nat /\ Arrived(r, m) \in Nat /\ Written(r, m) \in Nat /\ E(r, m) \in Nat
  /\ Asked(r, m) = E(r, m) - memReadLeft /\ Arrived(r, m) = Asked(r, m) - Len(reads)
  /\ Written(r, m) = Asked(r, m) - Len(dmaReadTagOrderQ) /\ Arrived(r, m) = Written(r, m) + Waiting
  /\ E(r, Begun(m)) \in Nat /\ Written(r, m) = E(r, Begun(m)) - dramWrite.left
ToRoom(t, r, m) ==
  /\ E(r, Filling(t)) \in Nat /\ E(r, Done(t)) \in Nat
  /\ E(r, Done(t)) <= Written(r, m) /\ E(r, m) <= E(r, Filling(t)) /\ E(r, Begun(m)) <= E(r, m)
  /\ memReadLeft > 0 => E(r, m - 1) <= Asked(r, m)
  /\ (Filling(t) - 2) * HalfCells <= Written(r, m) /\ (Filling(t) - 2) * HalfCells \in Int
  /\ r.len \in Nat /\ Passes(r) = call[t].n

LEMMA ToNumbers ==
  ASSUME TypeInv, NEW t, t = mutex, mutex # None, NEW m \in Nat,
         CountInv(t), NEW r, r = call[t].req, CommandInv(t, r, m), ToInv(t, r, m)
  PROVE  ToSteps(t, r, m) /\ ToSizes /\ ToCells(r, m) /\ ToRoom(t, r, m)
<1>1. /\ r.len \in Nat /\ Passes(r) = call[t].n /\ Given(t) \in Nat /\ Given(t) <= Filling(t) /\ Filling(t) \in Nat
      /\ Filling(t) <= call[t].i + 1 /\ Filling(t) <= Passes(r) /\ call[t].i \in Nat /\ Given(t) <= Passes(r)
  BY Busy
<1>2. /\ Len(dmaCmdQ) \in Nat /\ Len(reads) \in Nat /\ Len(dmaReadTagOrderQ) \in Nat
      /\ Len(dmaReadWordCntQ) \in Nat /\ memReadLeft \in Nat /\ dramWrite.left \in Nat
  <2>1. /\ dmaCmdQ \in Seq(Commands) /\ reads \in Seq(Request) /\ dmaReadTagOrderQ \in Seq(ReadTags)
        /\ dmaReadWordCntQ \in Seq(Bursts) /\ dramWrite \in Bursts /\ memReadLeft \in Nat
    BY DEF TypeInv, CommandTypes, ReadTypes, BurstTypes
  <2> QED  BY <2>1, LenProperties DEF Bursts
<1>3. m + Len(dmaCmdQ) <= Given(t) /\ Done(t) <= m
  BY DEF CommandInv
<1>4. Done(t) \in Nat /\ Done(t) >= call[t].i - 1
  BY DEF CountInv
<1>5. /\ ToAsks(r, m, Asked(r, m)) /\ ToBursts(r, Begun(m), Done(t), Written(r, m)) /\ ToTags(r, Written(r, m))
  BY DEF ToInv
<1>6. Waiting \in Nat
  BY <1>5 DEF ToTags
<1> PICK b : b = Begun(m)
  OBVIOUS
<1>7. b \in Int /\ b = Begun(m) /\ b = m - Len(dmaReadWordCntQ)
  BY <1>2 DEF Begun
<1>8. Done(t) = b - (IF dramWrite.left > 0 THEN 1 ELSE 0)
  BY <1>5, <1>7 DEF ToBursts
<1>9. b \in Nat /\ Done(t) <= b /\ b <= m /\ m <= Given(t)
  <2>1. Done(t) = b \/ Done(t) = b - 1
    BY ONLY <1>7, <1>8
  <2>2. b \in Nat /\ Done(t) <= b
    BY ONLY <1>4, <1>7, <2>1
  <2>3. b <= m /\ m <= Given(t)
    BY ONLY <1>1, <1>2, <1>3, <1>7, m \in Nat
  <2> QED  BY ONLY <2>2, <2>3
<1>10. PICK e \in Nat : e = E(r, m)
  BY <1>1, EdgeFacts
<1> PICK x : x = Asked(r, m)
  OBVIOUS
<1> PICK y : y = Arrived(r, m)
  OBVIOUS
<1> PICK w : w = Written(r, m)
  OBVIOUS
<1>11. /\ x \in Int /\ y \in Int /\ w \in Int
       /\ x = Asked(r, m) /\ y = Arrived(r, m) /\ w = Written(r, m)
       /\ x = e - memReadLeft /\ y = x - Len(reads) /\ w = x - Len(dmaReadTagOrderQ)
  <2>1. x = e - memReadLeft /\ x \in Int
    BY <1>2, <1>10 DEF Asked
  <2>2. y = x - Len(reads) /\ y \in Int
    BY <1>2, <2>1 DEF Arrived
  <2>3. w = x - Len(dmaReadTagOrderQ) /\ w \in Int
    BY <1>2, <2>1 DEF Written
  <2> QED  BY <2>1, <2>2, <2>3
<1>12. y = w + Waiting
  BY <1>2, <1>11 DEF Waiting
<1>13. PICK eb \in Nat : eb = E(r, b)
  BY <1>1, <1>9, EdgeFacts
<1>14. w = eb - dramWrite.left
  BY <1>5, <1>7, <1>11, <1>13 DEF ToBursts
<1>15. PICK ed \in Nat : ed = E(r, Done(t))
  BY <1>1, <1>4, EdgeFacts
<1>16. ed <= w
  <2>1. CASE dramWrite.left > 0
    <3>1. dramWrite.left <= E(r, Done(t) + 1) - E(r, Done(t))
      BY <1>5, <2>1 DEF ToBursts
    <3>2. Done(t) + 1 = b
      BY <1>4, <1>7, <1>8, <2>1
    <3> QED  BY <1>2, <1>13, <1>14, <1>15, <3>1, <3>2
  <2>2. CASE dramWrite.left = 0
    <3>1. Done(t) = b
      BY <1>4, <1>7, <1>8, <2>2
    <3> QED  BY <1>13, <1>14, <1>15, <2>2, <3>1
  <2> QED  BY <1>2, <2>1, <2>2
<1>17. w \in Nat /\ y \in Nat /\ x \in Nat
  BY <1>2, <1>6, <1>11, <1>12, <1>15, <1>16
<1>18. PICK ef \in Nat : ef = E(r, Filling(t)) /\ e <= ef /\ eb <= e
  <2>1. E(r, Filling(t)) \in Nat
    BY <1>1, EdgeFacts
  <2>2. m <= Filling(t)
    BY <1>1, <1>9
  <2>3. E(r, m) <= E(r, Filling(t)) /\ E(r, b) <= E(r, m)
    BY <1>1, <1>9, <2>2, Later
  <2> QED  BY <1>10, <1>13, <2>1, <2>3
<1>19. ASSUME memReadLeft > 0 PROVE E(r, m - 1) <= x
  <2> PICK p : p = E(r, m - 1)
    OBVIOUS
  <2>1. m > 0 /\ memReadLeft <= e - p
    BY <1>5, <1>10, <1>19 DEF ToAsks
  <2>2. p \in Nat
    <3>1. m - 1 \in Nat
      BY ONLY <2>1, m \in Nat
    <3> QED  BY ONLY <1>1, <3>1, EdgeFacts, p = E(r, m - 1)
  <2>3. memReadLeft \in Nat /\ x \in Int /\ x = e - memReadLeft
    BY ONLY <1>2, <1>11
  <2>4. p <= x
    BY ONLY <2>1, <2>2, <2>3, e \in Nat
  <2> QED  BY ONLY <2>4, p = E(r, m - 1)
<1> PICK z : z = (Filling(t) - 2) * HalfCells
  OBVIOUS
<1>20. z \in Int /\ z <= w /\ z = (Filling(t) - 2) * HalfCells
  <2>1. (Filling(t) - 2) * HalfCells <= E(r, Done(t)) /\ (Filling(t) - 2) * HalfCells \in Int
    BY <1>1, <1>4, HalfFree
  <2>2. z \in Int /\ z <= ed
    BY <1>15, <2>1
  <2> QED  BY ONLY <1>11, <1>16, <2>2, z = (Filling(t) - 2) * HalfCells, ed \in Nat
<1>21. /\ m <= Given(t) /\ m + Len(dmaCmdQ) <= Given(t) /\ Done(t) \in Nat
       /\ Begun(m) \in Nat /\ Done(t) <= Begun(m) /\ Begun(m) <= m /\ Begun(m) = m - Len(dmaReadWordCntQ)
       /\ Done(t) = Begun(m) - (IF dramWrite.left > 0 THEN 1 ELSE 0)
  BY ONLY <1>3, <1>4, <1>7, <1>8, <1>9
<1>22. /\ Asked(r, m) \in Nat /\ Arrived(r, m) \in Nat /\ Written(r, m) \in Nat
       /\ Asked(r, m) = E(r, m) - memReadLeft /\ Arrived(r, m) = Asked(r, m) - Len(reads)
       /\ Written(r, m) = Asked(r, m) - Len(dmaReadTagOrderQ) /\ Arrived(r, m) = Written(r, m) + Waiting
  BY ONLY <1>10, <1>11, <1>12, <1>17
<1>23. Written(r, m) = E(r, Begun(m)) - dramWrite.left /\ E(r, Begun(m)) \in Nat /\ E(r, Begun(m)) <= E(r, m)
  BY ONLY <1>7, <1>10, <1>11, <1>13, <1>14, <1>18
<1>24. /\ E(r, m) \in Nat /\ E(r, Filling(t)) \in Nat /\ E(r, Done(t)) \in Nat
       /\ E(r, Done(t)) <= Written(r, m) /\ E(r, m) <= E(r, Filling(t))
  BY ONLY <1>10, <1>11, <1>15, <1>16, <1>18
<1>25. /\ (Filling(t) - 2) * HalfCells <= Written(r, m) /\ (Filling(t) - 2) * HalfCells \in Int
  BY ONLY <1>11, <1>20
<1>26. memReadLeft > 0 => E(r, m - 1) <= Asked(r, m)
  BY ONLY <1>11, <1>19
<1>27. ToSteps(t, r, m)
  BY ONLY <1>1, <1>21 DEF ToSteps
<1>28. ToSizes
  BY ONLY <1>2, <1>6 DEF ToSizes
<1>29. ToCells(r, m)
  BY ONLY <1>22, <1>23, <1>24 DEF ToCells
<1>30. ToRoom(t, r, m)
  BY ONLY <1>1, <1>23, <1>24, <1>25, <1>26 DEF ToRoom
<1> QED  BY ONLY <1>27, <1>28, <1>29, <1>30

(* A copy to the FPGA whose commands are all done has nothing under way.   *)
LEMMA ToDone ==
  ASSUME TypeInv, NEW t, t = mutex, mutex # None, NEW m \in Nat,
         CountInv(t), NEW r, r = call[t].req, CommandInv(t, r, m), ToInv(t, r, m), r.op = "to",
         Done(t) >= Given(t)
  PROVE  /\ ToQuiet /\ FromQuiet /\ dmaCmdQ = <<>> /\ \A k \in 1 .. Len(down) : ~IsCommand(k)
         /\ Written(r, m) = E(r, Given(t))
         /\ issued.to = wTotal + Given(t) /\ rTotal = issued.from /\ Done(t) = Given(t)
<1>0. ToSteps(t, r, m) /\ ToSizes /\ ToCells(r, m)
  BY ToNumbers
<1>2. /\ m <= Given(t) /\ m + Len(dmaCmdQ) <= Given(t) /\ Len(dmaCmdQ) \in Nat
      /\ Len(reads) \in Nat /\ Len(dmaReadTagOrderQ) \in Nat /\ Len(dmaReadWordCntQ) \in Nat
      /\ memReadLeft \in Nat /\ dramWrite.left \in Nat /\ Waiting \in Nat
      /\ Done(t) \in Nat /\ Begun(m) \in Nat /\ Done(t) <= Begun(m) /\ Begun(m) <= m
      /\ Begun(m) = m - Len(dmaReadWordCntQ)
      /\ Done(t) = Begun(m) - (IF dramWrite.left > 0 THEN 1 ELSE 0)
  BY ONLY <1>0 DEF ToSteps, ToSizes
<1>3. /\ Asked(r, m) \in Nat /\ Arrived(r, m) \in Nat /\ Written(r, m) \in Nat
      /\ Asked(r, m) = E(r, m) - memReadLeft /\ Arrived(r, m) = Asked(r, m) - Len(reads)
      /\ Written(r, m) = Asked(r, m) - Len(dmaReadTagOrderQ) /\ Arrived(r, m) = Written(r, m) + Waiting
      /\ Written(r, m) = E(r, Begun(m)) - dramWrite.left
      /\ E(r, m) \in Nat
  BY ONLY <1>0 DEF ToCells
<1>4. Given(t) \in Nat
  BY Busy
<1>5. /\ m = Given(t) /\ Begun(m) = m /\ Done(t) = m /\ Len(dmaCmdQ) = 0 /\ Len(dmaReadWordCntQ) = 0
      /\ dramWrite.left = 0
  BY ONLY <1>2, <1>4, Done(t) >= Given(t), m \in Nat
<1>6. /\ Written(r, m) = E(r, m) /\ memReadLeft = 0 /\ Len(reads) = 0 /\ Len(dmaReadTagOrderQ) = 0 /\ Waiting = 0
  <2>1. Written(r, m) = E(r, m) - 0
    BY ONLY <1>3, <1>5
  <2> PICK e : e = E(r, m)
    OBVIOUS
  <2> PICK x : x = Asked(r, m)
    OBVIOUS
  <2> PICK y : y = Arrived(r, m)
    OBVIOUS
  <2> PICK w : w = Written(r, m)
    OBVIOUS
  <2>2. /\ e \in Nat /\ x \in Nat /\ y \in Nat /\ w \in Nat
        /\ x = e - memReadLeft /\ y = x - Len(reads) /\ w = x - Len(dmaReadTagOrderQ) /\ y = w + Waiting /\ w = e
    BY ONLY <1>3, <2>1, e = E(r, m), x = Asked(r, m), y = Arrived(r, m), w = Written(r, m)
  <2>3. w = e /\ memReadLeft = 0 /\ Len(reads) = 0 /\ Len(dmaReadTagOrderQ) = 0 /\ Waiting = 0
    BY ONLY <1>2, <2>2, SMTT(40)
  <2> QED  BY ONLY <2>3, e = E(r, m), w = Written(r, m)
<1>7. /\ dmaCmdQ = <<>> /\ reads = <<>> /\ dmaReadTagOrderQ = <<>> /\ dmaReadWordCntQ = <<>>
  <2>1. /\ dmaCmdQ \in Seq(Commands) /\ reads \in Seq(Request) /\ dmaReadTagOrderQ \in Seq(ReadTags)
        /\ dmaReadWordCntQ \in Seq(Bursts)
    BY DEF TypeInv, CommandTypes, ReadTypes, BurstTypes
  <2> QED  BY <1>5, <1>6, <2>1, EmptySeq
<1>8. \A g \in ReadTags : vDmaReadWords[g] = <<>>
  <2>1. ToTags(r, Written(r, m))
    BY DEF ToInv
  <2> QED  BY <1>6, <2>1 DEF ToTags
<1>9. FromQuiet
  BY DEF ToInv
<1>10. issued.to = wTotal + Given(t) /\ rTotal = issued.from /\ Done(t) = writeDoneCount - wTotal
  BY Busy DEF CountInv, Done
<1>11. writeDoneCount = issued.to
  <2>1. writeDoneCount \in Nat /\ wTotal \in Nat
    BY DEF TypeInv, MemoryTypes, HostTypes
  <2> QED  BY <1>4, <1>5, <1>10, <2>1
<1>12. \A k \in 1 .. Len(down) : ~IsCommand(k)
  <2>1. PICK a \in Progress : OnTheWay(r, m, a) /\ a.n = Given(t)
    BY DEF CommandInv
  <2> DEFINE p == [host |-> hostMemTemp, fpga |-> fpgaMemTemp, n |-> m + Len(dmaCmdQ)]
  <2>2. Path(Progress, down, p, a, WordMoves(r)) /\ down \in Seq(Words)
    BY <2>1 DEF OnTheWay, TypeInv, CommandTypes
  <2>3. p.n = a.n
    BY <1>5, <2>1
  <2> HIDE DEF p
  <2> QED  BY <2>2, <2>3, WordsCount DEF IsCommand
<1> QED  BY <1>5, <1>6, <1>7, <1>8, <1>9, <1>10, <1>11, <1>12 DEF ToQuiet

(* How far a copy from the FPGA is.                                        *)
FromSteps(t, m) ==
  /\ m <= Given(t) /\ m + Len(dmaCmdQ) <= Given(t) /\ Given(t) \in Nat
  /\ Done(t) \in Nat /\ Done(t) <= m
  /\ Fetching(m) \in Nat /\ Fetching(m) = m - Len(dramReadWordCntQ) /\ Fetching(m) <= m
FromSizes ==
  /\ Len(dmaCmdQ) \in Nat /\ Len(dramReadWordCntQ) \in Nat /\ Len(dramReadWordQ) \in Nat
  /\ Len(pcieWriteReqQ) \in Nat /\ memWriteLeft \in Nat /\ dramRead.left \in Nat
FromCells(r, m) ==
  /\ Wanted(r, m) \in Nat /\ Handed(r, m) \in Nat /\ Fetched(r, m) \in Nat /\ E(r, m) \in Nat
  /\ Wanted(r, m) = E(r, m) - memWriteLeft /\ Handed(r, m) = Wanted(r, m) - Len(pcieWriteReqQ)
  /\ Fetched(r, m) = Handed(r, m) + Len(dramReadWordQ)
  /\ E(r, Fetching(m)) \in Nat /\ Fetched(r, m) = E(r, Fetching(m)) - dramRead.left
  /\ E(r, Fetching(m)) <= E(r, m)
FromRoom(t, r, m, l) ==
  /\ E(r, Done(t)) \in Nat /\ E(r, Done(t)) <= Handed(r, m) /\ l <= Handed(r, m)
  /\ memWriteLeft > 0 => E(r, m - 1) <= Wanted(r, m)
  /\ r.len \in Nat /\ Passes(r) = call[t].n

LEMMA FromNumbers ==
  ASSUME TypeInv, NEW t, t = mutex, mutex # None, NEW m \in Nat, NEW l \in Nat,
         CountInv(t), NEW r, r = call[t].req, CommandInv(t, r, m), FromInv(t, r, m, l)
  PROVE  FromSteps(t, m) /\ FromSizes /\ FromCells(r, m) /\ FromRoom(t, r, m, l)
<1>1. /\ r.len \in Nat /\ Passes(r) = call[t].n /\ Given(t) \in Nat
  BY Busy
<1>2. /\ Len(dmaCmdQ) \in Nat /\ Len(dramReadWordCntQ) \in Nat /\ Len(dramReadWordQ) \in Nat
      /\ Len(pcieWriteReqQ) \in Nat /\ memWriteLeft \in Nat /\ dramRead.left \in Nat
  <2>1. /\ dmaCmdQ \in Seq(Commands) /\ dramReadWordCntQ \in Seq(Bursts) /\ dramReadWordQ \in Seq(Cells)
        /\ pcieWriteReqQ \in Seq(WriteRequest) /\ dramRead \in Bursts /\ memWriteLeft \in Nat
    BY DEF TypeInv, CommandTypes, WriteTypes, BurstTypes
  <2> QED  BY <2>1, LenProperties DEF Bursts
<1>3. m + Len(dmaCmdQ) <= Given(t) /\ Done(t) <= m
  BY DEF CommandInv
<1>4. Done(t) \in Nat
  BY DEF CountInv
<1>5. /\ FromAsks(r, m, Wanted(r, m)) /\ FromBursts(r, Fetching(m), Fetched(r, m))
      /\ FromDone(r, Handed(r, m), Done(t)) /\ FromLink(r, l, Handed(r, m))
  BY DEF FromInv
<1> PICK b : b = Fetching(m)
  OBVIOUS
<1>6. b \in Int /\ b = Fetching(m) /\ b = m - Len(dramReadWordCntQ)
  BY <1>2 DEF Fetching
<1>7. b \in Nat /\ b <= m /\ m <= Given(t)
  <2>1. b \in Nat
    BY <1>5, <1>6 DEF FromBursts
  <2> QED  BY <1>1, <1>2, <1>3, <1>6, <2>1
<1>8. PICK e \in Nat : e = E(r, m)
  BY <1>1, EdgeFacts
<1> PICK x : x = Wanted(r, m)
  OBVIOUS
<1> PICK h : h = Handed(r, m)
  OBVIOUS
<1> PICK f : f = Fetched(r, m)
  OBVIOUS
<1>9. /\ x \in Int /\ h \in Int /\ f \in Int
      /\ x = Wanted(r, m) /\ h = Handed(r, m) /\ f = Fetched(r, m)
      /\ x = e - memWriteLeft /\ h = x - Len(pcieWriteReqQ) /\ f = h + Len(dramReadWordQ)
  <2>1. x = e - memWriteLeft /\ x \in Int
    BY <1>2, <1>8 DEF Wanted
  <2>2. h = x - Len(pcieWriteReqQ) /\ h \in Int
    BY <1>2, <2>1 DEF Handed
  <2>3. f = h + Len(dramReadWordQ) /\ f \in Int
    BY <1>2, <2>2 DEF Fetched
  <2> QED  BY <2>1, <2>2, <2>3
<1>10. PICK eb \in Nat : eb = E(r, b) /\ eb <= e
  <2>1. E(r, b) \in Nat
    BY <1>1, <1>7, EdgeFacts
  <2>2. E(r, b) <= E(r, m)
    BY <1>1, <1>7, Later
  <2> QED  BY <1>8, <2>1, <2>2
<1>11. f = eb - dramRead.left
  BY <1>5, <1>6, <1>9, <1>10 DEF FromBursts
<1>12. PICK ed \in Nat : ed = E(r, Done(t)) /\ ed <= h /\ h >= 0
  <2>1. E(r, Done(t)) \in Nat
    BY <1>1, <1>4, EdgeFacts
  <2> QED  BY <1>5, <1>9, <2>1 DEF FromDone
<1>13. h \in Nat /\ x \in Nat /\ f \in Nat
  BY <1>2, <1>9, <1>12
<1>14. l <= h
  <2>1. up \in Seq(LinkWord)
    BY DEF TypeInv, LinkTypes
  <2> QED  BY <1>5, <1>9, <2>1, CellsCount
<1>15. ASSUME memWriteLeft > 0 PROVE E(r, m - 1) <= x
  <2> PICK p : p = E(r, m - 1)
    OBVIOUS
  <2>1. m > 0 /\ memWriteLeft <= e - p
    BY <1>5, <1>8, <1>15 DEF FromAsks
  <2>2. p \in Nat
    <3>1. m - 1 \in Nat
      BY ONLY <2>1, m \in Nat
    <3> QED  BY ONLY <1>1, <3>1, EdgeFacts, p = E(r, m - 1)
  <2>3. memWriteLeft \in Nat /\ x \in Int /\ x = e - memWriteLeft
    BY ONLY <1>2, <1>9
  <2>4. p <= x
    BY ONLY <2>1, <2>2, <2>3, e \in Nat
  <2> QED  BY ONLY <2>4, p = E(r, m - 1)
<1>16. /\ m <= Given(t) /\ m + Len(dmaCmdQ) <= Given(t) /\ Done(t) \in Nat /\ Done(t) <= m
       /\ Fetching(m) \in Nat /\ Fetching(m) = m - Len(dramReadWordCntQ) /\ Fetching(m) <= m
  BY ONLY <1>3, <1>4, <1>6, <1>7
<1>17. /\ Wanted(r, m) \in Nat /\ Handed(r, m) \in Nat /\ Fetched(r, m) \in Nat
       /\ Wanted(r, m) = E(r, m) - memWriteLeft /\ Handed(r, m) = Wanted(r, m) - Len(pcieWriteReqQ)
       /\ Fetched(r, m) = Handed(r, m) + Len(dramReadWordQ)
  BY ONLY <1>8, <1>9, <1>13
<1>18. /\ Fetched(r, m) = E(r, Fetching(m)) - dramRead.left
       /\ E(r, m) \in Nat /\ E(r, Fetching(m)) \in Nat /\ E(r, Fetching(m)) <= E(r, m)
  BY ONLY <1>6, <1>8, <1>9, <1>10, <1>11
<1>19. /\ E(r, Done(t)) \in Nat /\ E(r, Done(t)) <= Handed(r, m) /\ l <= Handed(r, m)
       /\ memWriteLeft > 0 => E(r, m - 1) <= Wanted(r, m)
  BY ONLY <1>9, <1>12, <1>14, <1>15
<1>20. FromSteps(t, m)
  BY ONLY <1>1, <1>16 DEF FromSteps
<1>21. FromSizes
  BY ONLY <1>2 DEF FromSizes
<1>22. FromCells(r, m)
  BY ONLY <1>17, <1>18 DEF FromCells
<1>23. FromRoom(t, r, m, l)
  BY ONLY <1>1, <1>19 DEF FromRoom
<1> QED  BY ONLY <1>20, <1>21, <1>22, <1>23

LEMMA FromFinished ==
  ASSUME TypeInv, NEW t, t = mutex, mutex # None, NEW m \in Nat, NEW l \in Nat,
         CountInv(t), NEW r, r = call[t].req, CommandInv(t, r, m), FromInv(t, r, m, l), r.op = "from",
         Done(t) >= Given(t)
  PROVE  /\ ToQuiet /\ FromQuiet /\ dmaCmdQ = <<>> /\ \A k \in 1 .. Len(down) : ~IsCommand(k)
         /\ Handed(r, m) = E(r, Given(t))
         /\ issued.from = rTotal + Given(t) /\ wTotal = issued.to /\ Done(t) = Given(t)
<1>0. FromSteps(t, m) /\ FromSizes /\ FromCells(r, m) /\ FromRoom(t, r, m, l)
  BY FromNumbers
<1>2. /\ m <= Given(t) /\ m + Len(dmaCmdQ) <= Given(t) /\ Len(dmaCmdQ) \in Nat
      /\ Len(dramReadWordCntQ) \in Nat /\ Len(dramReadWordQ) \in Nat /\ Len(pcieWriteReqQ) \in Nat
      /\ memWriteLeft \in Nat /\ dramRead.left \in Nat
      /\ Done(t) \in Nat /\ Done(t) <= m
      /\ Fetching(m) \in Nat /\ Fetching(m) = m - Len(dramReadWordCntQ) /\ Fetching(m) <= m
  BY ONLY <1>0 DEF FromSteps, FromSizes
<1>3. /\ Wanted(r, m) \in Nat /\ Handed(r, m) \in Nat /\ Fetched(r, m) \in Nat
      /\ Wanted(r, m) = E(r, m) - memWriteLeft /\ Handed(r, m) = Wanted(r, m) - Len(pcieWriteReqQ)
      /\ Fetched(r, m) = Handed(r, m) + Len(dramReadWordQ)
      /\ Fetched(r, m) = E(r, Fetching(m)) - dramRead.left
      /\ E(r, m) \in Nat /\ E(r, Fetching(m)) \in Nat /\ E(r, Fetching(m)) <= E(r, m)
      /\ E(r, Done(t)) <= Handed(r, m)
      /\ r.len \in Nat /\ Passes(r) = call[t].n
  BY ONLY <1>0 DEF FromCells, FromRoom
<1>4. Given(t) \in Nat /\ Given(t) <= Passes(r)
  BY Busy
<1>5. m = Given(t) /\ Done(t) = m /\ Len(dmaCmdQ) = 0
  BY ONLY <1>2, <1>4, Done(t) >= Given(t), m \in Nat
<1>6. /\ Handed(r, m) = E(r, m) /\ memWriteLeft = 0 /\ Len(pcieWriteReqQ) = 0 /\ Len(dramReadWordQ) = 0
      /\ dramRead.left = 0 /\ E(r, Fetching(m)) = E(r, m)
  <2> PICK e : e = E(r, m)
    OBVIOUS
  <2> PICK g : g = E(r, Fetching(m))
    OBVIOUS
  <2> PICK x : x = Wanted(r, m)
    OBVIOUS
  <2> PICK h : h = Handed(r, m)
    OBVIOUS
  <2> PICK f : f = Fetched(r, m)
    OBVIOUS
  <2>1. e <= h
    BY ONLY <1>3, <1>5, e = E(r, m), h = Handed(r, m)
  <2>2. /\ e \in Nat /\ x \in Nat /\ h \in Nat /\ f \in Nat /\ g \in Nat /\ g <= e /\ h \in Nat
        /\ x = e - memWriteLeft /\ h = x - Len(pcieWriteReqQ) /\ f = h + Len(dramReadWordQ)
        /\ f = g - dramRead.left
    BY ONLY <1>3, e = E(r, m), x = Wanted(r, m), h = Handed(r, m), f = Fetched(r, m), g = E(r, Fetching(m))
  <2>3. /\ h = e /\ memWriteLeft = 0 /\ Len(pcieWriteReqQ) = 0 /\ Len(dramReadWordQ) = 0
        /\ dramRead.left = 0 /\ g = e
    <3>1. /\ memWriteLeft \in Nat /\ Len(pcieWriteReqQ) \in Nat /\ Len(dramReadWordQ) \in Nat
          /\ dramRead.left \in Nat
      BY ONLY <1>2
    <3>2. x = e - memWriteLeft /\ h = x - Len(pcieWriteReqQ) /\ e \in Nat /\ x \in Nat /\ h \in Nat
      BY ONLY <2>2
    <3>3. h = e /\ memWriteLeft = 0 /\ Len(pcieWriteReqQ) = 0
      BY ONLY <2>1, <3>1, <3>2
    <3>4. Len(dramReadWordQ) = 0 /\ dramRead.left = 0 /\ g = e
      BY ONLY <2>2, <3>1, <3>3
    <3> QED  BY ONLY <3>3, <3>4
  <2> QED  BY ONLY <2>3, e = E(r, m), h = Handed(r, m), g = E(r, Fetching(m))
<1>7. Len(dramReadWordCntQ) = 0
  <2>1. Fetching(m) < m => E(r, Fetching(m)) < E(r, m)
    <3>1. PICK b \in Nat : b = Fetching(m)
      BY <1>2
    <3>2. Passes(r) \in Nat
      BY <1>3, EdgeFacts
    <3>3. b < m => b < Passes(r)
      BY <1>4, <1>5, <3>2
    <3> QED  BY <1>3, <3>1, <3>3, Later
  <2> QED  BY <1>2, <1>3, <1>6, <2>1
<1>8. /\ dmaCmdQ = <<>> /\ dramReadWordCntQ = <<>> /\ dramReadWordQ = <<>> /\ pcieWriteReqQ = <<>>
  <2>1. /\ dmaCmdQ \in Seq(Commands) /\ dramReadWordCntQ \in Seq(Bursts) /\ dramReadWordQ \in Seq(Cells)
        /\ pcieWriteReqQ \in Seq(WriteRequest)
    BY DEF TypeInv, CommandTypes, WriteTypes, BurstTypes
  <2> QED  BY <1>5, <1>6, <1>7, <2>1, EmptySeq
<1>9. ToQuiet
  BY DEF FromInv
<1>10. issued.from = rTotal + Given(t) /\ wTotal = issued.to /\ Done(t) = readDoneCount - rTotal
  <2>1. call[t].req.op # "to"
    OBVIOUS
  <2> QED  BY <2>1, Busy DEF CountInv, Done
<1>11. readDoneCount = issued.from
  <2>1. readDoneCount \in Nat /\ rTotal \in Nat
    BY DEF TypeInv, MemoryTypes, HostTypes
  <2> QED  BY <1>4, <1>5, <1>10, <2>1
<1>12. \A k \in 1 .. Len(down) : ~IsCommand(k)
  <2>1. PICK a \in Progress : OnTheWay(r, m, a) /\ a.n = Given(t)
    BY DEF CommandInv
  <2> DEFINE p == [host |-> hostMemTemp, fpga |-> fpgaMemTemp, n |-> m + Len(dmaCmdQ)]
  <2>2. Path(Progress, down, p, a, WordMoves(r)) /\ down \in Seq(Words)
    BY <2>1 DEF OnTheWay, TypeInv, CommandTypes
  <2>3. p.n = a.n
    BY <1>5, <2>1
  <2> HIDE DEF p
  <2> QED  BY <2>2, <2>3, WordsCount DEF IsCommand
<1> QED  BY <1>5, <1>6, <1>8, <1>9, <1>10, <1>11, <1>12 DEF FromQuiet

-----------------------------------------------------------------------------
(* What a step leaves alone.                                               *)
LEMMA CountsSame ==
  ASSUME NEW t, NEW r, r = call[t].req, call'[t].req = r, inst' = inst, wTotal' = wTotal, rTotal' = rTotal,
         UNCHANGED doneVars
  PROVE  Count(t)' = Count(t) /\ Total(t)' = Total(t) /\ Done(t)' = Done(t)
<1>1. Count(t)' = Count(t)
  BY DEF Count, ToFpga, doneVars
<1>2. Total(t)' = Total(t)
  BY DEF Total
<1> QED  BY <1>1, <1>2 DEF Done

LEMMA CountKept ==
  ASSUME NEW t, NEW r, r = call[t].req, call'[t].req = r, inst' = inst, wTotal' = wTotal, rTotal' = rTotal,
         UNCHANGED <<doneVars, issued>>, Given(t)' = Given(t), call'[t].i = call[t].i,
         pc'[t] = "seen" => pc[t] = "seen" /\ call'[t] = call[t],
         \A k \in 1 .. Len(up') : Answer(k)' => up'[k].count <= Count(t),
         CountInv(t)
  PROVE  CountInv(t)'
<1>1. Count(t)' = Count(t) /\ Total(t)' = Total(t) /\ Done(t)' = Done(t)
  BY CountsSame
<1>2. Target(t)' = Target(t)
  BY <1>1 DEF Target, Awaited
<1>3. /\ IF r.op = "to" THEN issued.to = wTotal + Given(t) /\ rTotal = issued.from
         ELSE issued.from = rTotal + Given(t) /\ wTotal = issued.to
      /\ Done(t) \in Nat /\ Done(t) >= call[t].i - 1
      /\ pc[t] = "seen" => Target(t) <= call[t].seen /\ call[t].seen <= Count(t)
  BY DEF CountInv
<1>4. /\ IF r.op = "to" THEN issued'.to = wTotal' + Given(t)' /\ rTotal' = issued'.from
         ELSE issued'.from = rTotal' + Given(t)' /\ wTotal' = issued'.to
      /\ Done(t)' \in Nat /\ Done(t)' >= call'[t].i - 1
      /\ pc'[t] = "seen" => Target(t)' <= call'[t].seen /\ call'[t].seen <= Count(t)'
  BY <1>1, <1>2, <1>3
<1> QED  BY <1>1, <1>4 DEF CountInv

LEMMA CommandKept ==
  ASSUME NEW t, NEW r, NEW m, UNCHANGED <<down, hostMemTemp, fpgaMemTemp, dmaCmdQ>>,
         Given(t)' = Given(t), Done(t)' <= m,
         pc'[t] = "command" => pc[t] = "command" /\ call'[t] = call[t], CommandInv(t, r, m)
  PROVE  CommandInv(t, r, m)'
<1>1. Queued(r, m)' /\ m \in Nat /\ m + Len(dmaCmdQ') <= Given(t)'
  BY DEF CommandInv, Queued
<1>2. PICK a \in Progress : OnTheWay(r, m, a) /\ a.n = Given(t) /\ ArgsOf(t, [host |-> a.host, fpga |-> a.fpga])
  BY DEF CommandInv
<1>3. OnTheWay(r, m, a)'
  BY <1>2 DEF OnTheWay
<1>4. ArgsOf(t, [host |-> a.host, fpga |-> a.fpga])'
  BY <1>2 DEF ArgsOf
<1> QED  BY <1>1, <1>2, <1>3, <1>4 DEF CommandInv

ToCmdVars == <<memReadLeft, hostMemOff>>
FromCmdVars == <<memWriteLeft, hostMemOff>>

LEMMA ToKept ==
  ASSUME NEW t, NEW r, NEW m, UNCHANGED <<ToCmdVars, toVars, mem, before>>,
         Done(t)' = Done(t), ToBuffer(r, Filling(t))',
         FromQuiet', \A k \in 1 .. Len(up') : Answer(k)', ToInv(t, r, m)
  PROVE  ToInv(t, r, m)'
<1>1. Asked(r, m)' = Asked(r, m) /\ Begun(m)' = Begun(m) /\ Waiting' = Waiting
  BY DEF Asked, Begun, Waiting, ToCmdVars, toVars
<1>2. Arrived(r, m)' = Arrived(r, m) /\ Written(r, m)' = Written(r, m)
  BY <1>1 DEF Arrived, Written, toVars
<1>3. ToAsks(r, m, Asked(r, m))'
  BY <1>1 DEF ToInv, ToAsks, ToCmdVars
<1>4. ToBursts(r, Begun(m), Done(t), Written(r, m))'
  BY <1>1, <1>2 DEF ToInv, ToBursts, toVars
<1>5. ToTags(r, Written(r, m))'
  BY <1>1, <1>2 DEF ToInv, ToTags, toVars
<1>6. ToReads(r, Arrived(r, m))'
  BY <1>1, <1>2 DEF ToInv, ToReads, toVars
<1>7. ToMemory(r, Written(r, m))'
  BY <1>2 DEF ToInv, ToMemory
<1> QED  BY <1>3, <1>4, <1>5, <1>6, <1>7 DEF ToInv

LEMMA BufferSame ==
  ASSUME NEW t, NEW r, NEW f, dmabuf' = dmabuf, Filling(t)' = f, ToBuffer(r, f)
  PROVE  ToBuffer(r, Filling(t))'
BY DEF ToBuffer

LEMMA FromKept ==
  ASSUME NEW t, NEW r, NEW m, NEW l, UNCHANGED <<FromCmdVars, fromVars, mem, up, dmabuf, rTotal>>,
         Done(t)' = Done(t), ToQuiet', FromLanded(t, l)', FromUser(t)',
         FromInv(t, r, m, l)
  PROVE  FromInv(t, r, m, l)'
<1>1. Wanted(r, m)' = Wanted(r, m) /\ Fetching(m)' = Fetching(m)
  BY DEF Wanted, Fetching, FromCmdVars, fromVars
<1>2. Handed(r, m)' = Handed(r, m)
  BY <1>1 DEF Handed, fromVars
<1>3. Fetched(r, m)' = Fetched(r, m)
  BY <1>2 DEF Fetched, fromVars
<1>4. FromAsks(r, m, Wanted(r, m))'
  BY <1>1 DEF FromInv, FromAsks, FromCmdVars
<1>5. FromBursts(r, Fetching(m), Fetched(r, m))'
  BY <1>1, <1>3 DEF FromInv, FromBursts, fromVars
<1>6. FromWords(r, Handed(r, m))'
  BY <1>2 DEF FromInv, FromWords, fromVars
<1>7. FromDone(r, Handed(r, m), Done(t))'
  BY <1>2 DEF FromInv, FromDone
<1>8. FromRequests(r, Handed(r, m))'
  BY <1>2 DEF FromInv, FromRequests, fromVars
<1>9. FromLink(r, l, Handed(r, m))'
  BY <1>2 DEF FromInv, FromLink, LandMoves
<1>10. FromBuffer(r, l)'
  BY DEF FromInv, FromBuffer
<1> QED  BY <1>4, <1>5, <1>6, <1>7, <1>8, <1>9, <1>10 DEF FromInv

LEMMA LandedSame ==
  ASSUME NEW t, NEW l, NEW r, r = call[t].req, call'[t].req = r, call'[t].i = call[t].i,
         pc'[t] = "seen" => pc[t] = "seen", FromLanded(t, l)
  PROVE  FromLanded(t, l)'
BY DEF FromLanded

LEMMA UserSame ==
  ASSUME NEW t, call'[t].req = call[t].req, call'[t].done = call[t].done, user'[t] = user[t], mem' = mem,
         FromUser(t)
  PROVE  FromUser(t)'
BY DEF FromUser

LEMMA QuietToSame ==
  ASSUME UNCHANGED <<toVars, memReadLeft, writeDoneCount>>, issued'.to = issued.to, ToQuiet PROVE ToQuiet'
BY DEF ToQuiet, toVars

LEMMA QuietFromSame ==
  ASSUME UNCHANGED <<fromVars, memWriteLeft, readDoneCount>>, issued'.from = issued.from, FromQuiet PROVE FromQuiet'
BY DEF FromQuiet, fromVars

-----------------------------------------------------------------------------
(* A step of the host, taken while thread t has the mutex, that leaves the *)
(* FPGA and the link alone.                                                *)
LEMMA HostKept ==
  ASSUME NEW t, NEW r, r = call[t].req, call'[t].req = r, inst' = inst, wTotal' = wTotal, rTotal' = rTotal,
         UNCHANGED <<linkVars, cmdVars, toVars, fromVars, doneVars, dmabuf, mem, before, issued>>,
         Given(t)' = Given(t), Filling(t)' = Filling(t),
         call'[t].i = call[t].i, call'[t].done = call[t].done, user'[t] = user[t],
         pc'[t] = "seen" => pc[t] = "seen" /\ call'[t] = call[t],
         pc'[t] = "command" => pc[t] = "command" /\ call'[t] = call[t],
         BusyFor(t, r)
  PROVE  BusyFor(t, r)'
<1>1. CountInv(t)
  BY DEF BusyFor
<1>2. Count(t)' = Count(t) /\ Done(t)' = Done(t)
  BY CountsSame
<1>3. CountInv(t)'
  <2>1. \A k \in 1 .. Len(up') : Answer(k)' => up'[k].count <= Count(t)
    BY <1>1 DEF CountInv, Answer, linkVars
  <2> QED  BY <1>1, <2>1, CountKept
<1>4. PICK m \in Nat : /\ CommandInv(t, r, m)
                       /\ \/ r.op = "to" /\ ToInv(t, r, m)
                          \/ r.op = "from" /\ \E l \in Nat : FromInv(t, r, m, l)
  BY DEF BusyFor
<1>5. CommandInv(t, r, m)'
  <2>1. Done(t)' <= m
    BY <1>2, <1>4 DEF CommandInv
  <2> QED  BY <1>4, <2>1, CommandKept DEF linkVars, cmdVars
<1>6. ASSUME ToInv(t, r, m) PROVE ToInv(t, r, m)'
  <2>1. FromQuiet'
    BY <1>6, QuietFromSame DEF ToInv, doneVars, cmdVars
  <2>2. \A k \in 1 .. Len(up') : Answer(k)'
    BY <1>6 DEF ToInv, Answer, linkVars
  <2>3. ToBuffer(r, Filling(t))'
    BY <1>6, BufferSame DEF ToInv
  <2> QED  BY <1>2, <1>6, <2>1, <2>2, <2>3, ToKept DEF cmdVars, ToCmdVars
<1>7. ASSUME NEW l \in Nat, FromInv(t, r, m, l) PROVE FromInv(t, r, m, l)'
  <2>1. ToQuiet'
    BY <1>7, QuietToSame DEF FromInv, doneVars, cmdVars
  <2>2. FromLanded(t, l)'
    BY <1>7, LandedSame DEF FromInv
  <2>3. FromUser(t)'
    BY <1>7, UserSame DEF FromInv
  <2> QED  BY <1>2, <1>7, <2>1, <2>2, <2>3, FromKept DEF cmdVars, linkVars, FromCmdVars
<1> QED  BY <1>3, <1>4, <1>5, <1>6, <1>7 DEF BusyFor

LEMMA BusyEnter ==
  ASSUME TypeInv, NEW t, t = mutex, mutex # None, NEW r, r = call[t].req, BusyFor(t, r),
         NEW s \in Threads, NEW c \in Calls, Enter(s, c)
  PROVE  BusyFor(t, r)'
<1>1. t \in Threads /\ s # t
  BY Busy DEF Enter
<1>2. pc'[t] = pc[t] /\ call'[t] = call[t] /\ user'[t] = user[t]
  BY <1>1 DEF Enter, TypeInv, HostTypes
<1>3. Given(t)' = Given(t) /\ Filling(t)' = Filling(t)
  BY <1>2 DEF Given, Filling, InLoop
<1> QED  BY <1>2, <1>3, HostKept DEF Enter

-----------------------------------------------------------------------------
(* The holder of the mutex, with r for what it was asked for.              *)
LEMMA Holder ==
  ASSUME TypeInv, NEW t, t = mutex, mutex # None, NEW r, r = call[t].req
  PROVE  /\ t \in Threads /\ inst = "ready" /\ LoopInv(call[t])
         /\ r \in Calls /\ r.op \in {"to", "from"} /\ r.len \in Nat /\ r # NoCall
         /\ call[t].n = Passes(r) /\ Passes(r) \in Nat /\ call[t].i \in Nat /\ call[t].i <= Passes(r)
<1>1. r \in Calls
  BY Busy
<1>2. r # NoCall
  BY <1>1, ACall
<1> QED  BY <1>1, <1>2, Busy

(* Its place in the loop, after a step that only moves its pc.             *)
LEMMA PcMoves ==
  ASSUME TypeInv, NEW t \in Threads, NEW v, pc' = [pc EXCEPT ![t] = v], call' = call
  PROVE  /\ pc'[t] = v
         /\ Given(t)' = (IF v \in {"chunk", "arguments", "command"} THEN call[t].i
                         ELSE Least(call[t].i + 1, call[t].n))
         /\ Filling(t)' = (IF v \in {"arguments", "command"} THEN call[t].i + 1 ELSE Given(t)')
<1>1. pc'[t] = v
  BY DEF TypeInv, HostTypes
<1>2. Given(t)' = (IF v \in {"chunk", "arguments", "command"} THEN call[t].i
                   ELSE Least(call[t].i + 1, call[t].n))
  BY <1>1 DEF Given, InLoop
<1>3. Filling(t)' = (IF v \in {"arguments", "command"} THEN call[t].i + 1 ELSE Given(t)')
  BY <1>1 DEF Filling
<1> QED  BY <1>1, <1>2, <1>3

(* The cells of chunk i, as call[t] counts them.                           *)
LEMMA ThisChunk ==
  ASSUME TypeInv, NEW t, t = mutex, mutex # None, NEW r, r = call[t].req,
         NEW i, i = call[t].i, i < call[t].n
  PROVE  /\ i \in Nat /\ i + 1 \in Nat /\ i < Passes(r) /\ r.len \in Nat
         /\ Cur(call[t]) = Front(r, i + 1) - Front(r, i) /\ Cur(call[t]) \in 1 .. HalfPages
         /\ call[t].at = FirstPage(r.at) + Front(r, i) /\ call[t].at + Cur(call[t]) <= FpgaPages
         /\ E(r, i) \in Nat /\ E(r, i + 1) \in Nat /\ Cur(call[t]) * PageCells = E(r, i + 1) - E(r, i)
         /\ r.op = "to" => call[t].done = E(r, i)
<1>1. /\ LoopInv(call[t]) /\ r # NoCall /\ r.len \in Nat /\ i \in Nat /\ call[t].n = Passes(r)
  BY Holder
<1>2. /\ Cur(call[t]) \in 1 .. HalfPages /\ call[t].at + Cur(call[t]) <= FpgaPages
      /\ call[t].at = FirstPage(r.at) + Front(r, i) /\ Cur(call[t]) = Front(r, i + 1) - Front(r, i)
  BY <1>1, ChunkFits
<1>3. /\ Front(r, i) \in Nat /\ Front(r, i + 1) \in Nat
  BY <1>1, FrontNat
<1>4. E(r, i) \in Nat /\ E(r, i + 1) \in Nat
  BY <1>1, EdgeFacts
<1>5. Cur(call[t]) * PageCells = E(r, i + 1) - E(r, i)
  <2>1. PICK p \in Nat : p = Front(r, i)
    BY <1>3
  <2>2. PICK q \in Nat : q = Front(r, i + 1)
    BY <1>3
  <2>3. (q - p) * PageCells = q * PageCells - p * PageCells
    BY Times, Sizes
  <2> QED  BY <1>2, <2>1, <2>2, <2>3 DEF E
<1>6. r.op = "to" => call[t].done = E(r, i)
  BY <1>1 DEF LoopInv, E
<1> QED  BY <1>1, <1>2, <1>3, <1>4, <1>5, <1>6

LEMMA ChunkFilled ==
  ASSUME TypeInv, NEW t, t = mutex, mutex # None, NEW r, r = call[t].req, r.op = "to",
         NEW i, i = call[t].i, StartChunk(t), ToBuffer(r, i)
  PROVE  ToBuffer(r, i + 1)'
<1>1. /\ i \in Nat /\ i + 1 \in Nat /\ i < Passes(r) /\ r.len \in Nat
      /\ E(r, i) \in Nat /\ E(r, i + 1) \in Nat /\ Cur(call[t]) * PageCells = E(r, i + 1) - E(r, i)
      /\ call[t].done = E(r, i)
  BY ThisChunk DEF StartChunk
<1>2. PICK e \in Nat : e = E(r, i)
  BY <1>1
<1>3. PICK g \in Nat : g = E(r, i + 1)
  BY <1>1
<1>4. PICK h \in Nat : h = Half(i)
  BY <1>1, Halves
<1>5. i \in Nat /\ i < Passes(r) /\ r.len \in Nat /\ Passes(r) \in Nat
  BY <1>1, EdgeFacts
<1>6. g - e \in Nat /\ g - e <= HalfCells /\ HalfCells \in Nat \ {0}
  <2>1. E(r, i) <= E(r, i + 1) /\ E(r, i + 1) - E(r, i) <= HalfCells
    BY ONLY <1>5, EdgeFacts
  <2>2. e <= g /\ g - e <= HalfCells
    BY ONLY <1>2, <1>3, <2>1
  <2> QED  BY ONLY <2>2, Sizes, e \in Nat, g \in Nat
<1>7. \A k \in BufCells :
        dmabuf'[k] = IF k \notin h .. h + (g - e) - 1 THEN dmabuf[k] ELSE Cell(r, e + (k - h))
  <2>1. dmabuf' = Filled(call[t])
    BY DEF StartChunk
  <2> QED  BY <1>1, <1>2, <1>3, <1>4, <2>1 DEF Filled, Cell
<1> PICK f : f = i + 1
  OBVIOUS
<1> SUFFICES ToBuffer(r, f)'
  OBVIOUS
<1> SUFFICES \A x \in 0 .. g - 1 : x >= (f - 2) * HalfCells => dmabuf'[Place(x)] = Cell(r, x)
  BY <1>3 DEF ToBuffer
<1> TAKE x \in 0 .. g - 1
<1> HAVE x >= (f - 2) * HalfCells
<1>8. x \in Nat /\ x < g
  BY ONLY x \in 0 .. g - 1, g \in Nat
<1>9. Place(x) \in BufCells /\ Place(x) \in Nat
  BY ONLY <1>8, Places
<1>10. CASE x >= e
  <2>1. x \in E(r, i) .. E(r, i + 1) - 1
    BY ONLY <1>2, <1>3, <1>8, <1>10, e \in Nat, g \in Nat
  <2>2. Place(x) = h + (x - e)
    BY ONLY <1>2, <1>4, <1>5, <2>1, InChunk
  <2>3. Place(x) \in h .. h + (g - e) - 1 /\ e + (Place(x) - h) = x
    BY ONLY <1>6, <1>8, <1>9, <1>10, <2>2, e \in Nat, g \in Nat, h \in Nat
  <2> QED  BY <1>7, <1>9, <2>3
<1>11. CASE x < e
  <2>1. i > 0
    <3>1. i = 0 => E(r, i) = 0
      BY <1>5, Edges
    <3> QED  BY ONLY <1>2, <1>5, <1>8, <1>11, <3>1, e \in Nat
  <2>2. PICK j \in Nat : j = i - 1 /\ j < Passes(r) /\ i = j + 1
    BY ONLY <1>5, <2>1
  <2>3. E(r, j) = j * HalfCells /\ E(r, j) \in Nat
    BY ONLY <1>5, <2>2, EdgeFacts
  <2>4. x >= E(r, j)
    <3>1. f - 2 = j
      BY ONLY <1>5, <2>2, f = i + 1
    <3> QED  BY ONLY <2>3, <3>1, x >= (f - 2) * HalfCells
  <2>5. PICK p \in Nat : p = Half(j) /\ p \in {0, HalfCells}
    <3>1. Half(j) \in Nat
      BY Halves
    <3>2. Half(j) \in {0, HalfCells}
      BY Places
    <3> QED  BY <3>1, <3>2
  <2>6. p # h /\ h \in {0, HalfCells}
    <3>1. HalfPage(j) # HalfPage(i)
      BY ONLY <1>5, <2>2, Sizes DEF HalfPage
    <3>2. /\ HalfPage(j) \in {0, HalfPages} /\ HalfPage(i) \in {0, HalfPages}
          /\ Half(j) = HalfPage(j) * PageCells /\ Half(i) = HalfPage(i) * PageCells
      BY ONLY <1>5, Places DEF Half
    <3>3. HalfCells # 0 /\ HalfCells = HalfPages * PageCells /\ 0 * PageCells = 0
      BY Sizes
    <3> QED  BY ONLY <1>4, <2>5, <3>1, <3>2, <3>3
  <2>7. Place(x) = p + (x - E(r, j)) /\ x - E(r, j) \in 0 .. HalfCells - 1
    <3>1. x \in E(r, j) .. E(r, j + 1) - 1
      BY ONLY <1>2, <1>8, <1>11, <2>2, <2>3, <2>4, e \in Nat
    <3> QED  BY ONLY <1>5, <2>2, <2>5, <3>1, InChunk
  <2>8. Place(x) \notin h .. h + (g - e) - 1
    <3>1. PICK o \in 0 .. HalfCells - 1 : o = x - E(r, j)
      BY <2>7
    <3>2. Place(x) = p + o
      BY ONLY <2>7, <3>1
    <3> QED  BY ONLY <1>6, <1>9, <2>5, <2>6, <3>2, g \in Nat, e \in Nat, h \in Nat, o \in 0 .. HalfCells - 1
  <2>9. dmabuf[Place(x)] = Cell(r, x)
    <3>1. (i - 2) * HalfCells <= (f - 2) * HalfCells /\ (i - 2) * HalfCells \in Int /\ (f - 2) * HalfCells \in Int
      <4>1. HalfCells * (f - 2) - HalfCells * (i - 2) >= HalfCells
        BY ONLY <1>5, Times, Sizes, f = i + 1
      <4>2. /\ HalfCells * (f - 2) = (f - 2) * HalfCells /\ HalfCells * (i - 2) = (i - 2) * HalfCells
            /\ HalfCells * (f - 2) \in Int /\ HalfCells * (i - 2) \in Int
        BY ONLY <1>5, Sizes, f = i + 1
      <4> QED  BY ONLY <4>1, <4>2, Sizes
    <3>2. x \in 0 .. E(r, i) - 1 /\ x >= (i - 2) * HalfCells
      BY ONLY <1>2, <1>8, <1>11, <3>1, x >= (f - 2) * HalfCells, e \in Nat
    <3> QED  BY <3>2 DEF ToBuffer
  <2> QED  BY ONLY <1>7, <1>9, <2>8, <2>9
<1> QED  BY ONLY <1>8, <1>10, <1>11, e \in Nat

-----------------------------------------------------------------------------
LEMMA BusyStartChunk ==
  ASSUME TypeInv, NEW t, t = mutex, mutex # None, NEW r, r = call[t].req, BusyFor(t, r), StartChunk(t)
  PROVE  BusyFor(t, r)'
<1>1. /\ pc[t] = "chunk" /\ pc' = [pc EXCEPT ![t] = "arguments"] /\ call' = call /\ user' = user
      /\ UNCHANGED <<mutex, inst, wTotal, rTotal, issued, before, linkVars, cmdVars, toVars, fromVars, doneVars, mem>>
      /\ dmabuf' = IF r.op = "to" THEN Filled(call[t]) ELSE dmabuf
  BY DEF StartChunk
<1>2. t \in Threads /\ r.op \in {"to", "from"} /\ call[t].i \in Nat
  BY Holder
<1>3. /\ pc'[t] = "arguments" /\ Given(t) = call[t].i /\ Filling(t) = call[t].i
      /\ Given(t)' = call[t].i /\ Filling(t)' = call[t].i + 1
  BY <1>1, <1>2, PcMoves DEF Given, Filling, InLoop
<1>4. Count(t)' = Count(t) /\ Done(t)' = Done(t)
  BY <1>1, CountsSame
<1>5. CountInv(t) /\ CountInv(t)'
  <2>1. CountInv(t)
    BY DEF BusyFor
  <2>2. \A k \in 1 .. Len(up') : Answer(k)' => up'[k].count <= Count(t)
    BY <1>1, <2>1 DEF CountInv, Answer, linkVars
  <2> QED  BY <1>1, <1>3, <2>1, <2>2, CountKept
<1>6. PICK m \in Nat : /\ CommandInv(t, r, m)
                       /\ \/ r.op = "to" /\ ToInv(t, r, m)
                          \/ r.op = "from" /\ \E l \in Nat : FromInv(t, r, m, l)
  BY DEF BusyFor
<1>7. CommandInv(t, r, m)'
  <2>1. Done(t)' <= m
    BY <1>4, <1>6 DEF CommandInv
  <2> QED  BY <1>1, <1>3, <1>6, <2>1, CommandKept DEF linkVars, cmdVars
<1>8. ASSUME r.op = "to", ToInv(t, r, m) PROVE ToInv(t, r, m)'
  <2>1. FromQuiet'
    BY <1>1, <1>8, QuietFromSame DEF ToInv, doneVars, cmdVars
  <2>2. \A k \in 1 .. Len(up') : Answer(k)'
    BY <1>1, <1>8 DEF ToInv, Answer, linkVars
  <2>3. ToBuffer(r, Filling(t))'
    <3>1. PICK i : i = call[t].i
      OBVIOUS
    <3>2. ToBuffer(r, i)
      BY <1>3, <1>8, <3>1 DEF ToInv
    <3>3. ToBuffer(r, i + 1)'
      BY <1>8, <3>1, <3>2, ChunkFilled
    <3>4. Filling(t)' = i + 1
      BY <1>3, <3>1
    <3> QED  BY <3>3, <3>4
  <2> QED  BY <1>1, <1>4, <1>8, <2>1, <2>2, <2>3, ToKept DEF cmdVars, ToCmdVars
<1>9. ASSUME r.op = "from", NEW l \in Nat, FromInv(t, r, m, l) PROVE FromInv(t, r, m, l)'
  <2>1. ToQuiet'
    BY <1>1, <1>9, QuietToSame DEF FromInv, doneVars, cmdVars
  <2>2. FromLanded(t, l)'
    BY <1>1, <1>3, <1>9, LandedSame DEF FromInv
  <2>3. FromUser(t)'
    BY <1>1, <1>9, UserSame DEF FromInv
  <2>4. dmabuf' = dmabuf
    BY <1>1, <1>9
  <2> QED  BY <1>1, <1>4, <1>9, <2>1, <2>2, <2>3, <2>4, FromKept DEF cmdVars, linkVars, FromCmdVars
<1> QED  BY <1>5, <1>6, <1>7, <1>8, <1>9 DEF BusyFor

(* A step of the host that gives words to the FPGA.                        *)
LEMMA HostSends ==
  ASSUME TypeInv, NEW t, t = mutex, mutex # None, NEW r, r = call[t].req, NEW v,
         pc' = [pc EXCEPT ![t] = v], v \notin {"seen", "chunk"}, call' = call, user' = user,
         UNCHANGED <<inst, wTotal, rTotal, before, up, cmdVars, toVars, fromVars, doneVars, dmabuf, mem>>,
         Filling(t)' = Filling(t), CountInv(t)',
         r.op = "to" => issued'.from = issued.from, r.op = "from" => issued'.to = issued.to,
         NEW m \in Nat, CommandInv(t, r, m)',
         \/ r.op = "to" /\ ToInv(t, r, m)
         \/ r.op = "from" /\ \E l \in Nat : FromInv(t, r, m, l)
  PROVE  BusyFor(t, r)'
<1>1. t \in Threads /\ pc'[t] = v
  <2>1. t \in Threads
    BY Holder
  <2> QED  BY <2>1, PcMoves
<1>2. Count(t)' = Count(t) /\ Done(t)' = Done(t)
  BY CountsSame
<1>3. ASSUME r.op = "to", ToInv(t, r, m) PROVE ToInv(t, r, m)'
  <2>1. FromQuiet'
    BY <1>3, QuietFromSame DEF ToInv, doneVars, cmdVars
  <2>2. \A k \in 1 .. Len(up') : Answer(k)'
    BY <1>3 DEF ToInv, Answer
  <2>3. ToBuffer(r, Filling(t))'
    BY <1>3, BufferSame DEF ToInv
  <2> QED  BY <1>2, <1>3, <2>1, <2>2, <2>3, ToKept DEF cmdVars, ToCmdVars
<1>4. ASSUME r.op = "from", NEW l \in Nat, FromInv(t, r, m, l) PROVE FromInv(t, r, m, l)'
  <2>1. ToQuiet'
    BY <1>4, QuietToSame DEF FromInv, doneVars, cmdVars
  <2>2. FromLanded(t, l)'
    BY <1>1, <1>4, LandedSame DEF FromInv
  <2>3. FromUser(t)'
    BY <1>4, UserSame DEF FromInv
  <2> QED  BY <1>2, <1>4, <2>1, <2>2, <2>3, FromKept DEF cmdVars, FromCmdVars
<1> QED  BY <1>3, <1>4 DEF BusyFor

LEMMA BusyArguments ==
  ASSUME TypeInv, NEW t, t = mutex, mutex # None, NEW r, r = call[t].req, BusyFor(t, r), Arguments(t)
  PROVE  BusyFor(t, r)'
<1>1. /\ pc[t] = "arguments" /\ pc' = [pc EXCEPT ![t] = "command"] /\ call' = call /\ user' = user
      /\ UNCHANGED <<inst, wTotal, rTotal, issued, before, up, cmdVars, toVars, fromVars, doneVars, dmabuf, mem>>
      /\ down' = down \o << <<"host", HalfPage(call[t].i)>>, <<"fpga", call[t].at>> >>
  BY DEF Arguments
<1>2. t \in Threads /\ call[t].i \in Nat /\ call[t].i < call[t].n
  BY <1>1, Busy DEF InLoop
<1>3. /\ pc'[t] = "command" /\ Given(t)' = Given(t) /\ Filling(t)' = Filling(t)
  BY <1>1, <1>2, PcMoves DEF Given, Filling, InLoop
<1>4. Count(t)' = Count(t) /\ Done(t)' = Done(t)
  BY <1>1, CountsSame
<1>5. CountInv(t)'
  <2>1. CountInv(t)
    BY DEF BusyFor
  <2>2. \A k \in 1 .. Len(up') : Answer(k)' => up'[k].count <= Count(t)
    BY <1>1, <2>1 DEF CountInv, Answer
  <2> QED  BY <1>1, <1>3, <2>1, <2>2, CountKept
<1>6. PICK m \in Nat : /\ CommandInv(t, r, m)
                       /\ \/ r.op = "to" /\ ToInv(t, r, m)
                          \/ r.op = "from" /\ \E l \in Nat : FromInv(t, r, m, l)
  BY DEF BusyFor
<1>7. CommandInv(t, r, m)'
  <2>1. PICK a \in Progress : OnTheWay(r, m, a) /\ a.n = Given(t)
    BY <1>6 DEF CommandInv
  <2> DEFINE M == WordMoves(r)
  <2> DEFINE p == [host |-> hostMemTemp, fpga |-> fpgaMemTemp, n |-> m + Len(dmaCmdQ)]
  <2> PICK h : h = HalfPage(call[t].i)
    OBVIOUS
  <2> PICK f : f = call[t].at
    OBVIOUS
  <2> DEFINE b == [a EXCEPT !.host = h]
  <2> DEFINE c == [b EXCEPT !.fpga = f]
  <2> DEFINE x == <<"host", h>>
  <2> DEFINE y == <<"fpga", f>>
  <2>2. h \in Nat /\ f \in Nat
    <3>1. HalfPage(call[t].i) \in Nat
      BY <1>2, Halves
    <3>2. call[t].at \in Nat
      BY Busy, Copies
    <3> QED  BY <3>1, <3>2
  <2>3. b \in Progress /\ c \in Progress /\ x \in Words /\ y \in Words
    BY <2>2 DEF Progress, Words
  <2>4. <<a, x, b>> \in M /\ <<b, y, c>> \in M
    BY <2>3 DEF WordMoves
  <2>5. Path(Progress, down, p, a, M) /\ down \in Seq(Words)
    BY <2>1 DEF OnTheWay, TypeInv, CommandTypes
  <2>6. c.n = a.n /\ c.host = h /\ c.fpga = f
    BY DEF Progress
  <2>14. down' = down \o <<x, y>>
    BY <1>1
  <2> HIDE DEF M, p, b, c, x, y
  <2>7. down' = Append(Append(down, x), y)
    <3>1. down \in Seq(Words) /\ x \in Words /\ y \in Words
      BY <2>3, <2>5
    <3> QED  BY ONLY <2>14, <3>1, TwoMore
  <2>15. UNCHANGED <<hostMemTemp, fpgaMemTemp, dmaCmdQ>> /\ call' = call
    BY <1>1 DEF cmdVars
  <2>8. Append(down, x) \in Seq(Words) /\ Path(Progress, Append(down, x), p, b, M)
    BY <2>3, <2>4, <2>5, PathAppend, AppendProperties
  <2>9. Path(Progress, down', p, c, M)
    BY <2>3, <2>4, <2>7, <2>8, PathAppend
  <2>10. OnTheWay(r, m, c)'
    BY ONLY <2>9, <2>15 DEF OnTheWay, M, p
  <2>11. c.n = Given(t)'
    BY <1>3, <2>1, <2>6
  <2>12. ArgsOf(t, [host |-> c.host, fpga |-> c.fpga])'
    BY ONLY <2>6, <2>15, h = HalfPage(call[t].i), f = call[t].at DEF ArgsOf
  <2>16. c \in Progress
    BY <2>3
  <2>13. Queued(r, m)' /\ m + Len(dmaCmdQ)' <= Given(t)' /\ Done(t)' <= m
    BY <1>1, <1>3, <1>4, <1>6 DEF CommandInv, Queued, cmdVars
  <2> QED  BY ONLY <2>16, <2>10, <2>11, <2>12, <2>13, m \in Nat DEF CommandInv
<1> QED  BY <1>1, <1>3, <1>5, <1>6, <1>7, HostSends

LEMMA BusyCommand ==
  ASSUME TypeInv, NEW t, t = mutex, mutex # None, NEW r, r = call[t].req, BusyFor(t, r), Command(t)
  PROVE  BusyFor(t, r)'
<1>1. /\ pc[t] = "command" /\ pc' = [pc EXCEPT ![t] = "poll"] /\ call' = call /\ user' = user
      /\ UNCHANGED <<inst, wTotal, rTotal, before, up, cmdVars, toVars, fromVars, doneVars, dmabuf, mem>>
      /\ down' = Append(down, <<r.op, Cur(call[t])>>) /\ issued' = [issued EXCEPT ![r.op] = @ + 1]
  BY DEF Command
<1> PICK i : i = call[t].i
  OBVIOUS
<1>2. /\ t \in Threads /\ i \in Nat /\ i < call[t].n /\ call[t].n \in Nat /\ r.op \in {"to", "from"}
      /\ call[t].i + 1 = i + 1
  BY <1>1, Busy DEF InLoop
<1>3. /\ pc'[t] = "poll" /\ Given(t) = i /\ Given(t)' = i + 1 /\ Filling(t)' = Filling(t)
  <2>1. pc'[t] = "poll" /\ Given(t)' = Least(i + 1, call[t].n) /\ Filling(t)' = Given(t)'
    BY <1>1, <1>2, PcMoves
  <2>2. Given(t) = i /\ Filling(t) = i + 1
    BY <1>1 DEF Given, Filling, InLoop
  <2>3. Least(i + 1, call[t].n) = i + 1
    BY <1>2 DEF Least
  <2> QED  BY <2>1, <2>2, <2>3
<1>4. Count(t)' = Count(t) /\ Done(t)' = Done(t) /\ Total(t)' = Total(t)
  BY <1>1, CountsSame
<1>5. CountInv(t)
  BY DEF BusyFor
<1>6. issued \in [to : Nat, from : Nat] /\ wTotal \in Nat /\ rTotal \in Nat
  BY DEF TypeInv, HostTypes
<1>7. CountInv(t)'
  <2>1. \A k \in 1 .. Len(up') : Answer(k)' => up'[k].count <= Count(t)'
    BY <1>1, <1>4, <1>5 DEF CountInv, Answer
  <2>2. IF r.op = "to" THEN issued'.to = wTotal' + Given(t)' /\ rTotal' = issued'.from
         ELSE issued'.from = rTotal' + Given(t)' /\ wTotal' = issued'.to
    <3>1. IF r.op = "to" THEN issued.to = wTotal + i /\ rTotal = issued.from
          ELSE issued.from = rTotal + i /\ wTotal = issued.to
      BY <1>3, <1>5 DEF CountInv
    <3>2. /\ r.op = "to" => issued'.to = issued.to + 1 /\ issued'.from = issued.from
          /\ r.op = "from" => issued'.from = issued.from + 1 /\ issued'.to = issued.to
      BY <1>1, <1>6
    <3>3. wTotal' = wTotal /\ rTotal' = rTotal /\ Given(t)' = i + 1
      BY <1>1, <1>3
    <3>4. CASE r.op = "to"
      BY ONLY <1>2, <1>6, <3>1, <3>2, <3>3, <3>4
    <3>5. CASE r.op = "from"
      BY ONLY <1>2, <1>6, <3>1, <3>2, <3>3, <3>5
    <3> QED  BY ONLY <1>2, <3>4, <3>5
  <2>3. Done(t)' \in Nat /\ Done(t)' >= call'[t].i - 1
    BY <1>1, <1>4, <1>5 DEF CountInv
  <2> QED  BY <1>1, <1>3, <2>1, <2>2, <2>3 DEF CountInv
<1>8. PICK m \in Nat : /\ CommandInv(t, r, m)
                       /\ \/ r.op = "to" /\ ToInv(t, r, m)
                          \/ r.op = "from" /\ \E l \in Nat : FromInv(t, r, m, l)
  BY DEF BusyFor
<1>9. CommandInv(t, r, m)'
  <2>1. PICK a \in Progress : OnTheWay(r, m, a) /\ a.n = Given(t) /\ ArgsOf(t, [host |-> a.host, fpga |-> a.fpga])
    BY <1>8 DEF CommandInv
  <2> DEFINE M == WordMoves(r)
  <2> DEFINE p == [host |-> hostMemTemp, fpga |-> fpgaMemTemp, n |-> m + Len(dmaCmdQ)]
  <2> DEFINE b == [a EXCEPT !.n = @ + 1]
  <2> DEFINE x == <<r.op, Cur(call[t])>>
  <2>2. /\ Cur(call[t]) = Front(r, i + 1) - Front(r, i) /\ Cur(call[t]) \in Nat
        /\ call[t].at = FirstPage(r.at) + Front(r, i)
    BY <1>2, ThisChunk, Sizes
  <2>3. a.n = i /\ a.host = HalfPage(i) /\ a.fpga = FirstPage(r.at) + Front(r, i)
    BY <1>1, <1>3, <2>1, <2>2 DEF ArgsOf
  <2>4. b \in Progress /\ x \in Words /\ x[1] = r.op /\ x[2] = Cur(call[t]) /\ b.n = i + 1
    BY <1>2, <2>2, <2>3 DEF Progress, Words
  <2>5. [op |-> r.op, host |-> a.host, fpga |-> a.fpga, pages |-> Cur(call[t])] = CommandOf(r, a.n)
    BY <2>2, <2>3 DEF CommandOf
  <2>6. <<a, x, b>> \in M
    <3>1. /\ x[1] # "host" /\ x[1] # "fpga" /\ b = [a EXCEPT !.n = @ + 1]
          /\ [op |-> x[1], host |-> a.host, fpga |-> a.fpga, pages |-> x[2]] = CommandOf(r, a.n)
      BY <1>2, <2>4, <2>5
    <3> HIDE DEF x, b
    <3> QED  BY <2>1, <2>4, <3>1 DEF WordMoves
  <2>7. Path(Progress, down, p, a, M) /\ down \in Seq(Words)
    BY <2>1 DEF OnTheWay, TypeInv, CommandTypes
  <2>8. down' = Append(down, x)
    BY <1>1
  <2> HIDE DEF M, p, b, x
  <2>9. Path(Progress, down', p, b, M)
    BY <2>4, <2>6, <2>7, <2>8, PathAppend
  <2>10. OnTheWay(r, m, b)'
    BY <1>1, <2>9 DEF OnTheWay, M, p, cmdVars
  <2>11. b.n = Given(t)'
    BY <1>3, <2>4
  <2>12. ArgsOf(t, [host |-> b.host, fpga |-> b.fpga])'
    BY <1>3 DEF ArgsOf
  <2>13. Queued(r, m)' /\ m + Len(dmaCmdQ)' <= Given(t)' /\ Done(t)' <= m
    <3>1. Queued(r, m) /\ m + Len(dmaCmdQ) <= i /\ Done(t) <= m
      BY <1>3, <1>8 DEF CommandInv
    <3>2. Len(dmaCmdQ) \in Nat
      BY LenProperties DEF TypeInv, CommandTypes
    <3> QED  BY <1>1, <1>2, <1>3, <1>4, <3>1, <3>2 DEF Queued, cmdVars
  <2> QED  BY <2>4, <2>10, <2>11, <2>12, <2>13 DEF CommandInv
<1>10. /\ r.op = "to" => issued'.from = issued.from
       /\ r.op = "from" => issued'.to = issued.to
  BY <1>1, <1>6
<1> QED  BY <1>1, <1>3, <1>7, <1>8, <1>9, <1>10, HostSends

-----------------------------------------------------------------------------
(* What the program takes out of a half of the buffer is what the memory   *)
(* of the FPGA has for that chunk.                                         *)
LEMMA InUser ==
  ASSUME NEW r, r.len \in Nat, NEW j \in Nat
  PROVE  E(r, j) <= r.len + HalfCells /\ r.len <= E(r, Passes(r)) /\ E(r, Passes(r)) < r.len + PageCells
<1>1. PageCells * Pages(r.len) \in Nat /\ r.len <= PageCells * Pages(r.len) /\ PageCells * Pages(r.len) < r.len + PageCells
  BY RoundedUp, Sizes DEF Pages
<1>2. E(r, Passes(r)) = PageCells * Pages(r.len)
  <2>1. E(r, Passes(r)) = Pages(r.len) * PageCells /\ Pages(r.len) \in Nat
    BY Edges, Fronts
  <2> QED  BY <2>1, Sizes
<1>3. E(r, j) \in Nat /\ E(r, j) <= E(r, Passes(r))
  BY EdgeFacts
<1>4. HalfCells \in Nat /\ PageCells \in Nat /\ PageCells <= HalfCells
  BY Sizes
<1> QED  BY <1>1, <1>2, <1>3, <1>4

LEMMA Taken ==
  ASSUME TypeInv, NEW t, t = mutex, mutex # None, NEW r, r = call[t].req, NEW m \in Nat, NEW l \in Nat,
         CountInv(t), CommandInv(t, r, m), FromInv(t, r, m, l), pc[t] = "seen",
         NEW j \in Nat, call[t].i = j + 1, NEW x \in E(r, j) .. E(r, j + 1) - 1
  PROVE  dmabuf[Half(call[t].i + 1) + (x - E(r, j))] = mem[Start(r) + x]
<1>1. FromSteps(t, m) /\ FromSizes /\ FromCells(r, m) /\ FromRoom(t, r, m, l)
  BY FromNumbers
<1>2. /\ r.len \in Nat /\ j < Passes(r) /\ Passes(r) \in Nat /\ m <= j + 2
  <2>1. /\ r.len \in Nat /\ call[t].i <= Passes(r) /\ Passes(r) \in Nat
    BY Holder
  <2>2. Given(t) <= call[t].i + 1 /\ Given(t) \in Nat
    BY Busy
  <2>3. m <= Given(t)
    BY <1>1 DEF FromSteps
  <2> QED  BY <2>1, <2>2, <2>3
<1> PICK p : p = j + 1
  OBVIOUS
<1> PICK q : q = j + 2
  OBVIOUS
<1>3. p \in Nat /\ q \in Nat /\ q = p + 1 /\ p = j + 1 /\ q = j + 2
  OBVIOUS
<1>4. PICK e \in Nat : e = E(r, j)
  BY <1>2, EdgeFacts
<1>5. PICK g \in Nat : g = E(r, p)
  BY <1>2, <1>3, EdgeFacts
<1>6. PICK h \in Nat : h = E(r, q)
  BY <1>2, <1>3, EdgeFacts
<1>7. g - e <= HalfCells /\ h - g <= HalfCells /\ HalfCells \in Nat
  <2>1. E(r, p) - E(r, j) <= HalfCells
    BY ONLY <1>2, <1>3, EdgeFacts, j \in Nat
  <2>2. E(r, q) - E(r, p) <= HalfCells
    BY ONLY <1>2, <1>3, EdgeFacts
  <2> QED  BY ONLY <1>4, <1>5, <1>6, <2>1, <2>2, Sizes
<1>8. l <= h
  <2>1. E(r, m) <= h
    BY <1>2, <1>3, <1>6, Later
  <2>2. PICK k \in Nat : k = E(r, m)
    BY <1>1 DEF FromCells
  <2>3. PICK w \in Nat : w = Handed(r, m)
    BY <1>1 DEF FromCells
  <2>4. PICK v \in Nat : v = Wanted(r, m)
    BY <1>1 DEF FromCells
  <2>5. v = k - memWriteLeft /\ w = v - Len(pcieWriteReqQ) /\ l <= w
    BY <1>1, <2>2, <2>3, <2>4 DEF FromCells, FromRoom
  <2>6. memWriteLeft \in Nat /\ Len(pcieWriteReqQ) \in Nat
    BY <1>1 DEF FromSizes
  <2>7. w <= k
    BY ONLY <2>5, <2>6, k \in Nat, v \in Nat, w \in Nat
  <2> QED  BY ONLY <2>1, <2>2, <2>5, <2>7, k \in Nat, w \in Nat, h \in Nat, l \in Nat
<1>9. g <= l
  BY <1>3, <1>5 DEF FromInv, FromLanded
<1>10. x \in Nat /\ e <= x /\ x < g
  BY ONLY <1>3, <1>4, <1>5, e \in Nat, g \in Nat, x \in E(r, j) .. E(r, j + 1) - 1
<1>11. x \in 0 .. l - 1 /\ x >= l - 2 * HalfCells
  BY ONLY <1>7, <1>8, <1>9, <1>10, e \in Nat, g \in Nat, h \in Nat, l \in Nat
<1>12. dmabuf[Place(x)] = mem[Start(r) + x]
  BY <1>11 DEF FromInv, FromBuffer
<1>13. Place(x) = Half(j) + (x - e)
  BY <1>2, <1>4, InChunk
<1>14. Half(call[t].i + 1) = Half(j)
  <2>1. call[t].i + 1 = j + 2
    OBVIOUS
  <2> QED  BY <2>1, Places
<1> QED  BY <1>4, <1>12, <1>13, <1>14

LEMMA UserDrained ==
  ASSUME TypeInv, NEW t, t = mutex, mutex # None, NEW r, r = call[t].req, NEW m \in Nat, NEW l \in Nat,
         CountInv(t), CommandInv(t, r, m), FromInv(t, r, m, l), r.op = "from", pc[t] = "seen",
         NEW j \in Nat, call[t].i = j + 1, NEW n \in Nat, n <= E(r, j + 1) - E(r, j), NEW pad \in Nat,
         user'[t] = Drained(user[t], call[t].done, Half(call[t].i + 1), n, pad),
         NEW x \in 0 .. E(r, j) + n - 1
  PROVE  user'[t][x] = mem[Start(r) + x]
<1>1. r.len \in Nat /\ r # NoCall /\ t \in Threads /\ LoopInv(call[t])
  BY Holder
<1>2. DOMAIN user[t] = 0 .. r.len + HalfCells - 1
  BY <1>1 DEF TypeInv, HostTypes
<1>3. PICK e \in Nat : e = E(r, j)
  BY <1>1, EdgeFacts
<1>4. call[t].done = e
  <2>1. call[t].i # 0 /\ call[t].i - 1 = j
    OBVIOUS
  <2> QED  BY <1>1, <1>3, <2>1 DEF LoopInv, E
<1>5. x \in Nat /\ x < e + n
  BY ONLY <1>3, x \in 0 .. E(r, j) + n - 1, e \in Nat, n \in Nat
<1>6. PICK g \in Nat : g = E(r, j + 1) /\ g <= r.len + HalfCells
  <2>1. j + 1 \in Nat
    OBVIOUS
  <2> QED  BY <1>1, <2>1, EdgeFacts, InUser
<1>7. n <= g - e
  BY <1>3, <1>6
<1>8. x \in DOMAIN user[t] /\ x < g
  <2>1. x < g
    BY ONLY <1>5, <1>7, e \in Nat, g \in Nat, n \in Nat
  <2> QED  BY ONLY <1>1, <1>2, <1>5, <1>6, <2>1, Sizes, g \in Nat
<1>9. CASE x < e
  <2>1. user'[t][x] = user[t][x]
    <3>1. x \notin e .. e + n - 1 /\ x \notin e + n .. e + n + pad - 1
      BY ONLY <1>5, <1>9, e \in Nat, n \in Nat, pad \in Nat
    <3> QED  BY <1>4, <1>8, <3>1 DEF Drained
  <2>2. x \in 0 .. call[t].done - 1
    BY <1>4, <1>5, <1>9
  <2> QED  BY <2>1, <2>2 DEF FromInv, FromUser
<1>10. CASE x >= e
  <2>1. x \in e .. e + n - 1
    BY ONLY <1>5, <1>10, e \in Nat, n \in Nat
  <2>2. user'[t][x] = dmabuf[Half(call[t].i + 1) + (x - e)]
    BY <1>4, <1>8, <2>1 DEF Drained
  <2>3. x \in E(r, j) .. E(r, j + 1) - 1
    BY ONLY <1>3, <1>5, <1>6, <1>8, <1>10, e \in Nat, g \in Nat
  <2> QED  BY <1>3, <2>2, <2>3, Taken
<1> QED  BY ONLY <1>5, <1>9, <1>10, e \in Nat

-----------------------------------------------------------------------------
LEMMA LastCells ==
  ASSUME TypeInv, NEW t, t = mutex, mutex # None, NEW r, r = call[t].req, r.op = "from",
         NEW j \in Nat, call[t].i = j + 1
  PROVE  /\ call[t].done = E(r, j) /\ call[t].last * PageCells = E(r, j + 1) - E(r, j)
         /\ E(r, j) \in Nat /\ E(r, j + 1) \in Nat /\ E(r, j + 1) - E(r, j) \in Nat
<1>1. r.len \in Nat /\ r # NoCall /\ t \in Threads /\ LoopInv(call[t])
  BY Holder
<1>2. call[t].i # 0 /\ call[t].i - 1 = j /\ j + 1 \in Nat
  OBVIOUS
<1>3. call[t].done = E(r, j) /\ call[t].last = Front(r, j + 1) - Front(r, j)
  BY <1>1, <1>2 DEF LoopInv, E
<1>4. PICK p \in Nat : p = Front(r, j)
  BY <1>1, FrontNat
<1>5. PICK q \in Nat : q = Front(r, j + 1)
  BY <1>1, FrontNat
<1>6. (q - p) * PageCells = q * PageCells - p * PageCells
  BY Times, Sizes
<1>7. call[t].last * PageCells = E(r, j + 1) - E(r, j)
  BY <1>3, <1>4, <1>5, <1>6 DEF E
<1>8. E(r, j) \in Nat /\ E(r, j + 1) \in Nat /\ E(r, j) <= E(r, j + 1)
  BY <1>1, EdgeFacts
<1> QED  BY <1>3, <1>7, <1>8

LEMMA BusyNextChunk ==
  ASSUME TypeInv, NEW t, t = mutex, mutex # None, NEW r, r = call[t].req, BusyFor(t, r), NextChunk(t)
  PROVE  BusyFor(t, r)' /\ call'[t].req = r
<1> PICK i : i = call[t].i
  OBVIOUS
<1> PICK d : d = call'[t]
  OBVIOUS
<1>1. /\ t \in Threads /\ r # NoCall /\ r \in Calls /\ i \in Nat /\ LoopInv(call[t]) /\ call[t] \in Local
      /\ call[t].n = Passes(r) /\ Passes(r) \in Nat /\ r.len \in Nat
  <2>1. call[t] \in Local
    BY Busy
  <2> QED  BY <2>1, Holder
<1>2. /\ pc[t] = "seen" /\ i < call[t].n /\ pc' = [pc EXCEPT ![t] = LoopHead(d)]
      /\ UNCHANGED <<inst, wTotal, rTotal, issued, before, linkVars, cmdVars, toVars, fromVars, doneVars, dmabuf, mem>>
  BY DEF NextChunk
<1>3. LoopInv(d) /\ d.req = r /\ d.n = call[t].n /\ d.i = i + 1
  <2> DEFINE c == call[t]
  <2>1. \/ /\ c.req.op = "to"
           /\ d = [c EXCEPT !.i = @ + 1, !.at = @ + Cur(c),
                            !.left = @ - Cur(c), !.done = @ + Cur(c) * PageCells]
        \/ /\ c.req.op = "from"
           /\ d = [c EXCEPT !.i = @ + 1, !.at = @ + Cur(c),
                            !.left = @ - Cur(c), !.last = Cur(c),
                            !.done = @ + c.last * PageCells]
    BY <1>1 DEF NextChunk, TypeInv, HostTypes
  <2>2. c \in Local /\ LoopInv(c) /\ c.i < c.n /\ c.req = r /\ c.i = i
    BY <1>1, <1>2
  <2>3. d.n = c.n => d.n = call[t].n
    OBVIOUS
  <2> HIDE DEF c
  <2> QED  BY ONLY <2>1, <2>2, <2>3, NextPass
<1>4. pc'[t] = (IF i + 1 < call[t].n THEN "chunk" ELSE "poll")
  BY <1>1, <1>2, <1>3 DEF LoopHead, TypeInv, HostTypes
<1>5. Given(t)' = i + 1 /\ Filling(t)' = i + 1 /\ Given(t) = i + 1 /\ Filling(t) = i + 1
  <2>1. Given(t) = i + 1 /\ Filling(t) = i + 1
    BY <1>1, <1>2 DEF Given, Filling, InLoop, Least
  <2>2. Given(t)' = i + 1
    <3>1. CASE i + 1 < call[t].n
      BY <1>3, <1>4, <3>1 DEF Given, InLoop
    <3>2. CASE i + 1 = call[t].n
      <4>1. pc'[t] = "poll" /\ Given(t)' = Least(d.i + 1, d.n)
        BY <1>1, <1>4, <3>2 DEF Given, InLoop
      <4>2. Least(i + 2, i + 1) = i + 1
        BY <1>1 DEF Least
      <4>3. d.i + 1 = i + 2 /\ d.n = i + 1
        BY <1>1, <1>3, <3>2
      <4> QED  BY <4>1, <4>2, <4>3
    <3> QED  BY <1>1, <1>2, <3>1, <3>2
  <2>3. Filling(t)' = Given(t)'
    BY <1>4 DEF Filling
  <2> QED  BY <2>1, <2>2, <2>3
<1>6. Count(t)' = Count(t) /\ Done(t)' = Done(t) /\ Total(t)' = Total(t)
  BY <1>2, <1>3, CountsSame
<1>7. CountInv(t)
  BY DEF BusyFor
<1>8. CountInv(t)'
  <2>1. \A k \in 1 .. Len(up') : Answer(k)' => up'[k].count <= Count(t)'
    BY <1>2, <1>6, <1>7 DEF CountInv, Answer, linkVars
  <2>2. IF r.op = "to" THEN issued'.to = wTotal' + Given(t)' /\ rTotal' = issued'.from
         ELSE issued'.from = rTotal' + Given(t)' /\ wTotal' = issued'.to
    BY <1>2, <1>5, <1>7 DEF CountInv
  <2>3. Done(t)' \in Nat /\ Done(t)' >= d.i - 1
    <3>1. Done(t) \in Nat
      BY <1>7 DEF CountInv
    <3>2. Total(t) + i <= call[t].seen /\ call[t].seen <= Count(t)
      BY <1>2, <1>7 DEF CountInv, Target, Awaited
    <3>3. Count(t) \in Nat /\ Total(t) \in Nat /\ call[t].seen \in Nat
      BY <1>1, Busy, Copies
    <3>4. Done(t) >= i
      BY ONLY <1>1, <3>2, <3>3 DEF Done
    <3> QED  BY <1>1, <1>3, <1>6, <3>1, <3>4
  <2>4. pc'[t] # "seen"
    BY <1>4
  <2> QED  BY <1>3, <2>1, <2>2, <2>3, <2>4 DEF CountInv
<1>9. PICK m \in Nat : /\ CommandInv(t, r, m)
                       /\ \/ r.op = "to" /\ ToInv(t, r, m)
                          \/ r.op = "from" /\ \E l \in Nat : FromInv(t, r, m, l)
  BY DEF BusyFor
<1>10. CommandInv(t, r, m)'
  <2>1. Done(t)' <= m
    BY <1>6, <1>9 DEF CommandInv
  <2>2. pc'[t] # "command" /\ Given(t)' = Given(t)
    BY <1>4, <1>5
  <2> QED  BY <1>2, <1>9, <2>1, <2>2, CommandKept DEF linkVars, cmdVars
<1>11. ASSUME r.op = "to", ToInv(t, r, m) PROVE ToInv(t, r, m)'
  <2>1. FromQuiet'
    BY <1>2, <1>11, QuietFromSame DEF ToInv, doneVars, cmdVars
  <2>2. \A k \in 1 .. Len(up') : Answer(k)'
    BY <1>2, <1>11 DEF ToInv, Answer, linkVars
  <2>3. ToBuffer(r, Filling(t))'
    BY <1>2, <1>5, <1>11, BufferSame DEF ToInv
  <2> QED  BY <1>2, <1>6, <1>11, <2>1, <2>2, <2>3, ToKept DEF cmdVars, ToCmdVars
<1>12. ASSUME r.op = "from", NEW l \in Nat, FromInv(t, r, m, l) PROVE FromInv(t, r, m, l)'
  <2>1. ToQuiet'
    BY <1>2, <1>12, QuietToSame DEF FromInv, doneVars, cmdVars
  <2>2. FromLanded(t, l)'
    <3>1. E(r, i) <= l
      BY <1>2, <1>12 DEF FromInv, FromLanded
    <3>2. d.i - 1 = i
      BY <1>1, <1>3
    <3> QED  BY <1>3, <1>4, <3>1, <3>2 DEF FromLanded
  <2>3. FromUser(t)'
    <3>1. d.done = E(r, i)
      <4>1. d.i # 0 /\ d.i - 1 = i
        BY <1>1, <1>3
      <4> QED  BY <1>3, <1>12, <4>1 DEF LoopInv, E
    <3> SUFFICES \A x \in 0 .. E(r, i) - 1 : user'[t][x] = mem'[Start(r) + x]
      BY <1>3, <3>1 DEF FromUser
    <3> TAKE x \in 0 .. E(r, i) - 1
    <3>2. mem' = mem
      BY <1>2
    <3>3. i # 0
      <4>1. i = 0 => E(r, i) = 0
        BY <1>1, Edges
      <4> QED  BY ONLY <4>1, x \in 0 .. E(r, i) - 1
    <3>4. PICK j \in Nat : j = i - 1 /\ i = j + 1
      BY ONLY <1>1, <3>3
    <3>5. PICK n : n = call[t].last * PageCells
      OBVIOUS
    <3>6. /\ n = E(r, j + 1) - E(r, j) /\ n \in Nat /\ E(r, j) \in Nat /\ E(r, j + 1) \in Nat
      <4>1. call[t].i = j + 1 /\ r.op = "from"
        BY <1>12, <3>4
      <4>2. /\ call[t].last * PageCells = E(r, j + 1) - E(r, j) /\ E(r, j) \in Nat /\ E(r, j + 1) \in Nat
            /\ E(r, j + 1) - E(r, j) \in Nat
        BY <4>1, LastCells
      <4> QED  BY ONLY <3>5, <4>2
    <3>7. user'[t] = Drained(user[t], call[t].done, Half(call[t].i + 1), n, 0)
      <4>1. user' = [user EXCEPT ![t] =
                       Drained(user[t], call[t].done, Half(call[t].i + 1), call[t].last * PageCells, 0)]
        BY <1>12 DEF NextChunk
      <4>2. t \in DOMAIN user
        BY <1>1 DEF TypeInv, HostTypes
      <4> QED  BY ONLY <3>5, <4>1, <4>2
    <3>8. x \in 0 .. E(r, j) + n - 1
      BY ONLY <3>4, <3>6, x \in 0 .. E(r, i) - 1
    <3>9. user'[t][x] = mem[Start(r) + x]
      <4>1. n <= E(r, j + 1) - E(r, j) /\ 0 \in Nat /\ call[t].i = j + 1
        BY ONLY <3>4, <3>6, i = call[t].i
      <4> QED  BY <1>2, <1>7, <1>9, <1>12, <3>6, <3>7, <3>8, <4>1, UserDrained
    <3> QED  BY <3>2, <3>9
  <2> QED  BY <1>2, <1>6, <1>12, <2>1, <2>2, <2>3, FromKept DEF cmdVars, linkVars, FromCmdVars
<1> QED  BY <1>3, <1>8, <1>9, <1>10, <1>11, <1>12 DEF BusyFor

-----------------------------------------------------------------------------
(* Steps of the link.                                                      *)
LEMMA HandedSame ==
  ASSUME NEW r, NEW m, UNCHANGED <<FromCmdVars, fromVars>>
  PROVE  Wanted(r, m)' = Wanted(r, m) /\ Handed(r, m)' = Handed(r, m) /\ Fetched(r, m)' = Fetched(r, m)
         /\ Fetching(m)' = Fetching(m)
<1>1. Wanted(r, m)' = Wanted(r, m) /\ Fetching(m)' = Fetching(m)
  BY DEF Wanted, Fetching, FromCmdVars, fromVars
<1>2. Handed(r, m)' = Handed(r, m)
  BY <1>1 DEF Handed, fromVars
<1>3. Fetched(r, m)' = Fetched(r, m)
  BY <1>2 DEF Fetched, fromVars
<1> QED  BY <1>1, <1>2, <1>3

LEMMA FromLinkMoves ==
  ASSUME NEW t, NEW r, NEW m, NEW l, NEW n, UNCHANGED <<FromCmdVars, fromVars, mem>>,
         Done(t)' = Done(t), ToQuiet', FromLink(r, n, Handed(r, m))', FromLanded(t, n)', FromBuffer(r, n)',
         FromUser(t)', FromInv(t, r, m, l)
  PROVE  FromInv(t, r, m, n)'
<1>1. Wanted(r, m)' = Wanted(r, m) /\ Handed(r, m)' = Handed(r, m) /\ Fetched(r, m)' = Fetched(r, m)
      /\ Fetching(m)' = Fetching(m)
  BY HandedSame
<1>2. FromAsks(r, m, Wanted(r, m))'
  BY <1>1 DEF FromInv, FromAsks, FromCmdVars
<1>3. FromBursts(r, Fetching(m), Fetched(r, m))'
  BY <1>1 DEF FromInv, FromBursts, fromVars
<1>4. FromWords(r, Handed(r, m))'
  BY <1>1 DEF FromInv, FromWords, fromVars
<1>5. FromDone(r, Handed(r, m), Done(t))'
  BY <1>1 DEF FromInv, FromDone
<1>6. FromRequests(r, Handed(r, m))'
  BY <1>1 DEF FromInv, FromRequests, fromVars
<1> QED  BY <1>2, <1>3, <1>4, <1>5, <1>6 DEF FromInv

LEMMA BusyReadStat ==
  ASSUME TypeInv, NEW t, t = mutex, mutex # None, NEW r, r = call[t].req, BusyFor(t, r),
         NEW s \in Threads, readStat(s)
  PROVE  BusyFor(t, r)'
<1>1. s = t /\ t \in Threads
  BY Busy DEF readStat
<1>2. /\ pc[t] = "poll" /\ pc' = [pc EXCEPT ![t] = "load"] /\ call' = call /\ user' = user
      /\ UNCHANGED <<inst, wTotal, rTotal, issued, before, down, cmdVars, toVars, fromVars, doneVars, dmabuf, mem>>
      /\ up' = Append(up, [thread |-> t, count |-> Count(t)])
  BY <1>1 DEF readStat
<1>3. pc'[t] = "load" /\ Given(t)' = Given(t) /\ Filling(t)' = Filling(t)
  BY <1>1, <1>2, PcMoves DEF Given, Filling, InLoop
<1>4. Count(t)' = Count(t) /\ Done(t)' = Done(t)
  BY <1>2, CountsSame
<1>5. CountInv(t)
  BY DEF BusyFor
<1> PICK n : n = Count(t)
  OBVIOUS
<1> DEFINE a == [thread |-> t, count |-> n]
<1>6. n \in Nat /\ up \in Seq(LinkWord) /\ a \in LinkWord
  <2>1. n \in Nat
    BY Busy
  <2> QED  BY <1>1, <2>1 DEF TypeInv, LinkTypes, LinkWord
<1>7. /\ "count" \in DOMAIN a /\ "addr" \notin DOMAIN a /\ a.count = n
  OBVIOUS
<1>8. up' = Append(up, a)
  BY <1>2
<1> HIDE DEF a
<1>9. /\ Len(up') = Len(up) + 1 /\ Len(up) \in Nat /\ \A k \in 1 .. Len(up) : up'[k] = up[k]
      /\ up'[Len(up) + 1] = a
  BY <1>6, <1>8, PutIn
<1>10. CountInv(t)'
  <2> SUFFICES \A k \in 1 .. Len(up') : Answer(k)' => up'[k].count <= Count(t)
    BY <1>2, <1>3, <1>5, CountKept
  <2> TAKE k \in 1 .. Len(up')
  <2>1. CASE k \in 1 .. Len(up)
    BY <1>5, <1>9, <2>1 DEF CountInv, Answer
  <2>2. CASE k = Len(up) + 1
    BY <1>6, <1>7, <1>9, <2>2
  <2> QED  BY <1>9, <2>1, <2>2
<1>11. PICK m \in Nat : /\ CommandInv(t, r, m)
                        /\ \/ r.op = "to" /\ ToInv(t, r, m)
                           \/ r.op = "from" /\ \E l \in Nat : FromInv(t, r, m, l)
  BY DEF BusyFor
<1>12. CommandInv(t, r, m)'
  <2>1. Done(t)' <= m
    BY <1>4, <1>11 DEF CommandInv
  <2> QED  BY <1>2, <1>3, <1>11, <2>1, CommandKept DEF cmdVars
<1>13. ASSUME r.op = "to", ToInv(t, r, m) PROVE ToInv(t, r, m)'
  <2>1. FromQuiet'
    BY <1>2, <1>13, QuietFromSame DEF ToInv, doneVars, cmdVars
  <2>2. \A k \in 1 .. Len(up') : Answer(k)'
    <3> TAKE k \in 1 .. Len(up')
    <3>1. CASE k \in 1 .. Len(up)
      BY <1>9, <1>13, <3>1 DEF ToInv, Answer
    <3>2. CASE k = Len(up) + 1
      BY <1>7, <1>9, <3>2 DEF Answer
    <3> QED  BY <1>9, <3>1, <3>2
  <2>3. ToBuffer(r, Filling(t))'
    BY <1>2, <1>3, <1>13, BufferSame DEF ToInv
  <2> QED  BY <1>2, <1>4, <1>13, <2>1, <2>2, <2>3, ToKept DEF cmdVars, ToCmdVars
<1>14. ASSUME r.op = "from", NEW l \in Nat, FromInv(t, r, m, l) PROVE FromInv(t, r, m, l)'
  <2>1. ToQuiet'
    BY <1>2, <1>14, QuietToSame DEF FromInv, doneVars, cmdVars
  <2>2. FromLanded(t, l)'
    BY <1>2, <1>3, <1>14, LandedSame DEF FromInv
  <2>3. FromUser(t)'
    BY <1>2, <1>14, UserSame DEF FromInv
  <2>4. FromBuffer(r, l)'
    BY <1>2, <1>14 DEF FromInv, FromBuffer
  <2>5. FromLink(r, l, Handed(r, m))'
    <3> PICK h : h = Handed(r, m)
      OBVIOUS
    <3>1. Handed(r, m)' = h
      BY <1>2, HandedSame DEF cmdVars, FromCmdVars
    <3>2. Path(Nat, up, l, h, LandMoves(r))
      BY <1>14 DEF FromInv, FromLink
    <3>3. E(r, n - rTotal) <= h /\ h \in Nat
      <4>1. FromDone(r, h, Done(t))
        BY <1>14 DEF FromInv
      <4>2. Done(t) = n - rTotal
        BY <1>14, Busy DEF Done
      <4>3. h \in Nat
        BY <1>6, <3>2, PathEnds
      <4> QED  BY <4>1, <4>2, <4>3 DEF FromDone
    <3>4. <<h, a, h>> \in LandMoves(r)
      BY <1>6, <1>7, <3>3 DEF LandMoves
    <3>5. Path(Nat, up', l, h, LandMoves(r))
      BY <1>6, <1>8, <3>2, <3>3, <3>4, PathAppend
    <3>6. LandMoves(r)' = LandMoves(r)
      BY <1>2 DEF LandMoves
    <3> QED  BY <3>1, <3>5, <3>6 DEF FromLink
  <2> QED  BY <1>2, <1>4, <1>14, <2>1, <2>2, <2>3, <2>4, <2>5, FromLinkMoves DEF cmdVars, FromCmdVars
<1> QED  BY <1>10, <1>11, <1>12, <1>13, <1>14 DEF BusyFor

-----------------------------------------------------------------------------
LEMMA UpTail ==
  ASSUME TypeInv, up # <<>>, up' = Tail(up)
  PROVE  /\ Len(up) \in Nat /\ Len(up') \in Nat /\ Len(up) = Len(up') + 1
         /\ \A k \in 1 .. Len(up') : k + 1 \in 1 .. Len(up) /\ up'[k] = up[k + 1] /\ (Answer(k)' <=> Answer(k + 1))
         /\ Head(up) = up[1] /\ up[1] \in LinkWord /\ 1 \in 1 .. Len(up)
<1>1. up \in Seq(LinkWord)
  BY DEF TypeInv, LinkTypes
<1>2. /\ Len(up') = Len(up) - 1 /\ Len(up) \in Nat \ {0} /\ \A k \in 1 .. Len(up) - 1 : up'[k] = up[k + 1]
      /\ Head(up) = up[1] /\ up[1] \in LinkWord
  BY <1>1, TakenOut
<1>3. \A k \in 1 .. Len(up') : k + 1 \in 1 .. Len(up) /\ up'[k] = up[k + 1]
  BY <1>2
<1> QED  BY <1>2, <1>3 DEF Answer

-----------------------------------------------------------------------------
LEMMA BusyLandCount ==
  ASSUME TypeInv, NEW t, t = mutex, mutex # None, NEW r, r = call[t].req, BusyFor(t, r), LandCount
  PROVE  BusyFor(t, r)' /\ call'[t].req = r
<1> PICK i : i = call[t].i
  OBVIOUS
<1> PICK n : n = up[1].count
  OBVIOUS
<1>1. /\ up # <<>> /\ up' = Tail(up) /\ "count" \in DOMAIN Head(up)
      /\ UNCHANGED <<before, user, issued, down, cmdVars, toVars, fromVars, doneVars, dmabuf, mem>>
  BY DEF LandCount
<1>2. /\ Len(up) \in Nat /\ Len(up') \in Nat /\ Len(up) = Len(up') + 1
      /\ \A k \in 1 .. Len(up') : k + 1 \in 1 .. Len(up) /\ up'[k] = up[k + 1] /\ (Answer(k)' <=> Answer(k + 1))
      /\ Head(up) = up[1] /\ up[1] \in LinkWord /\ 1 \in 1 .. Len(up)
  BY <1>1, UpTail
<1>3. Answer(1) /\ up[1].thread = t /\ pc[t] = "load" /\ t \in Threads /\ inst = "ready"
  <2>1. Answer(1)
    BY <1>1, <1>2 DEF Answer
  <2> QED  BY <1>2, <2>1, Busy
<1>4. n \in Nat
  BY <1>2, <1>3 DEF LinkWord, Answer
<1>5. /\ call' = [call EXCEPT ![t].seen = n] /\ UNCHANGED <<inst, wTotal, rTotal>>
      /\ pc' = [pc EXCEPT ![t] = IF n < Target(t) THEN "poll" ELSE "seen"]
  BY <1>2, <1>3 DEF LandCount
<1>6. /\ pc'[t] = (IF n < Target(t) THEN "poll" ELSE "seen")
      /\ call'[t].req = r /\ call'[t].i = i /\ call'[t].n = call[t].n /\ call'[t].done = call[t].done
      /\ call'[t].seen = n
  <2>1. pc \in [Threads -> {"idle", "lock", "chunk", "arguments", "command", "poll", "load", "seen"}]
        /\ call \in [Threads -> Local]
    BY DEF TypeInv, HostTypes
  <2>2. call'[t] = [call[t] EXCEPT !.seen = n] /\ call[t] \in Local
    BY <1>3, <1>5, <2>1
  <2> QED  BY <1>3, <1>5, <2>1, <2>2 DEF Local
<1>7. Given(t)' = Given(t) /\ Filling(t)' = Filling(t)
  BY <1>3, <1>6 DEF Given, Filling, InLoop
<1>8. Count(t)' = Count(t) /\ Done(t)' = Done(t) /\ Total(t)' = Total(t)
  BY <1>1, <1>5, <1>6, CountsSame
<1>9. Target(t)' = Target(t) /\ Target(t) = Total(t) + i
  BY <1>6, <1>8 DEF Target, Awaited
<1>10. CountInv(t)
  BY DEF BusyFor
<1>11. Count(t) \in Nat /\ Total(t) \in Nat /\ i \in Nat /\ n <= Count(t)
  <2>1. Count(t) \in Nat /\ Total(t) \in Nat /\ i \in Nat
    BY Busy
  <2> QED  BY <1>2, <1>3, <1>10, <2>1 DEF CountInv
<1>12. CountInv(t)'
  <2>1. \A k \in 1 .. Len(up') : Answer(k)' => up'[k].count <= Count(t)'
    BY <1>2, <1>8, <1>10 DEF CountInv
  <2>2. IF r.op = "to" THEN issued'.to = wTotal' + Given(t)' /\ rTotal' = issued'.from
         ELSE issued'.from = rTotal' + Given(t)' /\ wTotal' = issued'.to
    BY <1>1, <1>5, <1>7, <1>10 DEF CountInv
  <2>3. Done(t)' \in Nat /\ Done(t)' >= call'[t].i - 1
    BY <1>6, <1>8, <1>10 DEF CountInv
  <2>4. pc'[t] = "seen" => Target(t)' <= call'[t].seen /\ call'[t].seen <= Count(t)'
    BY <1>4, <1>6, <1>8, <1>9, <1>11
  <2> QED  BY <1>6, <2>1, <2>2, <2>3, <2>4 DEF CountInv
<1>13. PICK m \in Nat : /\ CommandInv(t, r, m)
                        /\ \/ r.op = "to" /\ ToInv(t, r, m)
                           \/ r.op = "from" /\ \E l \in Nat : FromInv(t, r, m, l)
  BY DEF BusyFor
<1>14. CommandInv(t, r, m)'
  <2>1. Done(t)' <= m
    BY <1>8, <1>13 DEF CommandInv
  <2> QED  BY <1>1, <1>6, <1>7, <1>13, <2>1, CommandKept DEF cmdVars
<1>15. ASSUME r.op = "to", ToInv(t, r, m) PROVE ToInv(t, r, m)'
  <2>1. FromQuiet'
    BY <1>1, <1>15, QuietFromSame DEF ToInv, doneVars, cmdVars
  <2>2. \A k \in 1 .. Len(up') : Answer(k)'
    BY <1>2, <1>15 DEF ToInv
  <2>3. ToBuffer(r, Filling(t))'
    BY <1>1, <1>7, <1>15, BufferSame DEF ToInv
  <2> QED  BY <1>1, <1>8, <1>15, <2>1, <2>2, <2>3, ToKept DEF cmdVars, ToCmdVars
<1>16. ASSUME r.op = "from", NEW l \in Nat, FromInv(t, r, m, l) PROVE FromInv(t, r, m, l)'
  <2>1. ToQuiet'
    BY <1>1, <1>16, QuietToSame DEF FromInv, doneVars, cmdVars
  <2>2. FromUser(t)'
    BY <1>1, <1>6, <1>16, UserSame DEF FromInv
  <2>3. FromBuffer(r, l)'
    BY <1>1, <1>16 DEF FromInv, FromBuffer
  <2> PICK h : h = Handed(r, m)
    OBVIOUS
  <2>4. PICK c \in Nat : <<l, up[1], c>> \in LandMoves(r) /\ Path(Nat, up', c, h, LandMoves(r))
    <3>1. Path(Nat, up, l, h, LandMoves(r))
      BY <1>16 DEF FromInv, FromLink
    <3>2. up \in Seq(LinkWord)
      BY DEF TypeInv, LinkTypes
    <3> QED  BY <1>1, <1>2, <3>1, <3>2, PathTail
  <2>5. c = l /\ E(r, n - rTotal) <= l
    BY <1>3, <2>4 DEF LandMoves, Answer
  <2>6. FromLink(r, l, Handed(r, m))'
    <3>1. Handed(r, m)' = h
      BY <1>1, HandedSame DEF cmdVars, FromCmdVars
    <3>2. LandMoves(r)' = LandMoves(r)
      BY <1>1, <1>5 DEF LandMoves
    <3> QED  BY <2>4, <2>5, <3>1, <3>2 DEF FromLink
  <2>7. FromLanded(t, l)'
    <3>1. i > 0 => E(r, i - 1) <= l
      BY <1>16 DEF FromInv, FromLanded
    <3>2. ASSUME ~(n < Target(t)) PROVE E(r, i) <= l
      <4>1. rTotal \in Nat /\ Total(t) = rTotal /\ r.len \in Nat
        BY <1>16, Busy
      <4> PICK d : d = n - rTotal
        OBVIOUS
      <4>2. d \in Nat /\ d = n - rTotal /\ i <= d
        <5>1. Target(t) = rTotal + i
          BY <1>9, <4>1
        <5> QED  BY ONLY <1>4, <1>11, <3>2, <4>1, <5>1, d = n - rTotal
      <4>3. E(r, i) <= E(r, d)
        BY <1>11, <4>1, <4>2, Later
      <4>4. E(r, i) \in Nat /\ E(r, d) \in Nat
        BY <1>11, <4>1, <4>2, EdgeFacts
      <4> QED  BY <2>5, <4>2, <4>3, <4>4
    <3> QED  BY <1>6, <3>1, <3>2 DEF FromLanded
  <2> QED  BY <1>1, <1>8, <1>16, <2>1, <2>2, <2>3, <2>6, <2>7, FromLinkMoves DEF cmdVars, FromCmdVars
<1> QED  BY <1>6, <1>12, <1>13, <1>14, <1>15, <1>16 DEF BusyFor

(* A cell lands in the place that its chunk has in the buffer.             *)
LEMMA CellLands ==
  ASSUME TypeInv, NEW r, NEW l \in Nat, FromBuffer(r, l), NEW p, p = Place(l),
         dmabuf' = [dmabuf EXCEPT ![p] = mem[Start(r) + l]], mem' = mem
  PROVE  FromBuffer(r, l + 1)'
<1> PICK n : n = l + 1
  OBVIOUS
<1> SUFFICES FromBuffer(r, n)'
  OBVIOUS
<1> SUFFICES \A x \in 0 .. n - 1 : x >= n - 2 * HalfCells => dmabuf'[Place(x)] = mem[Start(r) + x]
  BY DEF FromBuffer
<1> TAKE x \in 0 .. n - 1
<1> HAVE x >= n - 2 * HalfCells
<1>1. 2 * HalfCells \in Nat /\ x \in Nat /\ x <= l /\ x >= l + 1 - 2 * HalfCells
  BY Sizes
<1>2. dmabuf \in [BufCells -> Cells] /\ p \in BufCells /\ Place(x) \in BufCells
  BY <1>1, Places DEF TypeInv, MemoryTypes
<1>3. CASE x = l
  BY <1>2, <1>3
<1>4. CASE x < l
  <2>1. Place(x) # p
    <3>1. x - l < 2 * HalfCells /\ l - x < 2 * HalfCells /\ x \in Int /\ l \in Int /\ x # l
      BY ONLY <1>1, <1>4, l \in Nat
    <3> QED  BY ONLY <3>1, Places, p = Place(l)
  <2>2. dmabuf[Place(x)] = mem[Start(r) + x]
    BY <1>1, <1>4 DEF FromBuffer
  <2> QED  BY <1>2, <2>1, <2>2
<1> QED  BY <1>1, <1>3, <1>4

LEMMA BusyLandCell ==
  ASSUME TypeInv, NEW t, t = mutex, mutex # None, NEW r, r = call[t].req, BusyFor(t, r), LandCell
  PROVE  BusyFor(t, r)'
<1>1. /\ up # <<>> /\ up' = Tail(up) /\ "addr" \in DOMAIN Head(up)
      /\ dmabuf' = [dmabuf EXCEPT ![Head(up).addr] = Head(up).cell]
      /\ UNCHANGED <<hostVars, down, cmdVars, toVars, fromVars, doneVars, mem>>
  BY DEF LandCell
<1>2. /\ Len(up) \in Nat /\ Len(up') \in Nat /\ Len(up) = Len(up') + 1
      /\ \A k \in 1 .. Len(up') : k + 1 \in 1 .. Len(up) /\ up'[k] = up[k + 1] /\ (Answer(k)' <=> Answer(k + 1))
      /\ Head(up) = up[1] /\ up[1] \in LinkWord /\ 1 \in 1 .. Len(up)
  BY <1>1, UpTail
<1>3. ~Answer(1) /\ "addr" \in DOMAIN up[1]
  BY <1>1, <1>2 DEF Answer, LinkWord
<1>4. /\ call' = call /\ pc' = pc /\ user' = user /\ inst' = inst /\ wTotal' = wTotal /\ rTotal' = rTotal
      /\ issued' = issued /\ before' = before
  BY <1>1 DEF hostVars
<1>5. Given(t)' = Given(t) /\ Count(t)' = Count(t) /\ Done(t)' = Done(t)
  BY <1>1, <1>4, CountsSame DEF Given, InLoop
<1>6. CountInv(t)
  BY DEF BusyFor
<1>7. CountInv(t)'
  <2>1. \A k \in 1 .. Len(up') : Answer(k)' => up'[k].count <= Count(t)
    BY <1>2, <1>6 DEF CountInv
  <2> QED  BY <1>1, <1>4, <1>5, <1>6, <2>1, CountKept
<1>8. PICK m \in Nat : /\ CommandInv(t, r, m)
                       /\ \/ r.op = "to" /\ ToInv(t, r, m)
                          \/ r.op = "from" /\ \E l \in Nat : FromInv(t, r, m, l)
  BY DEF BusyFor
<1>9. CommandInv(t, r, m)'
  <2>1. Done(t)' <= m
    BY <1>5, <1>8 DEF CommandInv
  <2> QED  BY <1>1, <1>4, <1>5, <1>8, <2>1, CommandKept DEF cmdVars
<1>10. PICK l \in Nat : r.op = "from" /\ FromInv(t, r, m, l)
  BY <1>2, <1>3, <1>8 DEF ToInv
<1>11. FromInv(t, r, m, l + 1)'
  <2> PICK h : h = Handed(r, m)
    OBVIOUS
  <2>1. PICK c \in Nat : <<l, up[1], c>> \in LandMoves(r) /\ Path(Nat, up', c, h, LandMoves(r))
    <3>1. Path(Nat, up, l, h, LandMoves(r))
      BY <1>10 DEF FromInv, FromLink
    <3>2. up \in Seq(LinkWord)
      BY DEF TypeInv, LinkTypes
    <3> QED  BY <1>1, <1>2, <3>1, <3>2, PathTail
  <2>2. c = l + 1 /\ up[1].addr = Place(l) /\ up[1].cell = mem[Start(r) + l]
    BY <1>3, <2>1 DEF LandMoves
  <2>3. FromBuffer(r, l + 1)'
    <3>1. dmabuf' = [dmabuf EXCEPT ![Place(l)] = mem[Start(r) + l]] /\ mem' = mem
      BY <1>1, <1>2, <2>2
    <3> QED  BY <1>10, <3>1, CellLands DEF FromInv
  <2>4. FromLink(r, l + 1, Handed(r, m))'
    <3>1. Handed(r, m)' = h
      BY <1>1, HandedSame DEF cmdVars, FromCmdVars
    <3>2. LandMoves(r)' = LandMoves(r)
      BY <1>1, <1>4 DEF LandMoves
    <3> QED  BY <2>1, <2>2, <3>1, <3>2 DEF FromLink
  <2>5. ToQuiet'
    BY <1>1, <1>4, <1>10, QuietToSame DEF FromInv, doneVars, cmdVars
  <2>6. FromUser(t)'
    BY <1>1, <1>4, <1>10, UserSame DEF FromInv
  <2>7. FromLanded(t, l + 1)'
    <3>1. FromLanded(t, l)
      BY <1>10 DEF FromInv
    <3>2. call[t].i \in Nat /\ r.len \in Nat
      BY Holder
    <3>3. E(r, call[t].i) \in Nat /\ (call[t].i > 0 => E(r, call[t].i - 1) \in Nat)
      <4>1. \A j \in Nat : E(r, j) \in Nat
        BY <3>2, EdgeFacts
      <4> QED  BY <3>2, <4>1
    <3> QED  BY <1>4, <3>1, <3>3 DEF FromLanded
  <2> QED  BY <1>1, <1>5, <1>10, <2>3, <2>4, <2>5, <2>6, <2>7, FromLinkMoves DEF cmdVars, FromCmdVars
<1>12. l + 1 \in Nat
  OBVIOUS
<1> QED  BY <1>7, <1>8, <1>9, <1>10, <1>11, <1>12 DEF BusyFor

-----------------------------------------------------------------------------
(* Steps of the FPGA.                                                      *)
LEMMA FpgaStep ==
  ASSUME NEW t, NEW r, r = call[t].req, UNCHANGED <<hostVars, doneVars>>
  PROVE  /\ Given(t)' = Given(t) /\ Filling(t)' = Filling(t) /\ Count(t)' = Count(t) /\ Done(t)' = Done(t)
         /\ call' = call /\ pc' = pc /\ user' = user /\ inst' = inst /\ wTotal' = wTotal /\ rTotal' = rTotal
         /\ issued' = issued /\ before' = before
<1>1. /\ call' = call /\ pc' = pc /\ user' = user /\ inst' = inst /\ wTotal' = wTotal /\ rTotal' = rTotal
      /\ issued' = issued /\ before' = before
  BY DEF hostVars
<1>2. Given(t)' = Given(t)
  BY <1>1 DEF Given, InLoop
<1>3. Filling(t)' = Filling(t)
  BY <1>1, <1>2 DEF Filling
<1>4. Count(t)' = Count(t) /\ Done(t)' = Done(t)
  BY <1>1, CountsSame
<1> QED  BY <1>1, <1>2, <1>3, <1>4

LEMMA FpgaCounts ==
  ASSUME NEW t, NEW r, r = call[t].req, UNCHANGED <<hostVars, doneVars, up>>, CountInv(t)
  PROVE  CountInv(t)'
<1>1. /\ Given(t)' = Given(t) /\ call' = call /\ pc' = pc /\ inst' = inst /\ wTotal' = wTotal /\ rTotal' = rTotal
      /\ issued' = issued
  BY FpgaStep
<1>2. \A k \in 1 .. Len(up') : Answer(k)' => up'[k].count <= Count(t)
  BY DEF CountInv, Answer
<1> QED  BY <1>1, <1>2, CountKept

LEMMA FpgaToKept ==
  ASSUME NEW t, NEW r, r = call[t].req, NEW m,
         UNCHANGED <<hostVars, doneVars, ToCmdVars, FromCmdVars, toVars, fromVars, dmabuf, mem, up>>,
         ToInv(t, r, m)
  PROVE  ToInv(t, r, m)'
<1>1. /\ Filling(t)' = Filling(t) /\ Done(t)' = Done(t) /\ issued' = issued /\ before' = before
  BY FpgaStep
<1>2. FromQuiet'
  BY <1>1, QuietFromSame DEF ToInv, doneVars, FromCmdVars
<1>3. \A k \in 1 .. Len(up') : Answer(k)'
  BY DEF ToInv, Answer
<1>4. ToBuffer(r, Filling(t))'
  BY <1>1, BufferSame DEF ToInv
<1> QED  BY <1>1, <1>2, <1>3, <1>4, ToKept

LEMMA FpgaFromKept ==
  ASSUME NEW t, NEW r, r = call[t].req, NEW m, NEW l,
         UNCHANGED <<hostVars, doneVars, ToCmdVars, FromCmdVars, toVars, fromVars, dmabuf, mem, up>>,
         FromInv(t, r, m, l)
  PROVE  FromInv(t, r, m, l)'
<1>1. /\ Done(t)' = Done(t) /\ issued' = issued /\ call' = call /\ pc' = pc /\ user' = user /\ rTotal' = rTotal
  BY FpgaStep
<1>2. ToQuiet'
  BY <1>1, QuietToSame DEF FromInv, doneVars, ToCmdVars
<1>3. FromLanded(t, l)'
  BY <1>1, LandedSame DEF FromInv
<1>4. FromUser(t)'
  BY <1>1, UserSame DEF FromInv
<1> QED  BY <1>1, <1>2, <1>3, <1>4, FromKept

LEMMA BusyGetCmd ==
  ASSUME TypeInv, NEW t, t = mutex, mutex # None, NEW r, r = call[t].req, BusyFor(t, r), getCmd
  PROVE  BusyFor(t, r)'
<1> PICK w : w = Head(down)
  OBVIOUS
<1>1. /\ down # <<>> /\ down' = Tail(down)
      /\ UNCHANGED <<hostVars, doneVars, ToCmdVars, FromCmdVars, toVars, fromVars, dmabuf, mem, up>>
  BY DEF getCmd, ToCmdVars, FromCmdVars
<1>2. /\ down \in Seq(Words) /\ down' \in Seq(Words) /\ w \in Words
      /\ w[1] \in {"host", "fpga", "to", "from"} /\ w[2] \in Nat /\ hostMemTemp \in Nat /\ fpgaMemTemp \in Nat
      /\ dmaCmdQ \in Seq(Commands) /\ Len(dmaCmdQ) \in Nat
  <2>1. down \in Seq(Words) /\ hostMemTemp \in Nat /\ fpgaMemTemp \in Nat /\ dmaCmdQ \in Seq(Commands)
    BY DEF TypeInv, CommandTypes
  <2> QED  BY <1>1, <2>1, TakenOut, LenProperties DEF Words
<1>3. CountInv(t)'
  BY <1>1, FpgaCounts DEF BusyFor
<1>4. PICK m \in Nat : /\ CommandInv(t, r, m)
                       /\ \/ r.op = "to" /\ ToInv(t, r, m)
                          \/ r.op = "from" /\ \E l \in Nat : FromInv(t, r, m, l)
  BY DEF BusyFor
<1>5. ToInv(t, r, m) => ToInv(t, r, m)'
  BY <1>1, FpgaToKept
<1>6. \A l \in Nat : FromInv(t, r, m, l) => FromInv(t, r, m, l)'
  BY <1>1, FpgaFromKept
<1>7. CommandInv(t, r, m)'
  <2>1. PICK a \in Progress : OnTheWay(r, m, a) /\ a.n = Given(t) /\ ArgsOf(t, [host |-> a.host, fpga |-> a.fpga])
    BY <1>4 DEF CommandInv
  <2> PICK h : h = hostMemTemp
    OBVIOUS
  <2> PICK f : f = fpgaMemTemp
    OBVIOUS
  <2> PICK s : s = Len(dmaCmdQ)
    OBVIOUS
  <2> DEFINE M == WordMoves(r)
             p == [host |-> h, fpga |-> f, n |-> m + s]
  <2>2. p \in Progress /\ p.host = h /\ p.fpga = f /\ p.n = m + s
    BY <1>2 DEF Progress
  <2>3. Path(Progress, down, p, a, M)
    BY <2>1 DEF OnTheWay
  <2> HIDE DEF M, p
  <2>4. PICK b \in Progress : <<p, w, b>> \in M /\ Path(Progress, down', b, a, M)
    BY <1>1, <1>2, <2>3, PathTail
  <2>5. /\ w[1] = "host" => b = [p EXCEPT !.host = w[2]]
        /\ w[1] = "fpga" => b = [p EXCEPT !.fpga = w[2]]
        /\ w[1] \in {"to", "from"} =>
             /\ b = [p EXCEPT !.n = @ + 1]
             /\ [op |-> w[1], host |-> p.host, fpga |-> p.fpga, pages |-> w[2]] = CommandOf(r, p.n)
    BY <2>4 DEF M, WordMoves
  <2>6. b.n <= a.n
    BY <1>2, <2>4, WordsCount DEF M
  <2>7. /\ b = [host |-> hostMemTemp', fpga |-> fpgaMemTemp', n |-> m + Len(dmaCmdQ')] /\ Queued(r, m)'
    <3>1. Queued(r, m)
      BY <1>4 DEF CommandInv
    <3>2. CASE w[1] = "host"
      <4>1. hostMemTemp' = w[2] /\ fpgaMemTemp' = f /\ dmaCmdQ' = dmaCmdQ
        BY <3>2 DEF getCmd
      <4> QED  BY <2>5, <3>1, <3>2, <4>1 DEF p, Queued
    <3>3. CASE w[1] = "fpga"
      <4>1. fpgaMemTemp' = w[2] /\ hostMemTemp' = h /\ dmaCmdQ' = dmaCmdQ
        BY <3>3 DEF getCmd
      <4> QED  BY <2>5, <3>1, <3>3, <4>1 DEF p, Queued
    <3>4. CASE w[1] \in {"to", "from"}
      <4> PICK d : d = [op |-> w[1], host |-> h, fpga |-> f, pages |-> w[2]]
        OBVIOUS
      <4>1. fpgaMemTemp' = f /\ hostMemTemp' = h /\ dmaCmdQ' = Append(dmaCmdQ, d)
        BY <3>4 DEF getCmd
      <4>2. d \in Commands
        BY <1>2, <3>4 DEF Commands
      <4>3. /\ Len(dmaCmdQ') = s + 1 /\ s \in Nat /\ \A k \in 1 .. s : dmaCmdQ'[k] = dmaCmdQ[k]
            /\ dmaCmdQ'[s + 1] = d
        BY <1>2, <4>1, <4>2, PutIn
      <4>4. d = CommandOf(r, m + s)
        BY <2>2, <2>5, <3>4
      <4>5. Queued(r, m)'
        <5> SUFFICES \A k \in 1 .. s + 1 : dmaCmdQ'[k] = CommandOf(r, m + (k - 1))
          BY <4>3 DEF Queued
        <5> TAKE k \in 1 .. s + 1
        <5>1. CASE k \in 1 .. s
          BY <3>1, <4>3, <5>1 DEF Queued
        <5>2. CASE k = s + 1
          <6>1. m + (k - 1) = m + s
            BY <4>3, <5>2
          <6> QED  BY <4>3, <4>4, <5>2, <6>1
        <5> QED  BY <4>3, <5>1, <5>2
      <4>6. b = [host |-> h, fpga |-> f, n |-> m + Len(dmaCmdQ')]
        <5>1. b = [host |-> h, fpga |-> f, n |-> (m + s) + 1]
          BY <2>5, <3>4 DEF p
        <5>2. (m + s) + 1 = m + Len(dmaCmdQ')
          BY <4>3
        <5> QED  BY <5>1, <5>2
      <4> QED  BY <4>1, <4>5, <4>6
    <3> QED  BY <1>2, <3>2, <3>3, <3>4
  <2>8. OnTheWay(r, m, a)'
    BY <2>4, <2>7 DEF OnTheWay, M
  <2>9. m + Len(dmaCmdQ') <= Given(t)
    BY <2>1, <2>6, <2>7
  <2>10. Done(t) <= m
    BY <1>4 DEF CommandInv
  <2>11. Given(t)' = Given(t) /\ Done(t)' = Done(t) /\ call' = call /\ pc' = pc
    BY <1>1, FpgaStep
  <2>12. ArgsOf(t, [host |-> a.host, fpga |-> a.fpga])'
    BY <2>1, <2>11 DEF ArgsOf
  <2> QED  BY <2>1, <2>7, <2>8, <2>9, <2>10, <2>11, <2>12 DEF CommandInv
<1> QED  BY <1>3, <1>4, <1>5, <1>6, <1>7 DEF BusyFor

-----------------------------------------------------------------------------
(* Queues of the bursts of a copy, from burst b on.                        *)
LEMMA BurstsTail ==
  ASSUME NEW r, NEW q \in Seq(Bursts), q # <<>>, NEW b \in Int,
         \A k \in 1 .. Len(q) : q[k] = BurstOf(r, b + (k - 1)), NEW c, c = b + 1
  PROVE  /\ Head(q) = BurstOf(r, b) /\ Len(Tail(q)) = Len(q) - 1
         /\ \A k \in 1 .. Len(Tail(q)) : Tail(q)[k] = BurstOf(r, c + (k - 1))
<1>1. /\ Tail(q) \in Seq(Bursts) /\ Len(Tail(q)) = Len(q) - 1 /\ Len(q) \in Nat \ {0}
      /\ \A k \in 1 .. Len(q) - 1 : Tail(q)[k] = q[k + 1]
      /\ Head(q) = q[1]
  BY TakenOut
<1>2. Head(q) = BurstOf(r, b)
  <2>1. q[1] = BurstOf(r, b + (1 - 1))
    BY <1>1
  <2>2. b + (1 - 1) = b
    OBVIOUS
  <2> QED  BY <1>1, <2>1, <2>2
<1>3. ASSUME NEW k \in 1 .. Len(Tail(q)) PROVE Tail(q)[k] = BurstOf(r, c + (k - 1))
  <2>1. k + 1 \in 1 .. Len(q) /\ Tail(q)[k] = q[k + 1]
    BY <1>1
  <2>2. q[k + 1] = BurstOf(r, b + ((k + 1) - 1))
    BY <2>1
  <2>3. b + ((k + 1) - 1) = c + (k - 1)
    BY <1>1
  <2> QED  BY <2>1, <2>2, <2>3
<1> QED  BY <1>1, <1>2, <1>3

LEMMA BurstsPut ==
  ASSUME NEW r, NEW q \in Seq(Bursts), NEW b \in Int, NEW x \in Bursts, NEW m, m = b + Len(q),
         \A k \in 1 .. Len(q) : q[k] = BurstOf(r, b + (k - 1)), x = BurstOf(r, m)
  PROVE  /\ Len(Append(q, x)) = Len(q) + 1
         /\ \A k \in 1 .. Len(Append(q, x)) : Append(q, x)[k] = BurstOf(r, b + (k - 1))
<1>1. /\ Len(Append(q, x)) = Len(q) + 1 /\ Len(q) \in Nat
      /\ \A k \in 1 .. Len(q) : Append(q, x)[k] = q[k]
      /\ Append(q, x)[Len(q) + 1] = x
  BY PutIn
<1>2. ASSUME NEW k \in 1 .. Len(q) + 1 PROVE Append(q, x)[k] = BurstOf(r, b + (k - 1))
  <2>1. CASE k \in 1 .. Len(q)
    BY <1>1, <2>1
  <2>2. CASE k = Len(q) + 1
    <3>1. b + (k - 1) = m
      BY <1>1, <2>2
    <3> QED  BY <1>1, <2>2, <3>1
  <2> QED  BY <1>1, <2>1, <2>2
<1> QED  BY <1>1, <1>2

(* The next command of a copy.                                             *)
LEMMA CommandBurst ==
  ASSUME NEW r \in Calls, NEW m \in Nat, m < Passes(r), NEW d, d = CommandOf(r, m)
  PROVE  /\ [at |-> d.fpga * PageCells, left |-> d.pages * PageCells] = BurstOf(r, m)
         /\ HostCell(d.host) = Place(E(r, m)) /\ d.op = r.op
         /\ d.pages * PageCells = E(r, m + 1) - E(r, m) /\ E(r, m + 1) - E(r, m) \in Nat \ {0}
         /\ BurstOf(r, m) \in Bursts /\ Start(r) \in Nat
<1>1. r.len \in Nat /\ FirstPage(r.at) \in Nat
  BY ACall
<1>2. /\ Front(r, m) \in Nat /\ Front(r, m + 1) \in Nat /\ m + 1 \in Nat
      /\ PageCells \in Nat \ {0}
  BY <1>1, FrontNat, Sizes
<1>3. d.fpga = FirstPage(r.at) + Front(r, m) /\ d.pages = Front(r, m + 1) - Front(r, m) /\ d.op = r.op
      /\ d.host = HalfPage(m)
  BY DEF CommandOf
<1> PICK p : p = PageCells
  OBVIOUS
<1> PICK a : a = Front(r, m)
  OBVIOUS
<1> PICK b : b = Front(r, m + 1)
  OBVIOUS
<1> PICK f : f = FirstPage(r.at)
  OBVIOUS
<1>4. /\ p \in Nat \ {0} /\ a \in Nat /\ b \in Nat /\ f \in Nat /\ E(r, m) = a * p /\ E(r, m + 1) = b * p
      /\ Start(r) = f * p
  BY <1>1, <1>2 DEF E, Start
<1>5. (f + a) * p = f * p + a * p /\ (b - a) * p = b * p - a * p /\ f * p \in Nat
  BY <1>4
<1>6. E(r, m) \in Nat /\ E(r, m + 1) \in Nat /\ E(r, m + 1) - E(r, m) \in Nat \ {0}
  <2>1. E(r, m) \in Nat /\ E(r, m + 1) \in Nat /\ E(r, m) < E(r, m + 1)
    BY <1>1, EdgeFacts
  <2> QED  BY <2>1
<1>7. d.fpga * PageCells = Start(r) + E(r, m) /\ d.pages * PageCells = E(r, m + 1) - E(r, m)
  BY <1>3, <1>4, <1>5
<1>8. HostCell(HalfPage(m)) = Half(m)
  BY DEF Half, HostCell
<1>9. Place(E(r, m)) = Half(m)
  <2>1. E(r, m) \in E(r, m) .. E(r, m + 1) - 1
    BY <1>6
  <2> QED  BY <1>1, <2>1, InChunk
<1>10. Start(r) \in Nat /\ Start(r) + E(r, m) \in Nat
  BY <1>4, <1>5, <1>6
<1>11. BurstOf(r, m) \in Bursts
  BY <1>6, <1>10 DEF BurstOf, Bursts
<1> QED  BY <1>3, <1>6, <1>7, <1>8, <1>9, <1>10, <1>11 DEF BurstOf

LEMMA ProcCommand ==
  ASSUME TypeInv, NEW t, t = mutex, mutex # None, NEW r, r = call[t].req, NEW m \in Nat,
         CountInv(t), CommandInv(t, r, m), procCmd, NEW n, n = m + 1
  PROVE  CommandInv(t, r, n)' /\ m < Passes(r) /\ Head(dmaCmdQ) = CommandOf(r, m)
<1>1. /\ dmaCmdQ # <<>> /\ dmaCmdQ' = Tail(dmaCmdQ)
      /\ UNCHANGED <<hostVars, linkVars, hostMemTemp, fpgaMemTemp, doneVars>>
  BY DEF procCmd
<1>2. dmaCmdQ \in Seq(Commands)
  BY DEF TypeInv, CommandTypes
<1>3. /\ Len(dmaCmdQ') = Len(dmaCmdQ) - 1 /\ Len(dmaCmdQ) \in Nat \ {0}
      /\ \A k \in 1 .. Len(dmaCmdQ) - 1 : dmaCmdQ'[k] = dmaCmdQ[k + 1]
      /\ Head(dmaCmdQ) = dmaCmdQ[1]
  BY <1>1, <1>2, TakenOut
<1>4. Given(t)' = Given(t) /\ Done(t)' = Done(t) /\ call' = call /\ pc' = pc
  BY <1>1, FpgaStep
<1>5. Given(t) \in Nat /\ Given(t) <= Passes(r) /\ Done(t) \in Int
  BY Busy
<1>6. /\ m + Len(dmaCmdQ) <= Given(t) /\ Done(t) <= m /\ Queued(r, m)
  BY DEF CommandInv
<1>7. Head(dmaCmdQ) = CommandOf(r, m)
  <2>1. dmaCmdQ[1] = CommandOf(r, m + (1 - 1))
    BY <1>3, <1>6 DEF Queued
  <2>2. m + (1 - 1) = m
    OBVIOUS
  <2> QED  BY <1>3, <2>1, <2>2
<1>8. Queued(r, n)'
  <2> SUFFICES ASSUME NEW k \in 1 .. Len(dmaCmdQ') PROVE dmaCmdQ'[k] = CommandOf(r, n + (k - 1))
    BY DEF Queued
  <2>1. k + 1 \in 1 .. Len(dmaCmdQ) /\ dmaCmdQ'[k] = dmaCmdQ[k + 1]
    BY <1>3
  <2>2. dmaCmdQ[k + 1] = CommandOf(r, m + ((k + 1) - 1))
    BY <1>6, <2>1 DEF Queued
  <2>3. m + ((k + 1) - 1) = n + (k - 1)
    BY <1>3
  <2> QED  BY <2>1, <2>2, <2>3
<1>9. PICK a \in Progress : OnTheWay(r, m, a) /\ a.n = Given(t) /\ ArgsOf(t, [host |-> a.host, fpga |-> a.fpga])
  BY DEF CommandInv
<1>10. n + Len(dmaCmdQ') = m + Len(dmaCmdQ)
  BY <1>3
<1>11. OnTheWay(r, n, a)'
  BY <1>1, <1>9, <1>10 DEF OnTheWay, linkVars
<1>12. ArgsOf(t, [host |-> a.host, fpga |-> a.fpga])'
  BY <1>4, <1>9 DEF ArgsOf
<1>13. n \in Nat /\ n + Len(dmaCmdQ') <= Given(t) /\ Done(t) <= n
  BY <1>3, <1>5, <1>6
<1>14. m < Passes(r)
  <2>1. Passes(r) \in Nat
    BY Holder
  <2> QED  BY <1>3, <1>5, <1>6, <2>1
<1> QED  BY <1>4, <1>7, <1>8, <1>9, <1>11, <1>12, <1>13, <1>14 DEF CommandInv

LEMMA BusyProcCmd ==
  ASSUME TypeInv, NEW t, t = mutex, mutex # None, NEW r, r = call[t].req, BusyFor(t, r), procCmd
  PROVE  BusyFor(t, r)'
<1>1. PICK m \in Nat : /\ CommandInv(t, r, m)
                       /\ \/ r.op = "to" /\ ToInv(t, r, m)
                          \/ r.op = "from" /\ \E l \in Nat : FromInv(t, r, m, l)
  BY DEF BusyFor
<1>2. CountInv(t)
  BY DEF BusyFor
<1>3. /\ memReadLeft = 0 /\ memWriteLeft = 0
      /\ UNCHANGED <<hostVars, linkVars, freeTags, dmaReadTagOrderQ, reads, vDmaReadWords, dramWrite,
                     dramRead, dramReadWordQ, pcieWriteReqQ, doneVars, dmabuf, mem>>
  BY DEF procCmd
<1>4. /\ Given(t)' = Given(t) /\ Filling(t)' = Filling(t) /\ Done(t)' = Done(t) /\ call' = call /\ pc' = pc
      /\ user' = user /\ issued' = issued /\ before' = before /\ rTotal' = rTotal
  BY <1>3, FpgaStep
<1>5. CountInv(t)'
  BY <1>2, <1>3, FpgaCounts DEF linkVars
<1> PICK n : n = m + 1
  OBVIOUS
<1> PICK d : d = Head(dmaCmdQ)
  OBVIOUS
<1> PICK b : b = BurstOf(r, m)
  OBVIOUS
<1>6. n \in Nat /\ CommandInv(t, r, n)' /\ m < Passes(r) /\ d = CommandOf(r, m)
  BY <1>1, <1>2, ProcCommand
<1>7. r \in Calls /\ r.op \in {"to", "from"} /\ r.len \in Nat
  BY Holder
<1>8. /\ [at |-> d.fpga * PageCells, left |-> d.pages * PageCells] = b
      /\ HostCell(d.host) = Place(E(r, m)) /\ d.op = r.op
      /\ d.pages * PageCells = E(r, n) - E(r, m) /\ E(r, n) - E(r, m) \in Nat \ {0}
      /\ b \in Bursts
  BY <1>6, <1>7, CommandBurst
<1>9. b.left = E(r, n) - E(r, m)
  BY DEF BurstOf
<1>10. hostMemOff' = Place(E(r, m))
  BY <1>8 DEF procCmd
<1>11. E(r, m) \in Nat /\ E(r, n) \in Nat
  BY <1>7, EdgeFacts
<1>12. dmaReadWordCntQ \in Seq(Bursts) /\ dramReadWordCntQ \in Seq(Bursts)
  BY DEF TypeInv, BurstTypes
<1>13. ASSUME r.op = "to", ToInv(t, r, m) PROVE ToInv(t, r, n)'
  <2>1. /\ memReadLeft' = b.left /\ dmaReadWordCntQ' = Append(dmaReadWordCntQ, b)
        /\ memWriteLeft' = memWriteLeft /\ dramReadWordCntQ' = dramReadWordCntQ
    BY <1>8, <1>13 DEF procCmd
  <2>2. Asked(r, m) = E(r, m) /\ Asked(r, n)' = E(r, m)
    BY <1>3, <1>9, <1>11, <2>1 DEF Asked
  <2>3. Arrived(r, n)' = Arrived(r, m) /\ Written(r, n)' = Written(r, m) /\ Waiting' = Waiting
    BY <1>3, <2>2 DEF Arrived, Written, Waiting
  <2>4. Begun(m) \in Int /\ m = Begun(m) + Len(dmaReadWordCntQ) /\ Len(dmaReadWordCntQ) \in Nat
    BY <1>12, LenProperties DEF Begun
  <2>5. /\ \A k \in 1 .. Len(dmaReadWordCntQ) : dmaReadWordCntQ[k] = BurstOf(r, Begun(m) + (k - 1))
        /\ Done(t) = Begun(m) - (IF dramWrite.left > 0 THEN 1 ELSE 0)
        /\ Written(r, m) = E(r, Begun(m)) - dramWrite.left
        /\ dramWrite.left > 0 => dramWrite.left <= E(r, Done(t) + 1) - E(r, Done(t)) /\ dramWrite.at = Start(r) + Written(r, m)
    BY <1>13 DEF ToInv, ToBursts
  <2>6. /\ Len(dmaReadWordCntQ') = Len(dmaReadWordCntQ) + 1
        /\ \A k \in 1 .. Len(dmaReadWordCntQ') : dmaReadWordCntQ'[k] = BurstOf(r, Begun(m) + (k - 1))
    BY <1>8, <1>12, <2>1, <2>4, <2>5, BurstsPut
  <2>7. Begun(n)' = Begun(m)
    BY <2>4, <2>6 DEF Begun
  <2>8. ToBursts(r, Begun(n), Done(t), Written(r, n))'
    BY <1>3, <1>4, <2>3, <2>5, <2>6, <2>7 DEF ToBursts
  <2>9. ToAsks(r, n, Asked(r, n))'
    <3>1. n - 1 = m /\ n > 0
      OBVIOUS
    <3> QED  BY <1>9, <1>10, <1>11, <2>1, <2>2, <3>1 DEF ToAsks
  <2>10. FromQuiet'
    BY <1>3, <1>4, <1>13, <2>1 DEF ToInv, FromQuiet, doneVars
  <2>11. \A k \in 1 .. Len(up') : Answer(k)'
    BY <1>3, <1>13 DEF ToInv, Answer, linkVars
  <2>12. ToTags(r, Written(r, n))' /\ ToReads(r, Arrived(r, n))'
    BY <1>3, <1>13, <2>3, ZenonT(80) DEF ToInv, ToTags, ToReads
  <2>13. ToBuffer(r, Filling(t))'
    BY <1>3, <1>4, <1>13, BufferSame DEF ToInv
  <2>14. ToMemory(r, Written(r, n))'
    BY <1>3, <1>4, <1>13, <2>3 DEF ToInv, ToMemory
  <2> QED  BY <2>8, <2>9, <2>10, <2>11, <2>12, <2>13, <2>14 DEF ToInv
<1>14. ASSUME r.op = "from", NEW l \in Nat, FromInv(t, r, m, l) PROVE FromInv(t, r, n, l)'
  <2>1. /\ memWriteLeft' = b.left /\ dramReadWordCntQ' = Append(dramReadWordCntQ, b)
        /\ memReadLeft' = memReadLeft /\ dmaReadWordCntQ' = dmaReadWordCntQ
    BY <1>8, <1>14 DEF procCmd
  <2>2. Wanted(r, m) = E(r, m) /\ Wanted(r, n)' = E(r, m)
    BY <1>3, <1>9, <1>11, <2>1 DEF Wanted
  <2>3. Handed(r, n)' = Handed(r, m)
    BY <1>3, <2>2 DEF Handed
  <2>4. Fetched(r, n)' = Fetched(r, m)
    BY <1>3, <2>3 DEF Fetched
  <2>5. Fetching(m) \in Int /\ m = Fetching(m) + Len(dramReadWordCntQ) /\ Len(dramReadWordCntQ) \in Nat
    BY <1>12, LenProperties DEF Fetching
  <2>6. FromBursts(r, Fetching(m), Fetched(r, m))
    BY <1>14 DEF FromInv
  <2>7. /\ Len(dramReadWordCntQ') = Len(dramReadWordCntQ) + 1
        /\ \A k \in 1 .. Len(dramReadWordCntQ') : dramReadWordCntQ'[k] = BurstOf(r, Fetching(m) + (k - 1))
    <3>1. \A k \in 1 .. Len(dramReadWordCntQ) : dramReadWordCntQ[k] = BurstOf(r, Fetching(m) + (k - 1))
      BY <2>6 DEF FromBursts
    <3> QED  BY <1>8, <1>12, <2>1, <2>5, <3>1, BurstsPut
  <2>8. Fetching(n)' = Fetching(m)
    BY <2>5, <2>7 DEF Fetching
  <2>9. FromBursts(r, Fetching(n), Fetched(r, n))'
    BY <1>3, <2>4, <2>6, <2>7, <2>8 DEF FromBursts
  <2>10. FromAsks(r, n, Wanted(r, n))'
    <3>1. n - 1 = m /\ n > 0
      OBVIOUS
    <3> QED  BY <1>9, <1>10, <1>11, <2>1, <2>2, <3>1 DEF FromAsks
  <2>11. ToQuiet'
    BY <1>3, <1>4, <1>14, <2>1 DEF FromInv, ToQuiet, doneVars
  <2>12. FromWords(r, Handed(r, n))' /\ FromRequests(r, Handed(r, n))'
    BY <1>3, <1>14, <2>3 DEF FromInv, FromWords, FromRequests
  <2>13. FromDone(r, Handed(r, n), Done(t))'
    BY <1>4, <1>14, <2>3 DEF FromInv, FromDone
  <2>14. FromLink(r, l, Handed(r, n))'
    BY <1>3, <1>4, <1>14, <2>3 DEF FromInv, FromLink, LandMoves, linkVars
  <2>15. FromLanded(t, l)'
    BY <1>4, <1>14, LandedSame DEF FromInv
  <2>16. FromBuffer(r, l)'
    BY <1>3, <1>14 DEF FromInv, FromBuffer
  <2>17. FromUser(t)'
    BY <1>3, <1>4, <1>14, UserSame DEF FromInv
  <2> QED  BY <2>9, <2>10, <2>11, <2>12, <2>13, <2>14, <2>15, <2>16, <2>17 DEF FromInv
<1> QED  BY <1>1, <1>5, <1>6, <1>13, <1>14 DEF BusyFor

-----------------------------------------------------------------------------
(* Steps of the FPGA that only a copy to it makes.                         *)
LEMMA ToMoves ==
  ASSUME TypeInv, NEW t, t = mutex, mutex # None, NEW r, r = call[t].req, r.op = "to",
         NEW m \in Nat, CountInv(t), CommandInv(t, r, m), ToInv(t, r, m),
         UNCHANGED <<hostVars, linkVars, hostMemTemp, fpgaMemTemp, dmaCmdQ, memWriteLeft,
                     fromVars, doneVars, dmabuf, mem>>,
         ToAsks(r, m, Asked(r, m))', ToBursts(r, Begun(m), Done(t), Written(r, m))',
         ToTags(r, Written(r, m))', ToReads(r, Arrived(r, m))', Written(r, m)' = Written(r, m)
  PROVE  BusyFor(t, r)'
<1>1. /\ Given(t)' = Given(t) /\ Filling(t)' = Filling(t) /\ Done(t)' = Done(t) /\ call' = call /\ pc' = pc
      /\ issued' = issued /\ before' = before
  BY FpgaStep
<1>2. CountInv(t)'
  BY FpgaCounts DEF linkVars
<1>3. CommandInv(t, r, m)'
  BY <1>1, CommandKept DEF linkVars, CommandInv
<1>4. FromQuiet'
  BY <1>1, QuietFromSame DEF ToInv, doneVars
<1>5. \A k \in 1 .. Len(up') : Answer(k)'
  BY DEF ToInv, Answer, linkVars
<1>6. ToBuffer(r, Filling(t))'
  BY <1>1, BufferSame DEF ToInv
<1>7. ToMemory(r, Written(r, m))'
  BY <1>1 DEF ToInv, ToMemory
<1>8. ToInv(t, r, m)'
  BY <1>4, <1>5, <1>6, <1>7 DEF ToInv
<1> QED  BY <1>1, <1>2, <1>3, <1>8 DEF BusyFor

(* The half that an address of DMA buffer is in.                           *)
LEMMA PlaceOn ==
  ASSUME NEW r, r.len \in Nat, NEW j \in Nat, j < Passes(r), NEW x \in Nat,
         E(r, j) <= x, NEW y, y = x + 1, y < E(r, j + 1)
  PROVE  Place(y) = Place(x) + 1
<1>1. E(r, j) \in Nat /\ E(r, j + 1) \in Nat
  BY EdgeFacts
<1>2. x \in E(r, j) .. E(r, j + 1) - 1 /\ y \in E(r, j) .. E(r, j + 1) - 1
  BY <1>1
<1>3. Place(x) = Half(j) + (x - E(r, j)) /\ Place(y) = Half(j) + (y - E(r, j)) /\ Half(j) \in Nat
  BY <1>2, InChunk, Halves
<1> QED  BY <1>1, <1>3

LEMMA BusySendDMARead ==
  ASSUME TypeInv, NEW t, t = mutex, mutex # None, NEW r, r = call[t].req, BusyFor(t, r), sendDMARead
  PROVE  BusyFor(t, r)'
<1>1. CountInv(t)
  BY DEF BusyFor
<1>2. /\ memReadLeft > 0 /\ freeTags # {}
      /\ memReadLeft' = memReadLeft - 1 /\ hostMemOff' = hostMemOff + 1
      /\ UNCHANGED <<hostVars, linkVars, hostMemTemp, fpgaMemTemp, dmaCmdQ, memWriteLeft,
                     vDmaReadWords, dmaReadWordCntQ, dramWrite, fromVars, doneVars, dmabuf, mem>>
  BY DEF sendDMARead
<1>3. PICK m \in Nat : CommandInv(t, r, m) /\ r.op = "to" /\ ToInv(t, r, m)
  <2>1. PICK m \in Nat : /\ CommandInv(t, r, m)
                         /\ \/ r.op = "to" /\ ToInv(t, r, m)
                            \/ r.op = "from" /\ \E l \in Nat : FromInv(t, r, m, l)
    BY DEF BusyFor
  <2>2. ASSUME NEW l \in Nat, FromInv(t, r, m, l) PROVE FALSE
    BY <1>2, <2>2 DEF FromInv, ToQuiet
  <2> QED  BY <2>1, <2>2
<1>4. ToSteps(t, r, m) /\ ToSizes /\ ToCells(r, m) /\ ToRoom(t, r, m)
  BY <1>1, <1>3, ToNumbers
<1>5. PICK g : /\ g \in ReadTags
               /\ dmaReadTagOrderQ' = Append(dmaReadTagOrderQ, g)
               /\ reads' = Append(reads, [tag |-> g, addr |-> hostMemOff, cell |-> None])
  <2>1. freeTags \subseteq ReadTags
    BY DEF TypeInv, ReadTypes
  <2> QED  BY <1>2, <2>1 DEF sendDMARead
<1> PICK q : q = [tag |-> g, addr |-> hostMemOff, cell |-> None]
  OBVIOUS
<1>6. dmaReadTagOrderQ \in Seq(ReadTags) /\ reads \in Seq(Request)
  BY DEF TypeInv, ReadTypes
<1>7. /\ Len(dmaReadTagOrderQ') = Len(dmaReadTagOrderQ) + 1
      /\ \A k \in 1 .. Len(dmaReadTagOrderQ) : dmaReadTagOrderQ'[k] = dmaReadTagOrderQ[k]
      /\ dmaReadTagOrderQ'[Len(dmaReadTagOrderQ) + 1] = g
  BY <1>5, <1>6, PutIn
<1>8. hostMemOff = Place(Asked(r, m)) /\ m > 0 /\ memReadLeft <= E(r, m) - E(r, m - 1)
  BY <1>2, <1>3 DEF ToInv, ToAsks
<1>9. q \in Request
  <2>1. Asked(r, m) \in Int
    BY <1>4 DEF ToCells
  <2>2. hostMemOff \in BufCells
    BY <1>8, <2>1, Places
  <2> QED  BY <1>5, <2>2 DEF Request
<1>10. /\ Len(reads') = Len(reads) + 1
       /\ \A k \in 1 .. Len(reads) : reads'[k] = reads[k]
       /\ reads'[Len(reads) + 1] = q
  BY <1>5, <1>6, <1>9, PutIn
<1> PICK x : x = Asked(r, m)
  OBVIOUS
<1> PICK y : y = x + 1
  OBVIOUS
<1> PICK w : w = Waiting
  OBVIOUS
<1> PICK z : z = Arrived(r, m)
  OBVIOUS
<1>11. /\ x \in Nat /\ w \in Nat /\ z \in Nat /\ y \in Nat /\ E(r, m) \in Nat
       /\ Len(reads) \in Nat /\ Len(dmaReadTagOrderQ) \in Nat /\ memReadLeft \in Nat
  <2>1. x \in Nat /\ z \in Nat /\ E(r, m) \in Nat
    BY <1>4 DEF ToCells
  <2>2. w \in Nat /\ Len(reads) \in Nat /\ Len(dmaReadTagOrderQ) \in Nat /\ memReadLeft \in Nat
    BY <1>4 DEF ToSizes
  <2>3. y \in Nat
    BY <2>1
  <2> QED  BY <2>1, <2>2, <2>3
<1>19. z = x - Len(reads) /\ x = E(r, m) - memReadLeft
  BY <1>4 DEF ToCells
<1>20. w = Len(dmaReadTagOrderQ) - Len(reads)
  BY DEF Waiting
<1>21. Written(r, m) = x - Len(dmaReadTagOrderQ)
  BY <1>4 DEF ToCells
<1>22. Len(reads') = Len(reads) + 1 /\ Len(dmaReadTagOrderQ') = Len(dmaReadTagOrderQ) + 1
  BY <1>7, <1>10
<1>12. Asked(r, m)' = y /\ Waiting' = w
  <2>1. Asked(r, m)' = E(r, m) - memReadLeft' /\ Waiting' = Len(dmaReadTagOrderQ') - Len(reads')
    BY DEF Asked, Waiting
  <2>2. memReadLeft' = memReadLeft - 1
    BY <1>2
  <2> QED  BY <1>11, <1>19, <1>20, <1>22, <2>1, <2>2, SMTT(40)
<1>13. Arrived(r, m)' = z
  <2>1. Arrived(r, m)' = Asked(r, m)' - Len(reads')
    BY DEF Arrived
  <2>2. Asked(r, m)' = x + 1 /\ Len(reads') = Len(reads) + 1
    BY <1>12, <1>22
  <2>3. (x + 1) - (Len(reads) + 1) = x - Len(reads)
    BY <1>11
  <2> QED  BY <1>19, <2>1, <2>2, <2>3
<1>14. Written(r, m)' = Written(r, m)
  <2>1. Written(r, m)' = Asked(r, m)' - Len(dmaReadTagOrderQ')
    BY DEF Written
  <2> QED  BY <1>11, <1>12, <1>21, <1>22, <2>1
<1>15. ToAsks(r, m, Asked(r, m))'
  <2> SUFFICES ASSUME memReadLeft' > 0
               PROVE  m > 0 /\ memReadLeft' <= E(r, m) - E(r, m - 1) /\ hostMemOff' = Place(y)
    BY <1>12 DEF ToAsks
  <2> PICK j : j = m - 1
    OBVIOUS
  <2>1. j \in Nat /\ m = j + 1
    BY <1>8
  <2>2. r.len \in Nat /\ Passes(r) \in Nat /\ Given(t) <= Passes(r)
    BY Busy, Holder
  <2>3. j < Passes(r)
    BY <1>4, <2>1, <2>2 DEF ToSteps
  <2>4. E(r, j) \in Nat
    BY <2>1, <2>2, EdgeFacts
  <2>5. memReadLeft <= E(r, m) - E(r, j)
    BY <1>8
  <2>9. memReadLeft' = memReadLeft - 1 /\ memReadLeft' > 0 /\ memReadLeft > 0
    BY <1>2
  <2>6. E(r, j) <= x /\ y < E(r, m)
    <3> PICK a : a = E(r, j)
      OBVIOUS
    <3> PICK e : e = E(r, m)
      OBVIOUS
    <3> PICK l : l = memReadLeft
      OBVIOUS
    <3>1. a \in Nat /\ e \in Nat /\ l \in Nat /\ x \in Nat
      BY <1>11, <2>4
    <3>2. x = e - l /\ l <= e - a
      BY <1>19, <2>5
    <3>3. l > 1
      <4>1. l - 1 > 0
        BY <2>9
      <4> QED  BY ONLY <3>1, <4>1
    <3>4. a <= x /\ y < e
      BY ONLY <3>1, <3>2, <3>3, y = x + 1
    <3> QED  BY <3>4
  <2>7. Place(y) = Place(x) + 1
    <3>1. y < E(r, j + 1)
      BY <2>1, <2>6
    <3>2. x \in Nat /\ E(r, j) <= x
      BY <1>11, <2>6
    <3> QED  BY ONLY <2>1, <2>2, <2>3, <3>1, <3>2, y = x + 1, PlaceOn
  <2>8. memReadLeft' <= E(r, m) - E(r, j)
    BY <1>11, <2>4, <2>5, <2>9, SMTT(40)
  <2> QED  BY <1>2, <1>8, <2>7, <2>8
<1>16. ToBursts(r, Begun(m), Done(t), Written(r, m))'
  <2>1. Begun(m)' = Begun(m) /\ Done(t)' = Done(t)
    BY <1>2, FpgaStep DEF Begun
  <2> QED  BY <1>2, <1>3, <1>14, <2>1 DEF ToInv, ToBursts
<1>17. ToTags(r, Written(r, m))'
  <2> PICK v : v = Written(r, m)
    OBVIOUS
  <2>1. ToTags(r, v)
    BY <1>3 DEF ToInv
  <2>2. \A k \in 1 .. w : k \in 1 .. Len(dmaReadTagOrderQ) /\ dmaReadTagOrderQ'[k] = dmaReadTagOrderQ[k]
    <3>1. w <= Len(dmaReadTagOrderQ)
      BY <1>11, <1>20
    <3> QED  BY <1>7, <1>11, <3>1
  <2>4. /\ \A k \in 1 .. w : vDmaReadWords[dmaReadTagOrderQ[k]] = <<Cell(r, v + (k - 1))>>
        /\ \A k, l \in 1 .. w : dmaReadTagOrderQ[k] = dmaReadTagOrderQ[l] => k = l
        /\ \A h \in ReadTags : vDmaReadWords[h] # <<>> => \E k \in 1 .. w : dmaReadTagOrderQ[k] = h
    BY <2>1 DEF ToTags
  <2>5. \A k \in 1 .. w : vDmaReadWords[dmaReadTagOrderQ'[k]] = <<Cell(r, v + (k - 1))>>
    BY <2>2, <2>4, ZenonT(80)
  <2>6. \A k, l \in 1 .. w : dmaReadTagOrderQ'[k] = dmaReadTagOrderQ'[l] => k = l
    BY <2>2, <2>4
  <2>7. \A h \in ReadTags : vDmaReadWords[h] # <<>> => \E k \in 1 .. w : dmaReadTagOrderQ'[k] = h
    BY <2>2, <2>4
  <2>3. /\ \A k \in 1 .. w : vDmaReadWords[dmaReadTagOrderQ'[k]] = <<Cell(r, v + (k - 1))>>
        /\ \A k, l \in 1 .. w : dmaReadTagOrderQ'[k] = dmaReadTagOrderQ'[l] => k = l
        /\ \A h \in ReadTags : vDmaReadWords[h] # <<>> => \E k \in 1 .. w : dmaReadTagOrderQ'[k] = h
    BY <2>5, <2>6, <2>7
  <2> QED  BY <1>2, <1>11, <1>12, <1>14, <2>3, SMTT(40) DEF ToTags
<1>18. ToReads(r, Arrived(r, m))'
  <2> SUFFICES ASSUME NEW k \in 1 .. Len(reads) + 1
               PROVE  /\ reads'[k].tag = dmaReadTagOrderQ'[w + k]
                      /\ reads'[k].addr = Place(z + (k - 1))
                      /\ reads'[k].cell \in {None, Cell(r, z + (k - 1))}
    BY <1>10, <1>12, <1>13 DEF ToReads
  <2>1. CASE k \in 1 .. Len(reads)
    <3>1. w + k \in 1 .. Len(dmaReadTagOrderQ)
      BY <1>11, <1>20, <2>1
    <3>2. /\ reads[k].tag = dmaReadTagOrderQ[w + k]
          /\ reads[k].addr = Place(z + (k - 1))
          /\ reads[k].cell \in {None, Cell(r, z + (k - 1))}
      BY <1>3, <2>1 DEF ToInv, ToReads
    <3> QED  BY <1>7, <1>10, <2>1, <3>1, <3>2
  <2>2. CASE k = Len(reads) + 1
    <3>1. w + k = Len(dmaReadTagOrderQ) + 1 /\ z + (k - 1) = x
      BY <1>11, <1>19, <1>20, <2>2
    <3>2. reads'[k] = q /\ q.tag = g /\ q.addr = hostMemOff /\ q.cell = None
      BY <1>10, <2>2
    <3>3. dmaReadTagOrderQ'[w + k] = g
      BY <1>7, <3>1
    <3>4. q.addr = Place(z + (k - 1))
      BY <1>8, <3>1, <3>2
    <3> QED  BY <3>2, <3>3, <3>4
  <2> QED  BY <1>11, <2>1, <2>2
<1> QED  BY <1>1, <1>2, <1>3, <1>14, <1>15, <1>16, <1>17, <1>18, ToMoves

LEMMA BusyMemoryRead ==
  ASSUME TypeInv, NEW t, t = mutex, mutex # None, NEW r, r = call[t].req, BusyFor(t, r),
         NEW k \in DOMAIN reads, MemoryRead(k)
  PROVE  BusyFor(t, r)'
<1>1. CountInv(t)
  BY DEF BusyFor
<1>2. /\ reads[k].cell = None /\ reads' = [reads EXCEPT ![k].cell = dmabuf[reads[k].addr]]
      /\ UNCHANGED <<hostVars, linkVars, cmdVars, freeTags, dmaReadTagOrderQ, vDmaReadWords,
                     dmaReadWordCntQ, dramWrite, fromVars, doneVars, dmabuf, mem>>
  BY DEF MemoryRead
<1>3. reads \in Seq(Request) /\ DOMAIN reads = 1 .. Len(reads) /\ Len(reads) \in Nat
  <2>1. reads \in Seq(Request)
    BY DEF TypeInv, ReadTypes
  <2> QED  BY <2>1, LenProperties
<1>4. PICK m \in Nat : CommandInv(t, r, m) /\ r.op = "to" /\ ToInv(t, r, m)
  <2>1. PICK m \in Nat : /\ CommandInv(t, r, m)
                         /\ \/ r.op = "to" /\ ToInv(t, r, m)
                            \/ r.op = "from" /\ \E l \in Nat : FromInv(t, r, m, l)
    BY DEF BusyFor
  <2>2. ASSUME NEW l \in Nat, FromInv(t, r, m, l) PROVE FALSE
    <3>1. reads = <<>>
      BY <2>2 DEF FromInv, ToQuiet
    <3> QED  BY <1>3, <3>1
  <2> QED  BY <2>1, <2>2
<1>5. ToSteps(t, r, m) /\ ToSizes /\ ToCells(r, m) /\ ToRoom(t, r, m)
  BY <1>1, <1>4, ToNumbers
<1>6. Len(reads') = Len(reads)
  BY <1>2, <1>3, ExceptSeq
<1>7. /\ Asked(r, m)' = Asked(r, m) /\ Arrived(r, m)' = Arrived(r, m) /\ Written(r, m)' = Written(r, m)
      /\ Waiting' = Waiting /\ Begun(m)' = Begun(m) /\ Done(t)' = Done(t)
  <2>1. Asked(r, m)' = Asked(r, m) /\ Waiting' = Waiting /\ Begun(m)' = Begun(m)
    BY <1>2, <1>6 DEF Asked, Waiting, Begun, cmdVars
  <2>2. Arrived(r, m)' = Arrived(r, m) /\ Written(r, m)' = Written(r, m)
    BY <1>2, <1>6, <2>1 DEF Arrived, Written
  <2> QED  BY <1>2, <2>1, <2>2, FpgaStep
<1>8. ToAsks(r, m, Asked(r, m))'
  BY <1>2, <1>4, <1>7 DEF ToInv, ToAsks, cmdVars
<1>9. ToBursts(r, Begun(m), Done(t), Written(r, m))'
  BY <1>2, <1>4, <1>7 DEF ToInv, ToBursts
<1>10. ToTags(r, Written(r, m))'
  BY <1>2, <1>4, <1>7 DEF ToInv, ToTags
<1> PICK y : y = Arrived(r, m)
  OBVIOUS
<1>11. dmabuf[reads[k].addr] = Cell(r, y + (k - 1))
  <2> PICK x : x = y + (k - 1)
    OBVIOUS
  <2>1. reads[k].addr = Place(x)
    BY <1>3, <1>4 DEF ToInv, ToReads
  <2>2. ToBuffer(r, Filling(t))
    BY <1>4 DEF ToInv
  <2>3. k \in 1 .. Len(reads) /\ y = Asked(r, m) - Len(reads) /\ y = Written(r, m) + Waiting
    BY <1>3, <1>5 DEF ToCells
  <2>4. /\ Asked(r, m) \in Nat /\ Written(r, m) \in Nat /\ Waiting \in Nat /\ memReadLeft \in Nat
        /\ Asked(r, m) = E(r, m) - memReadLeft /\ E(r, m) \in Nat
    BY <1>5 DEF ToCells, ToSizes
  <2>5. E(r, m) <= E(r, Filling(t)) /\ E(r, Filling(t)) \in Nat /\ (Filling(t) - 2) * HalfCells <= Written(r, m)
        /\ (Filling(t) - 2) * HalfCells \in Int
    BY <1>5 DEF ToRoom
  <2>6. x \in Nat /\ x < Asked(r, m) /\ x >= Written(r, m)
    <3>1. k \in Nat /\ 1 <= k /\ k <= Len(reads) /\ Len(reads) \in Nat
      BY <1>3
    <3> PICK a : a = Asked(r, m)
      OBVIOUS
    <3> PICK v : v = Written(r, m)
      OBVIOUS
    <3> PICK w : w = Waiting
      OBVIOUS
    <3> PICK s : s = Len(reads)
      OBVIOUS
    <3>2. a \in Nat /\ v \in Nat /\ w \in Nat /\ s \in Nat
      BY <1>3, <2>4
    <3>3. y = a - s /\ y = v + w
      BY <2>3
    <3>4. x \in Nat /\ x < a /\ x >= v
      BY ONLY <3>1, <3>2, <3>3, x = y + (k - 1), s = Len(reads)
    <3> QED  BY <3>4
  <2>7. x < E(r, Filling(t)) /\ x \in 0 .. E(r, Filling(t)) - 1
    BY <2>4, <2>5, <2>6
  <2> PICK f : f = (Filling(t) - 2) * HalfCells
    OBVIOUS
  <2>8. x >= f
    BY <2>4, <2>5, <2>6
  <2> QED  BY <2>1, <2>2, <2>7, <2>8 DEF ToBuffer
<1>12. ToReads(r, Arrived(r, m))'
  <2> SUFFICES ASSUME NEW l \in 1 .. Len(reads)
               PROVE  /\ reads'[l].tag = dmaReadTagOrderQ[Waiting + l]
                      /\ reads'[l].addr = Place(y + (l - 1))
                      /\ reads'[l].cell \in {None, Cell(r, y + (l - 1))}
    BY <1>2, <1>6, <1>7 DEF ToReads
  <2>1. /\ reads[l].tag = dmaReadTagOrderQ[Waiting + l]
        /\ reads[l].addr = Place(y + (l - 1))
        /\ reads[l].cell \in {None, Cell(r, y + (l - 1))}
    BY <1>4 DEF ToInv, ToReads
  <2>2. CASE l # k
    BY <1>2, <1>3, <2>1, <2>2
  <2>3. CASE l = k
    <3>1. reads[k] \in Request
      BY <1>3, ElementOfSeq
    <3>2. /\ reads'[k].tag = reads[k].tag /\ reads'[k].addr = reads[k].addr
          /\ reads'[k].cell = dmabuf[reads[k].addr]
      BY <1>2, <1>3, <3>1 DEF Request
    <3> QED  BY <1>11, <2>1, <2>3, <3>2
  <2> QED  BY <2>2, <2>3
<1> QED  BY <1>1, <1>2, <1>4, <1>7, <1>8, <1>9, <1>10, <1>12, ToMoves DEF cmdVars

-----------------------------------------------------------------------------
LEMMA BusyGetDMARead ==
  ASSUME TypeInv, NEW t, t = mutex, mutex # None, NEW r, r = call[t].req, BusyFor(t, r), getDMARead
  PROVE  BusyFor(t, r)'
<1>1. CountInv(t)
  BY DEF BusyFor
<1> PICK h : h = Head(reads)
  OBVIOUS
<1>2. /\ reads # <<>> /\ h.cell # None /\ vDmaReadWords[h.tag] = <<>>
      /\ reads' = Tail(reads)
      /\ vDmaReadWords' = [vDmaReadWords EXCEPT ![h.tag] = <<h.cell>>]
      /\ UNCHANGED <<hostVars, linkVars, cmdVars, dmaReadTagOrderQ, dmaReadWordCntQ,
                     dramWrite, fromVars, doneVars, dmabuf, mem>>
  BY DEF getDMARead
<1>3. PICK m \in Nat : CommandInv(t, r, m) /\ r.op = "to" /\ ToInv(t, r, m)
  <2>1. PICK m \in Nat : /\ CommandInv(t, r, m)
                         /\ \/ r.op = "to" /\ ToInv(t, r, m)
                            \/ r.op = "from" /\ \E l \in Nat : FromInv(t, r, m, l)
    BY DEF BusyFor
  <2>2. ASSUME NEW l \in Nat, FromInv(t, r, m, l) PROVE FALSE
    BY <1>2, <2>2 DEF FromInv, ToQuiet
  <2> QED  BY <2>1, <2>2
<1>4. ToSteps(t, r, m) /\ ToSizes /\ ToCells(r, m) /\ ToRoom(t, r, m)
  BY <1>1, <1>3, ToNumbers
<1>5. /\ dmaReadTagOrderQ \in Seq(ReadTags) /\ reads \in Seq(Request)
      /\ vDmaReadWords \in [ReadTags -> Seq(Cells)]
  BY DEF TypeInv, ReadTypes
<1> PICK s : s = Len(reads)
  OBVIOUS
<1> PICK c : c = Len(dmaReadTagOrderQ)
  OBVIOUS
<1> PICK w : w = Waiting
  OBVIOUS
<1> PICK v : v = w + 1
  OBVIOUS
<1> PICK y : y = Written(r, m)
  OBVIOUS
<1> PICK z : z = Arrived(r, m)
  OBVIOUS
<1> PICK u : u = z + 1
  OBVIOUS
<1>6. s \in Nat /\ c \in Nat /\ w \in Nat
  BY <1>4 DEF ToSizes
<1>7. y \in Nat /\ z \in Nat /\ z = y + w
  BY <1>4 DEF ToCells
<1>8. w = c - s
  BY DEF Waiting
<1>9. /\ Len(reads') = s - 1 /\ s \in Nat \ {0} /\ h = reads[1] /\ h \in Request
      /\ \A k \in 1 .. s - 1 : reads'[k] = reads[k + 1]
  BY <1>2, <1>5, TakenOut
<1>10. h.tag \in ReadTags
  BY <1>9 DEF Request
<1>11. Waiting' = v
  <2>1. Waiting' = c - (s - 1)
    BY <1>2, <1>9 DEF Waiting
  <2> QED  BY <1>6, <1>8, <2>1
<1>12. Asked(r, m)' = Asked(r, m) /\ Begun(m)' = Begun(m) /\ Done(t)' = Done(t) /\ Written(r, m)' = y
  <2>1. Asked(r, m)' = Asked(r, m) /\ Begun(m)' = Begun(m) /\ Done(t)' = Done(t)
    BY <1>2, FpgaStep DEF Asked, Begun, cmdVars
  <2> QED  BY <1>2, <2>1 DEF Written
<1>13. Arrived(r, m)' = u
  <2> PICK a : a = Asked(r, m)
    OBVIOUS
  <2>1. a \in Nat /\ z = a - s
    BY <1>4 DEF ToCells
  <2>2. Arrived(r, m)' = a - (s - 1)
    BY <1>9, <1>12 DEF Arrived
  <2> QED  BY <1>6, <2>1, <2>2
<1>14. /\ h.tag = dmaReadTagOrderQ[v] /\ h.cell = Cell(r, z)
  <2>1. /\ reads[1].tag = dmaReadTagOrderQ[w + 1]
        /\ reads[1].cell \in {None, Cell(r, z + (1 - 1))}
    BY <1>3, <1>9 DEF ToInv, ToReads
  <2>2. z + (1 - 1) = z
    BY <1>7
  <2> QED  BY <1>2, <1>9, <2>1, <2>2
<1>15. /\ \A k \in 1 .. w : vDmaReadWords[dmaReadTagOrderQ[k]] = <<Cell(r, y + (k - 1))>>
       /\ \A k, l \in 1 .. w : dmaReadTagOrderQ[k] = dmaReadTagOrderQ[l] => k = l
       /\ \A g \in ReadTags : vDmaReadWords[g] # <<>> => \E k \in 1 .. w : dmaReadTagOrderQ[k] = g
  BY <1>3 DEF ToInv, ToTags
<1>16. \A k \in 1 .. w : dmaReadTagOrderQ[k] # h.tag /\ dmaReadTagOrderQ[k] \in ReadTags
  <2> TAKE k \in 1 .. w
  <2>1. vDmaReadWords[dmaReadTagOrderQ[k]] # <<>>
    <3>1. vDmaReadWords[dmaReadTagOrderQ[k]] = <<Cell(r, y + (k - 1))>>
      BY <1>15
    <3> QED  BY <3>1
  <2>2. k \in 1 .. c
    BY <1>6, <1>8
  <2>3. dmaReadTagOrderQ[k] \in ReadTags
    BY <1>5, <2>2, ElementOfSeq
  <2> QED  BY <1>2, <2>1, <2>3
<1>17. ToTags(r, Written(r, m))'
  <2>1. \A k \in 1 .. v : k \in 1 .. w \/ k = v
    BY <1>6
  <2>2. ASSUME NEW k \in 1 .. v
        PROVE  vDmaReadWords'[dmaReadTagOrderQ[k]] = <<Cell(r, y + (k - 1))>>
    <3>1. CASE k \in 1 .. w
      BY <1>2, <1>5, <1>15, <1>16, <3>1
    <3>2. CASE k = v
      <4>1. y + (k - 1) = z
        BY <1>6, <1>7, <3>2
      <4> QED  BY <1>2, <1>5, <1>10, <1>14, <3>2, <4>1
    <3> QED  BY <2>1, <3>1, <3>2
  <2>3. \A k, l \in 1 .. v : dmaReadTagOrderQ[k] = dmaReadTagOrderQ[l] => k = l
    BY <1>14, <1>15, <1>16, <2>1
  <2>4. ASSUME NEW g \in ReadTags, vDmaReadWords'[g] # <<>> PROVE \E k \in 1 .. v : dmaReadTagOrderQ[k] = g
    <3>1. CASE g = h.tag
      BY <1>6, <1>14, <3>1
    <3>2. CASE g # h.tag
      <4>1. vDmaReadWords[g] # <<>>
        BY <1>2, <1>5, <2>4, <3>2
      <4>2. PICK k \in 1 .. w : dmaReadTagOrderQ[k] = g
        BY <1>15, <4>1
      <4> QED  BY <1>6, <4>2
    <3> QED  BY <3>1, <3>2
  <2>5. v \in Nat
    BY <1>6
  <2>6. dmaReadTagOrderQ' = dmaReadTagOrderQ
    BY <1>2
  <2>7. /\ v \in Nat
        /\ \A k \in 1 .. v : vDmaReadWords'[dmaReadTagOrderQ'[k]] = <<Cell(r, y + (k - 1))>>
        /\ \A k, l \in 1 .. v : dmaReadTagOrderQ'[k] = dmaReadTagOrderQ'[l] => k = l
        /\ \A g \in ReadTags : vDmaReadWords'[g] # <<>> => \E k \in 1 .. v : dmaReadTagOrderQ'[k] = g
    BY <2>2, <2>3, <2>4, <2>5, <2>6
  <2> QED  BY <1>11, <1>12, <2>7 DEF ToTags
<1>18. ToReads(r, Arrived(r, m))'
  <2> SUFFICES ASSUME NEW k \in 1 .. s - 1
               PROVE  /\ reads'[k].tag = dmaReadTagOrderQ[v + k]
                      /\ reads'[k].addr = Place(u + (k - 1))
                      /\ reads'[k].cell \in {None, Cell(r, u + (k - 1))}
    BY <1>2, <1>9, <1>11, <1>13 DEF ToReads
  <2> PICK l : l = k + 1
    OBVIOUS
  <2>1. l \in 1 .. s /\ w + l = v + k /\ z + (l - 1) = u + (k - 1)
    BY <1>6, <1>7
  <2>2. /\ reads[l].tag = dmaReadTagOrderQ[w + l]
        /\ reads[l].addr = Place(z + (l - 1))
        /\ reads[l].cell \in {None, Cell(r, z + (l - 1))}
    BY <1>3, <2>1 DEF ToInv, ToReads
  <2>3. reads'[k] = reads[l]
    BY <1>9
  <2> QED  BY <2>1, <2>2, <2>3
<1>19. ToAsks(r, m, Asked(r, m))'
  BY <1>2, <1>3, <1>12 DEF ToInv, ToAsks, cmdVars
<1>20. ToBursts(r, Begun(m), Done(t), Written(r, m))'
  BY <1>2, <1>3, <1>12 DEF ToInv, ToBursts
<1> QED  BY <1>1, <1>2, <1>3, <1>12, <1>17, <1>18, <1>19, <1>20, ToMoves DEF cmdVars

LEMMA BusyDramStartBurst ==
  ASSUME TypeInv, NEW t, t = mutex, mutex # None, NEW r, r = call[t].req, BusyFor(t, r), dramStartBurst
  PROVE  BusyFor(t, r)'
<1>1. CountInv(t)
  BY DEF BusyFor
<1>2. /\ dmaReadWordCntQ # <<>> /\ dramWrite.left = 0
      /\ dramWrite' = Head(dmaReadWordCntQ) /\ dmaReadWordCntQ' = Tail(dmaReadWordCntQ)
      /\ UNCHANGED <<hostVars, linkVars, cmdVars, freeTags, dmaReadTagOrderQ, reads,
                     vDmaReadWords, fromVars, doneVars, dmabuf, mem>>
  BY DEF dramStartBurst
<1>3. PICK m \in Nat : CommandInv(t, r, m) /\ r.op = "to" /\ ToInv(t, r, m)
  <2>1. PICK m \in Nat : /\ CommandInv(t, r, m)
                         /\ \/ r.op = "to" /\ ToInv(t, r, m)
                            \/ r.op = "from" /\ \E l \in Nat : FromInv(t, r, m, l)
    BY DEF BusyFor
  <2>2. ASSUME NEW l \in Nat, FromInv(t, r, m, l) PROVE FALSE
    BY <1>2, <2>2 DEF FromInv, ToQuiet
  <2> QED  BY <2>1, <2>2
<1>4. ToSteps(t, r, m) /\ ToSizes /\ ToCells(r, m) /\ ToRoom(t, r, m)
  BY <1>1, <1>3, ToNumbers
<1>5. dmaReadWordCntQ \in Seq(Bursts)
  BY DEF TypeInv, BurstTypes
<1> PICK b : b = Begun(m)
  OBVIOUS
<1> PICK n : n = b + 1
  OBVIOUS
<1> PICK y : y = Written(r, m)
  OBVIOUS
<1>6. /\ b \in Nat /\ b = m - Len(dmaReadWordCntQ) /\ m <= Given(t) /\ Given(t) \in Nat
      /\ Done(t) = b - (IF dramWrite.left > 0 THEN 1 ELSE 0)
  BY <1>4 DEF ToSteps
<1>7. Done(t) = b /\ Done(t)' = b
  <2>1. Done(t) = b
    BY <1>2, <1>6
  <2>2. Done(t)' = Done(t)
    BY <1>2, FpgaStep
  <2> QED  BY <2>1, <2>2
<1>8. \A k \in 1 .. Len(dmaReadWordCntQ) : dmaReadWordCntQ[k] = BurstOf(r, b + (k - 1))
  BY <1>3 DEF ToInv, ToBursts
<1>9. /\ dramWrite' = BurstOf(r, b) /\ Len(dmaReadWordCntQ') = Len(dmaReadWordCntQ) - 1
      /\ \A k \in 1 .. Len(dmaReadWordCntQ') : dmaReadWordCntQ'[k] = BurstOf(r, n + (k - 1))
  BY <1>2, <1>5, <1>6, <1>8, BurstsTail
<1>10. Len(dmaReadWordCntQ) \in Nat \ {0}
  BY <1>2, <1>5, TakenOut
<1>11. Begun(m)' = n
  BY <1>6, <1>9, <1>10 DEF Begun
<1>12. b < Passes(r) /\ r.len \in Nat
  <2>1. Given(t) <= Passes(r) /\ Passes(r) \in Nat /\ r.len \in Nat
    BY Busy, Holder
  <2> QED  BY <1>6, <1>10, <2>1
<1>13. E(r, b) \in Nat /\ E(r, n) \in Nat /\ E(r, b) < E(r, n)
  BY <1>6, <1>12, EdgeFacts
<1>14. dramWrite'.left = E(r, n) - E(r, b) /\ dramWrite'.at = Start(r) + E(r, b)
  BY <1>9 DEF BurstOf
<1>15. y = E(r, b)
  <2>1. y = E(r, b) - dramWrite.left
    BY <1>4 DEF ToCells
  <2> QED  BY <1>2, <1>13, <2>1
<1>16. /\ Asked(r, m)' = Asked(r, m) /\ Arrived(r, m)' = Arrived(r, m) /\ Written(r, m)' = y /\ Waiting' = Waiting
  <2>1. Asked(r, m)' = Asked(r, m) /\ Waiting' = Waiting
    BY <1>2 DEF Asked, Waiting, cmdVars
  <2> QED  BY <1>2, <2>1 DEF Arrived, Written
<1>17. ToBursts(r, Begun(m), Done(t), Written(r, m))'
  <2>1. y = E(r, n) - dramWrite'.left /\ dramWrite'.left > 0
    BY <1>13, <1>14, <1>15
  <2>2. b = n - 1
    BY <1>6
  <2>3. dramWrite'.left <= E(r, b + 1) - E(r, b)
    BY <1>13, <1>14
  <2>4. dramWrite'.at = Start(r) + y
    BY <1>14, <1>15
  <2>5. /\ \A k \in 1 .. Len(dmaReadWordCntQ') : dmaReadWordCntQ'[k] = BurstOf(r, n + (k - 1))
        /\ b = n - (IF dramWrite'.left > 0 THEN 1 ELSE 0)
    BY <1>9, <2>1, <2>2
  <2> QED  BY <1>7, <1>11, <1>16, <2>1, <2>3, <2>4, <2>5 DEF ToBursts
<1>18. ToAsks(r, m, Asked(r, m))'
  BY <1>2, <1>3, <1>16 DEF ToInv, ToAsks, cmdVars
<1>19. ToTags(r, Written(r, m))'
  BY <1>2, <1>3, <1>16 DEF ToInv, ToTags
<1>20. ToReads(r, Arrived(r, m))'
  BY <1>2, <1>3, <1>16 DEF ToInv, ToReads
<1> QED  BY <1>1, <1>2, <1>3, <1>16, <1>17, <1>18, <1>19, <1>20, ToMoves DEF cmdVars

-----------------------------------------------------------------------------
(* A count that grows keeps what is known of it.                           *)
LEMMA CountGrows ==
  ASSUME TypeInv, NEW t, t = mutex, mutex # None, NEW r, r = call[t].req, UNCHANGED hostVars,
         NEW d \in Nat, Count(t)' = Count(t) + d,
         \A k \in 1 .. Len(up') : Answer(k)' => up'[k].count \in Nat /\ up'[k].count <= Count(t),
         CountInv(t)
  PROVE  CountInv(t)' /\ Done(t)' = Done(t) + d /\ Given(t)' = Given(t) /\ Filling(t)' = Filling(t)
<1>1. /\ call' = call /\ pc' = pc /\ inst' = inst /\ wTotal' = wTotal /\ rTotal' = rTotal /\ issued' = issued
  BY DEF hostVars
<1>2. Given(t)' = Given(t)
  BY <1>1 DEF Given, InLoop
<1>3. Filling(t)' = Filling(t)
  BY <1>1, <1>2 DEF Filling
<1>4. Total(t)' = Total(t)
  BY <1>1 DEF Total
<1> PICK c : c = Count(t)
  OBVIOUS
<1> PICK s : s = Total(t)
  OBVIOUS
<1> PICK e : e = Count(t)'
  OBVIOUS
<1>5. c \in Nat /\ s \in Nat /\ call[t].i \in Nat
  BY Busy
<1>6. Done(t) = c - s /\ Done(t)' = e - s /\ e = c + d /\ e \in Nat /\ e >= c
  BY <1>4, <1>5 DEF Done
<1>7. Target(t)' = Target(t)
  BY <1>1, <1>4 DEF Target, Awaited
<1>8. /\ IF r.op = "to" THEN issued.to = wTotal + Given(t) /\ rTotal = issued.from
         ELSE issued.from = rTotal + Given(t) /\ wTotal = issued.to
      /\ Done(t) \in Nat /\ Done(t) >= call[t].i - 1
      /\ pc[t] = "seen" => Target(t) <= call[t].seen /\ call[t].seen <= c
  BY DEF CountInv
<1>9. Done(t)' = Done(t) + d
  BY <1>5, <1>6
<1>10. Done(t)' \in Nat /\ Done(t)' >= call[t].i - 1
  BY <1>5, <1>8, <1>9
<1>11. pc[t] = "seen" => Target(t) <= call[t].seen /\ call[t].seen <= e
  <2> SUFFICES ASSUME pc[t] = "seen" PROVE call[t].seen <= e
    BY <1>8
  <2>1. call[t].seen \in Nat /\ call[t].seen <= c
    <3>1. call[t] \in Local
      BY Busy
    <3> QED  BY <1>8, <3>1 DEF Local
  <2> QED  BY <1>5, <1>6, <2>1
<1>12. \A k \in 1 .. Len(up') : Answer(k)' => up'[k].count <= e
  <2> TAKE k \in 1 .. Len(up')
  <2> HAVE Answer(k)'
  <2> PICK a : a = up'[k].count
    OBVIOUS
  <2>1. a \in Nat /\ a <= c
    OBVIOUS
  <2>2. c \in Nat /\ e \in Nat /\ c <= e
    BY <1>5, <1>6
  <2>3. a <= e
    BY ONLY <2>1, <2>2
  <2> QED  BY <2>3
<1>13. CountInv(t)'
  BY <1>1, <1>2, <1>7, <1>8, <1>10, <1>11, <1>12 DEF CountInv
<1> QED  BY <1>2, <1>3, <1>9, <1>13

LEMMA AnswersTyped ==
  ASSUME TypeInv, NEW k \in 1 .. Len(up), Answer(k)
  PROVE  up[k].count \in Nat
<1>1. up \in Seq(LinkWord)
  BY DEF TypeInv, LinkTypes
<1>2. up[k] \in LinkWord
  BY <1>1, ElementOfSeq
<1> QED  BY <1>2 DEF LinkWord, Answer

(* The last cell asked for that is written, from the last tag in order.    *)
LEMMA TagsTail ==
  ASSUME NEW r, NEW y \in Nat, NEW n, n = y + 1, ToTags(r, y), dmaReadTagOrderQ \in Seq(ReadTags),
         vDmaReadWords \in [ReadTags -> Seq(Cells)], dmaReadTagOrderQ # <<>>, Len(reads) \in Nat,
         NEW g, g = Head(dmaReadTagOrderQ), vDmaReadWords[g] # <<>>,
         dmaReadTagOrderQ' = Tail(dmaReadTagOrderQ), vDmaReadWords' = [vDmaReadWords EXCEPT ![g] = <<>>],
         reads' = reads
  PROVE  /\ ToTags(r, n)' /\ Head(vDmaReadWords[g]) = Cell(r, y)
         /\ Waiting \in Nat /\ Waiting' = Waiting - 1
<1> PICK w : w = Waiting
  OBVIOUS
<1> PICK v : v = w - 1
  OBVIOUS
<1> PICK c : c = Len(dmaReadTagOrderQ)
  OBVIOUS
<1>1. /\ w \in Nat
      /\ \A k \in 1 .. w : vDmaReadWords[dmaReadTagOrderQ[k]] = <<Cell(r, y + (k - 1))>>
      /\ \A k, l \in 1 .. w : dmaReadTagOrderQ[k] = dmaReadTagOrderQ[l] => k = l
      /\ \A h \in ReadTags : vDmaReadWords[h] # <<>> => \E k \in 1 .. w : dmaReadTagOrderQ[k] = h
  BY DEF ToTags
<1>2. /\ Len(dmaReadTagOrderQ') = c - 1 /\ c \in Nat \ {0} /\ g = dmaReadTagOrderQ[1] /\ g \in ReadTags
      /\ \A k \in 1 .. c - 1 : dmaReadTagOrderQ'[k] = dmaReadTagOrderQ[k + 1]
  BY TakenOut
<1>3. w = c - Len(reads)
  BY DEF Waiting
<1>4. w >= 1 /\ v \in Nat
  <2>1. PICK k \in 1 .. w : dmaReadTagOrderQ[k] = g
    BY <1>1, <1>2
  <2> QED  BY <1>1, <2>1
<1>5. Waiting' = v
  <2>1. Waiting' = (c - 1) - Len(reads)
    BY <1>2 DEF Waiting
  <2> QED  BY <1>1, <1>2, <1>3, <2>1
<1>6. Head(vDmaReadWords[g]) = Cell(r, y)
  <2>1. vDmaReadWords[dmaReadTagOrderQ[1]] = <<Cell(r, y + (1 - 1))>>
    BY <1>1, <1>4
  <2>2. y + (1 - 1) = y
    OBVIOUS
  <2> QED  BY <1>2, <2>1, <2>2
<1>7. \A k \in 1 .. v : k + 1 \in 1 .. w /\ dmaReadTagOrderQ'[k] = dmaReadTagOrderQ[k + 1]
  <2> TAKE k \in 1 .. v
  <2>1. k + 1 \in 1 .. w
    BY <1>1, <1>4
  <2>2. k \in 1 .. c - 1
    BY <1>1, <1>2, <1>3, <1>4
  <2> QED  BY <1>2, <2>1, <2>2
<1>8. ASSUME NEW k \in 1 .. v PROVE vDmaReadWords'[dmaReadTagOrderQ'[k]] = <<Cell(r, n + (k - 1))>>
  <2> PICK l : l = k + 1
    OBVIOUS
  <2>1. l \in 1 .. w /\ dmaReadTagOrderQ'[k] = dmaReadTagOrderQ[l] /\ l # 1
    <3>1. l \in 1 .. w /\ dmaReadTagOrderQ'[k] = dmaReadTagOrderQ[l]
      BY <1>7
    <3>2. l # 1
      BY <1>4
    <3> QED  BY <3>1, <3>2
  <2>2. vDmaReadWords[dmaReadTagOrderQ[l]] = <<Cell(r, y + (l - 1))>>
    BY <1>1, <2>1
  <2>3. y + (l - 1) = n + (k - 1)
    OBVIOUS
  <2>4. dmaReadTagOrderQ[l] # g
    BY <1>1, <1>2, <1>4, <2>1
  <2>5. dmaReadTagOrderQ[l] \in ReadTags
    <3>1. l \in 1 .. c
      BY <1>1, <1>2, <1>3, <2>1
    <3> QED  BY <3>1, ElementOfSeq
  <2> QED  BY <2>1, <2>2, <2>3, <2>4, <2>5
<1>9. ASSUME NEW k \in 1 .. v, NEW l \in 1 .. v, dmaReadTagOrderQ'[k] = dmaReadTagOrderQ'[l]
      PROVE  k = l
  <2> PICK a : a = k + 1
    OBVIOUS
  <2> PICK b : b = l + 1
    OBVIOUS
  <2>1. a \in 1 .. w /\ dmaReadTagOrderQ'[k] = dmaReadTagOrderQ[a]
    BY <1>7
  <2>2. b \in 1 .. w /\ dmaReadTagOrderQ'[l] = dmaReadTagOrderQ[b]
    BY <1>7
  <2>3. a = b
    BY <1>1, <1>9, <2>1, <2>2
  <2> QED  BY <1>4, <2>3
<1>10. ASSUME NEW h \in ReadTags, vDmaReadWords'[h] # <<>> PROVE \E k \in 1 .. v : dmaReadTagOrderQ'[k] = h
  <2>1. h # g /\ vDmaReadWords[h] # <<>>
    BY <1>10
  <2>2. PICK l \in 1 .. w : dmaReadTagOrderQ[l] = h
    BY <1>1, <2>1
  <2>3. l # 1
    BY <1>2, <2>1, <2>2
  <2> PICK k : k = l - 1
    OBVIOUS
  <2>4. k \in 1 .. v /\ l = k + 1
    BY <1>1, <2>3
  <2> QED  BY <1>7, <2>2, <2>4
<1>11. ToTags(r, n)'
  <2>1. /\ v \in Nat
        /\ \A k \in 1 .. v : vDmaReadWords'[dmaReadTagOrderQ'[k]] = <<Cell(r, n + (k - 1))>>
        /\ \A k, l \in 1 .. v : dmaReadTagOrderQ'[k] = dmaReadTagOrderQ'[l] => k = l
        /\ \A h \in ReadTags : vDmaReadWords'[h] # <<>> => \E k \in 1 .. v : dmaReadTagOrderQ'[k] = h
    BY <1>4, <1>8, <1>9, <1>10
  <2> QED  BY <1>5, <2>1 DEF ToTags
<1> QED  BY <1>1, <1>5, <1>6, <1>11

-----------------------------------------------------------------------------
LEMMA CellWritten ==
  ASSUME NEW r, NEW y \in Nat, NEW n, n = y + 1, NEW s \in Nat, s = Start(r), ToMemory(r, y),
         mem \in [MemCells -> Cells], before' = before, NEW a, a = s + y, a \in MemCells,
         mem' = [mem EXCEPT ![a] = Cell(r, y)]
  PROVE  ToMemory(r, n)'
<1> SUFFICES ASSUME NEW k \in MemCells
             PROVE  mem'[k] = IF k - s \in 0 .. n - 1 THEN Cell(r, k - s) ELSE before[k]
  BY DEF ToMemory
<1>1. k \in Nat
  BY DEF MemCells
<1>2. mem[k] = IF k - s \in 0 .. y - 1 THEN Cell(r, k - s) ELSE before[k]
  BY DEF ToMemory
<1>3. CASE k = a
  <2>1. k - s = y /\ k - s \in 0 .. n - 1
    BY <1>1, <1>3
  <2> QED  BY <1>3, <2>1
<1>4. CASE k # a
  <2>1. k - s \in 0 .. n - 1 <=> k - s \in 0 .. y - 1
    BY <1>1, <1>4
  <2> QED  BY <1>2, <1>4, <2>1
<1> QED  BY <1>3, <1>4

LEMMA BusyRelayDRAMWriteBurst ==
  ASSUME TypeInv, NEW t, t = mutex, mutex # None, NEW r, r = call[t].req, BusyFor(t, r), relayDRAMWriteBurst
  PROVE  BusyFor(t, r)' /\ r.op = "to"
<1>1. CountInv(t)
  BY DEF BusyFor
<1> PICK g : g = Head(dmaReadTagOrderQ)
  OBVIOUS
<1>2. /\ dramWrite.left > 0 /\ dmaReadTagOrderQ # <<>> /\ vDmaReadWords[g] # <<>>
      /\ dmaReadTagOrderQ' = Tail(dmaReadTagOrderQ)
      /\ vDmaReadWords' = [vDmaReadWords EXCEPT ![g] = <<>>]
      /\ mem' = [mem EXCEPT ![dramWrite.at] = Head(vDmaReadWords[g])]
      /\ dramWrite' = [at |-> dramWrite.at + 1, left |-> dramWrite.left - 1]
      /\ writeDoneCount' = IF dramWrite.left = 1 THEN writeDoneCount + 1 ELSE writeDoneCount
      /\ UNCHANGED <<hostVars, linkVars, cmdVars, freeTags, reads, dmaReadWordCntQ, fromVars,
                     readDoneCount, dmabuf>>
  BY DEF relayDRAMWriteBurst
<1>3. PICK m \in Nat : CommandInv(t, r, m) /\ r.op = "to" /\ ToInv(t, r, m)
  <2>1. PICK m \in Nat : /\ CommandInv(t, r, m)
                         /\ \/ r.op = "to" /\ ToInv(t, r, m)
                            \/ r.op = "from" /\ \E l \in Nat : FromInv(t, r, m, l)
    BY DEF BusyFor
  <2>2. ASSUME NEW l \in Nat, FromInv(t, r, m, l) PROVE FALSE
    BY <1>2, <2>2 DEF FromInv, ToQuiet
  <2> QED  BY <2>1, <2>2
<1>4. ToSteps(t, r, m) /\ ToSizes /\ ToCells(r, m) /\ ToRoom(t, r, m)
  BY <1>1, <1>3, ToNumbers
<1>5. /\ dmaReadTagOrderQ \in Seq(ReadTags) /\ vDmaReadWords \in [ReadTags -> Seq(Cells)]
      /\ Len(reads) \in Nat
  <2>1. Len(reads) \in Nat
    BY <1>4 DEF ToSizes
  <2> QED  BY <2>1 DEF TypeInv, ReadTypes
<1>6. mem \in [MemCells -> Cells] /\ writeDoneCount \in Nat
  BY DEF TypeInv, MemoryTypes
<1>7. dramWrite \in Bursts /\ dramWrite.at \in MemCells /\ dramWrite.left \in Nat
  <2>1. dramWrite \in Bursts /\ BurstFits(dramWrite)
    BY <1>2 DEF TypeInv, BurstTypes, BurstsFit
  <2> QED  BY <1>2, <2>1, BurstMoves DEF Bursts
<1> PICK b : b = Begun(m)
  OBVIOUS
<1> PICK y : y = Written(r, m)
  OBVIOUS
<1> PICK n : n = y + 1
  OBVIOUS
<1> PICK s : s = Start(r)
  OBVIOUS
<1> PICK x : x = dramWrite.left
  OBVIOUS
<1> PICK d : d = IF x = 1 THEN 1 ELSE 0
  OBVIOUS
<1> PICK e : e = Done(t)
  OBVIOUS
<1>8. y \in Nat /\ E(r, b) \in Nat /\ y = E(r, b) - x
  BY <1>4 DEF ToCells
<1>9. b \in Nat /\ e = b - 1 /\ b <= m /\ e \in Nat
  BY <1>2, <1>4 DEF ToSteps
<1>10. ToTags(r, y) /\ ToMemory(r, y) /\ ToReads(r, Arrived(r, m)) /\ ToBuffer(r, Filling(t))
  BY <1>3 DEF ToInv
<1>11. /\ dramWrite.left <= E(r, e + 1) - E(r, e) /\ dramWrite.at = s + y
       /\ \A k \in 1 .. Len(dmaReadWordCntQ) : dmaReadWordCntQ[k] = BurstOf(r, b + (k - 1))
  BY <1>2, <1>3 DEF ToInv, ToBursts
<1>12. s \in Nat
  <2>1. r \in Calls
    BY Holder
  <2>2. FirstPage(r.at) \in Nat /\ PageCells \in Nat
    BY <2>1, ACall, Sizes
  <2> QED  BY <2>2 DEF Start
<1>13. /\ ToTags(r, n)' /\ Head(vDmaReadWords[g]) = Cell(r, y)
       /\ Waiting \in Nat /\ Waiting' = Waiting - 1
  BY <1>2, <1>5, <1>8, <1>10, TagsTail
<1>14. ToMemory(r, n)'
  <2>1. before' = before
    BY <1>2 DEF hostVars
  <2> PICK a : a = dramWrite.at
    OBVIOUS
  <2>2. mem' = [mem EXCEPT ![a] = Cell(r, y)]
    BY <1>2, <1>13
  <2> QED  BY <1>6, <1>7, <1>8, <1>10, <1>11, <1>12, <2>1, <2>2, CellWritten
<1>15. Len(dmaReadTagOrderQ') = Len(dmaReadTagOrderQ) - 1 /\ Len(dmaReadTagOrderQ) \in Nat
  BY <1>2, <1>5, TakenOut
<1>16. Asked(r, m)' = Asked(r, m) /\ Begun(m)' = b
  BY <1>2 DEF Asked, Begun, cmdVars
<1>17. Arrived(r, m)' = Arrived(r, m)
  BY <1>2, <1>16 DEF Arrived
<1>18. Written(r, m)' = n
  <2> PICK a : a = Asked(r, m)
    OBVIOUS
  <2> PICK c : c = Len(dmaReadTagOrderQ)
    OBVIOUS
  <2>1. a \in Nat /\ y = a - c
    BY <1>4 DEF ToCells
  <2>2. Written(r, m)' = a - (c - 1) /\ c \in Nat
    BY <1>15, <1>16 DEF Written
  <2>3. a - (c - 1) = n
    BY ONLY <2>1, <2>2, n = y + 1
  <2> QED  BY <2>2, <2>3
<1>19. Count(t)' = Count(t) + d /\ d \in Nat
  <2>1. Count(t) = writeDoneCount /\ inst = "ready" /\ inst' = inst /\ call' = call
    BY <1>2, <1>3, Busy DEF hostVars
  <2>2. Count(t)' = writeDoneCount'
    BY <1>3, <2>1 DEF Count, ToFpga
  <2> QED  BY <1>2, <1>6, <2>1, <2>2
<1>20. /\ CountInv(t)' /\ Done(t)' = e + d /\ Given(t)' = Given(t) /\ Filling(t)' = Filling(t)
  <2>1. \A k \in 1 .. Len(up') : Answer(k)' => up'[k].count \in Nat /\ up'[k].count <= Count(t)
    <3>1. up' = up /\ \A k \in 1 .. Len(up) : Answer(k)' <=> Answer(k)
      BY <1>2 DEF linkVars, Answer
    <3>2. \A k \in 1 .. Len(up) : Answer(k) => up[k].count <= Count(t)
      BY <1>1 DEF CountInv
    <3> QED  BY <3>1, <3>2, AnswersTyped
  <2>2. UNCHANGED hostVars
    BY <1>2
  <2> QED  BY <1>1, <1>19, <2>1, <2>2, CountGrows
<1>21. CommandInv(t, r, m)'
  <2>1. Done(t)' <= m
    BY <1>9, <1>20
  <2>2. pc' = pc /\ call' = call
    BY <1>2 DEF hostVars
  <2> QED  BY <1>2, <1>3, <1>20, <2>1, <2>2, CommandKept DEF linkVars, cmdVars
<1>22. ToBursts(r, Begun(m), Done(t), Written(r, m))'
  <2>1. dramWrite'.left = x - 1 /\ dramWrite'.at = dramWrite.at + 1
    BY <1>2
  <2> PICK f : f = e + d
    OBVIOUS
  <2>2. f = b - (IF dramWrite'.left > 0 THEN 1 ELSE 0)
    BY <1>2, <1>7, <1>9, <2>1
  <2>3. n = E(r, b) - dramWrite'.left
    BY <1>7, <1>8, <2>1
  <2>4. dramWrite'.left > 0 => dramWrite'.left <= E(r, f + 1) - E(r, f) /\ dramWrite'.at = s + n
    <3> HAVE dramWrite'.left > 0
    <3>1. f = e /\ x # 1
      BY <1>7, <1>9, <2>1
    <3> PICK u : u = E(r, e + 1) - E(r, e)
      OBVIOUS
    <3>2. u \in Int
      <4>1. r.len \in Nat
        BY Holder
      <4>2. E(r, e + 1) \in Nat /\ E(r, e) \in Nat
        BY <1>9, <4>1, EdgeFacts
      <4> QED  BY <4>2
    <3>3. x <= u
      BY <1>11
    <3>4. dramWrite'.left <= u
      BY <1>7, <2>1, <3>2, <3>3
    <3>5. dramWrite'.at = s + n
      BY <1>8, <1>11, <1>12, <2>1
    <3> QED  BY <3>1, <3>4, <3>5
  <2>5. \A k \in 1 .. Len(dmaReadWordCntQ') : dmaReadWordCntQ'[k] = BurstOf(r, b + (k - 1))
    BY <1>2, <1>11
  <2> QED  BY <1>16, <1>18, <1>20, <2>2, <2>3, <2>4, <2>5 DEF ToBursts
<1>23. ToReads(r, Arrived(r, m))'
  <2> SUFFICES ASSUME NEW k \in 1 .. Len(reads)
               PROVE  /\ reads[k].tag = dmaReadTagOrderQ'[Waiting' + k]
                      /\ reads[k].addr = Place(Arrived(r, m) + (k - 1))
                      /\ reads[k].cell \in {None, Cell(r, Arrived(r, m) + (k - 1))}
    BY <1>2, <1>17 DEF ToReads
  <2>1. /\ reads[k].tag = dmaReadTagOrderQ[Waiting + k]
        /\ reads[k].addr = Place(Arrived(r, m) + (k - 1))
        /\ reads[k].cell \in {None, Cell(r, Arrived(r, m) + (k - 1))}
    BY <1>10 DEF ToReads
  <2> PICK w : w = Waiting
    OBVIOUS
  <2>2. dmaReadTagOrderQ'[Waiting' + k] = dmaReadTagOrderQ[w + k]
    <3> PICK i : i = (w - 1) + k
      OBVIOUS
    <3>1. w \in Nat /\ w = Len(dmaReadTagOrderQ) - Len(reads)
      BY <1>13 DEF Waiting
    <3>2. i + 1 = w + k
      BY <3>1
    <3>3. i \in 1 .. Len(dmaReadTagOrderQ) - 1
      <4>1. w >= 1
        <5>1. Waiting' \in Nat
          BY <1>13 DEF ToTags
        <5> QED  BY <1>13, <3>1, <5>1
      <4> QED  BY <1>5, <1>15, <3>1, <4>1
    <3>4. dmaReadTagOrderQ'[i] = dmaReadTagOrderQ[i + 1]
      BY <1>2, <1>5, <3>3, TakenOut
    <3> QED  BY <1>13, <3>2, <3>4
  <2> QED  BY <2>1, <2>2
<1>24. ToAsks(r, m, Asked(r, m))'
  BY <1>2, <1>3, <1>16 DEF ToInv, ToAsks, cmdVars
<1>25. FromQuiet'
  <2>1. issued' = issued
    BY <1>2 DEF hostVars
  <2> QED  BY <1>2, <1>3, <2>1, QuietFromSame DEF ToInv, cmdVars
<1>26. \A k \in 1 .. Len(up') : Answer(k)'
  BY <1>2, <1>3 DEF ToInv, Answer, linkVars
<1>27. ToBuffer(r, Filling(t))'
  BY <1>2, <1>10, <1>20, BufferSame
<1>28. ToInv(t, r, m)'
  <2>1. ToTags(r, Written(r, m))' /\ ToMemory(r, Written(r, m))'
    BY <1>13, <1>14, <1>18
  <2> QED  BY <1>22, <1>23, <1>24, <1>25, <1>26, <1>27, <2>1 DEF ToInv
<1> QED  BY <1>3, <1>20, <1>21, <1>28 DEF BusyFor

-----------------------------------------------------------------------------
(* Steps of the FPGA that only a copy from it makes.                       *)
LEMMA FromMoves ==
  ASSUME TypeInv, NEW t, t = mutex, mutex # None, NEW r, r = call[t].req, r.op = "from",
         NEW m \in Nat, NEW l \in Nat, CountInv(t), CommandInv(t, r, m), FromInv(t, r, m, l),
         UNCHANGED <<hostVars, linkVars, hostMemTemp, fpgaMemTemp, dmaCmdQ, memReadLeft,
                     toVars, doneVars, dmabuf, mem>>,
         FromAsks(r, m, Wanted(r, m))', FromBursts(r, Fetching(m), Fetched(r, m))',
         FromWords(r, Handed(r, m))', FromRequests(r, Handed(r, m))', Handed(r, m)' = Handed(r, m)
  PROVE  BusyFor(t, r)'
<1>1. /\ Given(t)' = Given(t) /\ Filling(t)' = Filling(t) /\ Done(t)' = Done(t) /\ call' = call /\ pc' = pc
      /\ user' = user /\ issued' = issued /\ rTotal' = rTotal
  BY FpgaStep
<1>2. CountInv(t)'
  BY FpgaCounts DEF linkVars
<1>3. CommandInv(t, r, m)'
  BY <1>1, CommandKept DEF linkVars, CommandInv
<1>4. ToQuiet'
  BY <1>1, QuietToSame DEF FromInv, doneVars
<1>5. FromDone(r, Handed(r, m), Done(t))'
  BY <1>1 DEF FromInv, FromDone
<1>6. FromLink(r, l, Handed(r, m))'
  BY <1>1 DEF FromInv, FromLink, LandMoves, linkVars
<1>7. FromLanded(t, l)'
  BY <1>1, LandedSame DEF FromInv
<1>8. FromBuffer(r, l)'
  BY DEF FromInv, FromBuffer
<1>9. FromUser(t)'
  BY <1>1, UserSame DEF FromInv
<1>10. FromInv(t, r, m, l)'
  BY <1>4, <1>5, <1>6, <1>7, <1>8, <1>9 DEF FromInv
<1> QED  BY <1>1, <1>2, <1>3, <1>10 DEF BusyFor

LEMMA BusyStartDRAMRead ==
  ASSUME TypeInv, NEW t, t = mutex, mutex # None, NEW r, r = call[t].req, BusyFor(t, r), startDRAMRead
  PROVE  BusyFor(t, r)'
<1>1. CountInv(t)
  BY DEF BusyFor
<1>2. /\ dramReadWordCntQ # <<>> /\ dramRead.left = 0
      /\ dramRead' = Head(dramReadWordCntQ) /\ dramReadWordCntQ' = Tail(dramReadWordCntQ)
      /\ UNCHANGED <<hostVars, linkVars, cmdVars, toVars, dramReadWordQ, pcieWriteReqQ,
                     doneVars, dmabuf, mem>>
  BY DEF startDRAMRead
<1>3. PICK m \in Nat : /\ CommandInv(t, r, m) /\ r.op = "from"
                       /\ \E l \in Nat : FromInv(t, r, m, l)
  <2>1. PICK m \in Nat : /\ CommandInv(t, r, m)
                         /\ \/ r.op = "to" /\ ToInv(t, r, m)
                            \/ r.op = "from" /\ \E l \in Nat : FromInv(t, r, m, l)
    BY DEF BusyFor
  <2>2. ASSUME ToInv(t, r, m) PROVE FALSE
    BY <1>2, <2>2 DEF ToInv, FromQuiet
  <2> QED  BY <2>1, <2>2
<1>4. PICK l \in Nat : FromInv(t, r, m, l)
  BY <1>3
<1>5. FromSteps(t, m) /\ FromSizes /\ FromCells(r, m) /\ FromRoom(t, r, m, l)
  BY <1>1, <1>3, <1>4, FromNumbers
<1>6. dramReadWordCntQ \in Seq(Bursts)
  BY DEF TypeInv, BurstTypes
<1> PICK b : b = Fetching(m)
  OBVIOUS
<1> PICK n : n = b + 1
  OBVIOUS
<1> PICK f : f = Fetched(r, m)
  OBVIOUS
<1>7. b \in Nat /\ b = m - Len(dramReadWordCntQ) /\ m <= Given(t) /\ Given(t) \in Nat
  BY <1>5 DEF FromSteps
<1>8. \A k \in 1 .. Len(dramReadWordCntQ) : dramReadWordCntQ[k] = BurstOf(r, b + (k - 1))
  BY <1>4 DEF FromInv, FromBursts
<1>9. /\ dramRead' = BurstOf(r, b) /\ Len(dramReadWordCntQ') = Len(dramReadWordCntQ) - 1
      /\ \A k \in 1 .. Len(dramReadWordCntQ') : dramReadWordCntQ'[k] = BurstOf(r, n + (k - 1))
  BY <1>2, <1>6, <1>7, <1>8, BurstsTail
<1>10. Len(dramReadWordCntQ) \in Nat \ {0}
  BY <1>2, <1>6, TakenOut
<1>11. Fetching(m)' = n
  BY <1>7, <1>9, <1>10 DEF Fetching
<1>12. r.len \in Nat
  BY Holder
<1>13. E(r, b) \in Nat /\ E(r, n) \in Nat
  BY <1>7, <1>12, EdgeFacts
<1>14. dramRead'.left = E(r, n) - E(r, b) /\ dramRead'.at = Start(r) + E(r, b)
  BY <1>9 DEF BurstOf
<1>15. f = E(r, b)
  <2>1. f = E(r, b) - dramRead.left
    BY <1>5 DEF FromCells
  <2> QED  BY <1>2, <1>13, <2>1
<1>16. Wanted(r, m)' = Wanted(r, m) /\ Handed(r, m)' = Handed(r, m) /\ Fetched(r, m)' = f
  <2>1. Wanted(r, m)' = Wanted(r, m)
    BY <1>2 DEF Wanted, cmdVars
  <2>2. Handed(r, m)' = Handed(r, m)
    BY <1>2, <2>1 DEF Handed
  <2> QED  BY <1>2, <2>1, <2>2 DEF Fetched
<1>17. FromBursts(r, Fetching(m), Fetched(r, m))'
  <2>1. f = E(r, n) - dramRead'.left
    BY <1>13, <1>14, <1>15
  <2>2. dramRead'.at = Start(r) + f
    BY <1>14, <1>15
  <2>3. n \in Nat
    BY <1>7
  <2> QED  BY <1>9, <1>11, <1>16, <2>1, <2>2, <2>3 DEF FromBursts
<1>18. FromAsks(r, m, Wanted(r, m))'
  BY <1>2, <1>4, <1>16 DEF FromInv, FromAsks, cmdVars
<1>19. FromWords(r, Handed(r, m))' /\ FromRequests(r, Handed(r, m))'
  BY <1>2, <1>4, <1>16 DEF FromInv, FromWords, FromRequests
<1> QED  BY <1>1, <1>2, <1>3, <1>4, <1>16, <1>17, <1>18, <1>19, FromMoves DEF cmdVars

LEMMA BusyRelayDRAMWord ==
  ASSUME TypeInv, NEW t, t = mutex, mutex # None, NEW r, r = call[t].req, BusyFor(t, r), relayDRAMWord
  PROVE  BusyFor(t, r)'
<1>1. CountInv(t)
  BY DEF BusyFor
<1>2. /\ dramRead.left > 0
      /\ dramReadWordQ' = Append(dramReadWordQ, mem[dramRead.at])
      /\ dramRead' = [at |-> dramRead.at + 1, left |-> dramRead.left - 1]
      /\ UNCHANGED <<hostVars, linkVars, cmdVars, toVars, dramReadWordCntQ, pcieWriteReqQ,
                     doneVars, dmabuf, mem>>
  BY DEF relayDRAMWord
<1>3. PICK m \in Nat : /\ CommandInv(t, r, m) /\ r.op = "from"
                       /\ \E l \in Nat : FromInv(t, r, m, l)
  <2>1. PICK m \in Nat : /\ CommandInv(t, r, m)
                         /\ \/ r.op = "to" /\ ToInv(t, r, m)
                            \/ r.op = "from" /\ \E l \in Nat : FromInv(t, r, m, l)
    BY DEF BusyFor
  <2>2. ASSUME ToInv(t, r, m) PROVE FALSE
    BY <1>2, <2>2 DEF ToInv, FromQuiet
  <2> QED  BY <2>1, <2>2
<1>4. PICK l \in Nat : FromInv(t, r, m, l)
  BY <1>3
<1>5. FromSteps(t, m) /\ FromSizes /\ FromCells(r, m) /\ FromRoom(t, r, m, l)
  BY <1>1, <1>3, <1>4, FromNumbers
<1> PICK b : b = Fetching(m)
  OBVIOUS
<1> PICK f : f = Fetched(r, m)
  OBVIOUS
<1> PICK h : h = Handed(r, m)
  OBVIOUS
<1> PICK s : s = Start(r)
  OBVIOUS
<1> PICK n : n = f + 1
  OBVIOUS
<1> PICK c : c = Len(dramReadWordQ)
  OBVIOUS
<1> PICK x : x = mem[dramRead.at]
  OBVIOUS
<1>6. f \in Nat /\ h \in Nat /\ f = h + c /\ E(r, b) \in Nat
  BY <1>5 DEF FromCells
<1>7. FromBursts(r, b, f) /\ FromWords(r, h)
  BY <1>4 DEF FromInv
<1>8. f = E(r, b) - dramRead.left /\ dramRead.at = s + f
  BY <1>2, <1>7 DEF FromBursts
<1>9. dramRead \in Bursts /\ dramRead.left \in Nat /\ dramRead.at \in MemCells /\ dramRead.at \in Nat
  <2>1. dramRead \in Bursts /\ BurstFits(dramRead)
    BY <1>2 DEF TypeInv, BurstTypes, BurstsFit
  <2> QED  BY <1>2, <2>1, BurstMoves DEF Bursts
<1>10. s \in Nat
  <2>1. r \in Calls
    BY Holder
  <2>2. FirstPage(r.at) \in Nat /\ PageCells \in Nat
    BY <2>1, ACall, Sizes
  <2> QED  BY <2>2 DEF Start
<1>11. /\ Len(dramReadWordQ') = c + 1 /\ c \in Nat
       /\ \A k \in 1 .. c : dramReadWordQ'[k] = dramReadWordQ[k]
       /\ dramReadWordQ'[c + 1] = x
  <2>1. mem \in [MemCells -> Cells] /\ dramReadWordQ \in Seq(Cells)
    BY DEF TypeInv, MemoryTypes, WriteTypes
  <2>2. x \in Cells
    BY <1>9, <2>1
  <2> QED  BY <1>2, <2>1, <2>2, PutIn
<1>12. Wanted(r, m)' = Wanted(r, m) /\ Handed(r, m)' = h /\ Fetching(m)' = b
  <2>1. Wanted(r, m)' = Wanted(r, m) /\ Fetching(m)' = b
    BY <1>2 DEF Wanted, Fetching, cmdVars
  <2> QED  BY <1>2, <2>1 DEF Handed
<1>13. Fetched(r, m)' = n
  <2>1. Fetched(r, m)' = h + (c + 1)
    BY <1>11, <1>12 DEF Fetched
  <2> QED  BY <1>6, <1>11, <2>1
<1>14. FromBursts(r, Fetching(m), Fetched(r, m))'
  <2>1. dramRead'.left = dramRead.left - 1 /\ dramRead'.at = dramRead.at + 1
    BY <1>2
  <2>2. n = E(r, b) - dramRead'.left
    BY <1>6, <1>8, <1>9, <2>1, SMTT(40)
  <2>3. dramRead'.at = s + n
    BY <1>6, <1>8, <1>10, <2>1
  <2>4. b \in Nat /\ \A k \in 1 .. Len(dramReadWordCntQ') : dramReadWordCntQ'[k] = BurstOf(r, b + (k - 1))
    BY <1>2, <1>7 DEF FromBursts
  <2> QED  BY <1>12, <1>13, <2>2, <2>3, <2>4 DEF FromBursts
<1>15. FromWords(r, Handed(r, m))'
  <2> SUFFICES ASSUME NEW k \in 1 .. c + 1 PROVE dramReadWordQ'[k] = mem[s + h + (k - 1)]
    BY <1>2, <1>11, <1>12 DEF FromWords
  <2>1. CASE k \in 1 .. c
    BY <1>7, <1>11, <2>1 DEF FromWords
  <2>2. CASE k = c + 1
    <3>2. s \in Nat /\ h \in Nat /\ c \in Nat /\ f = h + c
      BY <1>6, <1>10, <1>11
    <3>1. s + h + (k - 1) = s + f
      BY ONLY <2>2, <3>2
    <3> QED  BY <1>8, <1>11, <2>2, <3>1
  <2> QED  BY <1>11, <2>1, <2>2
<1>16. FromAsks(r, m, Wanted(r, m))'
  BY <1>2, <1>4, <1>12 DEF FromInv, FromAsks, cmdVars
<1>17. FromRequests(r, Handed(r, m))'
  BY <1>2, <1>4, <1>12 DEF FromInv, FromRequests
<1> QED  BY <1>1, <1>2, <1>3, <1>4, <1>12, <1>14, <1>15, <1>16, <1>17, FromMoves DEF cmdVars

-----------------------------------------------------------------------------
(* A cell is in one chunk.                                                 *)
LEMMA OneChunk ==
  ASSUME NEW r, r.len \in Nat, NEW i \in Nat, i < Passes(r), NEW j \in Nat, j < Passes(r),
         NEW x \in Nat, E(r, i) <= x, x < E(r, i + 1), E(r, j) <= x, x < E(r, j + 1)
  PROVE  i = j
<1>1. /\ E(r, i) \in Nat /\ E(r, i + 1) \in Nat
  BY EdgeFacts
<1>2. E(r, j) \in Nat /\ E(r, j + 1) \in Nat
  BY EdgeFacts
<1>3. CASE i < j
  <2>1. E(r, i + 1) <= E(r, j)
    BY <1>3, Later
  <2> QED  BY <1>1, <1>2, <2>1
<1>4. CASE j < i
  <2>1. E(r, j + 1) <= E(r, i)
    BY <1>4, Later
  <2> QED  BY <1>1, <1>2, <2>1
<1> QED  BY <1>3, <1>4

LEMMA BusyGenPcieDmaWrite ==
  ASSUME TypeInv, NEW t, t = mutex, mutex # None, NEW r, r = call[t].req, BusyFor(t, r), genPcieDmaWrite
  PROVE  BusyFor(t, r)'
<1>1. CountInv(t)
  BY DEF BusyFor
<1> PICK v : v = memWriteLeft
  OBVIOUS
<1> PICK o : o = hostMemOff
  OBVIOUS
<1> PICK q : q = [addr |-> o, last |-> v = 1]
  OBVIOUS
<1>2. /\ v > 0 /\ pcieWriteReqQ' = Append(pcieWriteReqQ, q) /\ memWriteLeft' = v - 1
      /\ hostMemOff' = IF v > 1 THEN o + 1 ELSE o
      /\ UNCHANGED <<hostVars, linkVars, hostMemTemp, fpgaMemTemp, dmaCmdQ, memReadLeft, toVars,
                     dramReadWordCntQ, dramRead, dramReadWordQ, doneVars, dmabuf, mem>>
  BY DEF genPcieDmaWrite
<1>3. PICK m \in Nat : /\ CommandInv(t, r, m) /\ r.op = "from"
                       /\ \E l \in Nat : FromInv(t, r, m, l)
  <2>1. PICK m \in Nat : /\ CommandInv(t, r, m)
                         /\ \/ r.op = "to" /\ ToInv(t, r, m)
                            \/ r.op = "from" /\ \E l \in Nat : FromInv(t, r, m, l)
    BY DEF BusyFor
  <2>2. ASSUME ToInv(t, r, m) PROVE FALSE
    BY <1>2, <2>2 DEF ToInv, FromQuiet
  <2> QED  BY <2>1, <2>2
<1>4. PICK l \in Nat : FromInv(t, r, m, l)
  BY <1>3
<1>5. FromSteps(t, m) /\ FromSizes /\ FromCells(r, m) /\ FromRoom(t, r, m, l)
  BY <1>1, <1>3, <1>4, FromNumbers
<1> PICK j : j = m - 1
  OBVIOUS
<1> PICK x : x = Wanted(r, m)
  OBVIOUS
<1> PICK y : y = x + 1
  OBVIOUS
<1> PICK h : h = Handed(r, m)
  OBVIOUS
<1> PICK c : c = Len(pcieWriteReqQ)
  OBVIOUS
<1> PICK e : e = E(r, m)
  OBVIOUS
<1>6. x \in Nat /\ h \in Nat /\ h = x - c /\ e \in Nat /\ x = e - v
  BY <1>5 DEF FromCells
<1>7. m > 0 /\ v <= e - E(r, j) /\ o = Place(x)
  BY <1>2, <1>4 DEF FromInv, FromAsks
<1>8. j \in Nat /\ m = j + 1 /\ r.len \in Nat /\ Passes(r) \in Nat /\ j < Passes(r)
  <2>1. m <= Given(t) /\ Given(t) \in Nat
    BY <1>5 DEF FromSteps
  <2>2. Given(t) <= Passes(r) /\ Passes(r) \in Nat /\ r.len \in Nat
    BY Busy, Holder
  <2> QED  BY <1>7, <2>1, <2>2
<1>9. E(r, j) \in Nat /\ v \in Nat
  BY <1>5, <1>8, EdgeFacts DEF FromSizes
<1>10. E(r, j) <= x /\ x < e
  <2>1. v > 0
    BY <1>2
  <2> PICK a : a = E(r, j)
    OBVIOUS
  <2>2. x \in Nat /\ e \in Nat /\ x = e - v /\ v <= e - a /\ a \in Nat /\ v \in Nat
    BY <1>6, <1>7, <1>9
  <2>3. a <= x /\ x < e
    BY ONLY <2>1, <2>2
  <2> QED  BY <2>3
<1>19. x \in Nat /\ h \in Nat /\ h = x - c /\ e \in Nat /\ x = e - v /\ v \in Nat
  BY <1>6, <1>9
<1>11. /\ Len(pcieWriteReqQ') = c + 1 /\ c \in Nat
       /\ \A k \in 1 .. c : pcieWriteReqQ'[k] = pcieWriteReqQ[k]
       /\ pcieWriteReqQ'[c + 1] = q
  <2>1. pcieWriteReqQ \in Seq(WriteRequest)
    BY DEF TypeInv, WriteTypes
  <2>2. q \in WriteRequest
    <3>1. Place(x) \in BufCells
      BY <1>6, Places
    <3> QED  BY <1>7, <3>1 DEF WriteRequest
  <2> QED  BY <1>2, <2>1, <2>2, PutIn
<1>12. Wanted(r, m)' = y /\ Fetching(m)' = Fetching(m)
  <2>1. Wanted(r, m)' = e - (v - 1)
    BY <1>2 DEF Wanted
  <2>2. e - (v - 1) = y
    BY <1>6, <1>9
  <2> QED  BY <1>2, <2>1, <2>2 DEF Fetching
<1>13. Handed(r, m)' = h
  <2>1. Handed(r, m)' = y - (c + 1)
    BY <1>11, <1>12 DEF Handed
  <2>2. y - (c + 1) = h
    BY <1>6, <1>11
  <2> QED  BY <2>1, <2>2
<1>14. Fetched(r, m)' = Fetched(r, m)
  BY <1>2, <1>13 DEF Fetched
<1>15. FromAsks(r, m, Wanted(r, m))'
  <2> SUFFICES ASSUME memWriteLeft' > 0
               PROVE  m > 0 /\ memWriteLeft' <= E(r, m) - E(r, m - 1) /\ hostMemOff' = Place(y)
    BY <1>12 DEF FromAsks
  <2>1. memWriteLeft' = v - 1 /\ v > 1
    BY <1>2, <1>9
  <2>2. hostMemOff' = Place(x) + 1
    BY <1>2, <1>7, <2>1
  <2>3. y < e
    BY <1>6, <1>9, <2>1, SMTT(40)
  <2>4. Place(y) = Place(x) + 1
    <3>1. y < E(r, j + 1)
      BY <1>8, <2>3
    <3>2. x \in Nat /\ E(r, j) <= x
      BY <1>6, <1>10
    <3> QED  BY ONLY <1>8, <3>1, <3>2, y = x + 1, PlaceOn
  <2>5. memWriteLeft' <= e - E(r, j)
    <3> PICK a : a = E(r, j)
      OBVIOUS
    <3>1. v <= e - a /\ a \in Nat
      BY <1>7, <1>9
    <3>2. v - 1 <= e - a
      BY ONLY <1>19, <3>1
    <3> QED  BY <2>1, <3>2
  <2> QED  BY <1>7, <2>2, <2>4, <2>5
<1>16. FromRequests(r, Handed(r, m))'
  <2>1. ASSUME NEW k \in 1 .. c + 1
        PROVE  /\ pcieWriteReqQ'[k].addr = Place(h + (k - 1))
               /\ \A i \in 0 .. Passes(r) - 1 :
                    h + (k - 1) \in E(r, i) .. E(r, i + 1) - 1 =>
                      (pcieWriteReqQ'[k].last <=> h + k = E(r, i + 1))
    <3>1. CASE k \in 1 .. c
      BY <1>4, <1>11, <3>1 DEF FromInv, FromRequests
    <3>2. CASE k = c + 1
      <4>1. h + (k - 1) = x /\ h + k = y
        <5>1. c \in Nat
          BY <1>11
        <5> QED  BY ONLY <1>19, <3>2, <5>1, y = x + 1
      <4>2. pcieWriteReqQ'[k] = q /\ q.addr = o /\ (q.last <=> v = 1)
        <5>1. pcieWriteReqQ'[k] = q
          BY <1>11, <3>2
        <5>2. q.addr = o /\ (q.last <=> v = 1)
          BY ONLY q = [addr |-> o, last |-> v = 1]
        <5> QED  BY <5>1, <5>2
      <4>3. ASSUME NEW i \in 0 .. Passes(r) - 1, x \in E(r, i) .. E(r, i + 1) - 1
            PROVE  v = 1 <=> y = E(r, i + 1)
        <5>1. i \in Nat /\ i < Passes(r)
          BY <1>8, <4>3
        <5>2. E(r, i) \in Nat /\ E(r, i + 1) \in Nat
          BY <1>8, <5>1, EdgeFacts
        <5>3. E(r, i) <= x /\ x < E(r, i + 1)
          BY <1>6, <4>3, <5>2, SMTT(40)
        <5>4. x < E(r, j + 1)
          BY <1>8, <1>10
        <5>5. i = j
          BY <1>6, <1>8, <1>10, <5>1, <5>3, <5>4, OneChunk
        <5>6. E(r, i + 1) = e
          BY <1>8, <5>5
        <5>7. v = 1 <=> y = e
          BY ONLY <1>19, y = x + 1
        <5> QED  BY <5>6, <5>7
      <4> QED  BY <1>7, <4>1, <4>2, <4>3
    <3> QED  BY <1>11, <3>1, <3>2
  <2>2. FromRequests(r, h)'
    BY <1>11, <2>1 DEF FromRequests
  <2> QED  BY <1>13, <2>2
<1>17. FromBursts(r, Fetching(m), Fetched(r, m))'
  BY <1>2, <1>4, <1>12, <1>14 DEF FromInv, FromBursts
<1>18. FromWords(r, Handed(r, m))'
  BY <1>2, <1>4, <1>13 DEF FromInv, FromWords
<1> QED  BY <1>1, <1>2, <1>3, <1>4, <1>13, <1>15, <1>16, <1>17, <1>18, FromMoves

LEMMA BusySendPcieDmaWrite ==
  ASSUME TypeInv, NEW t, t = mutex, mutex # None, NEW r, r = call[t].req, BusyFor(t, r), sendPcieDmaWrite
  PROVE  BusyFor(t, r)'
<1>1. CountInv(t)
  BY DEF BusyFor
<1> PICK w : w = Head(pcieWriteReqQ)
  OBVIOUS
<1> PICK z : z = [addr |-> w.addr, cell |-> Head(dramReadWordQ)]
  OBVIOUS
<1>2. /\ pcieWriteReqQ # <<>> /\ dramReadWordQ # <<>>
      /\ up' = Append(up, z)
      /\ pcieWriteReqQ' = Tail(pcieWriteReqQ) /\ dramReadWordQ' = Tail(dramReadWordQ)
      /\ readDoneCount' = IF w.last THEN readDoneCount + 1 ELSE readDoneCount
      /\ UNCHANGED <<hostVars, down, cmdVars, toVars, dramReadWordCntQ, dramRead,
                     writeDoneCount, dmabuf, mem>>
  BY DEF sendPcieDmaWrite
<1>3. PICK m \in Nat : /\ CommandInv(t, r, m) /\ r.op = "from"
                       /\ \E l \in Nat : FromInv(t, r, m, l)
  <2>1. PICK m \in Nat : /\ CommandInv(t, r, m)
                         /\ \/ r.op = "to" /\ ToInv(t, r, m)
                            \/ r.op = "from" /\ \E l \in Nat : FromInv(t, r, m, l)
    BY DEF BusyFor
  <2>2. ASSUME ToInv(t, r, m) PROVE FALSE
    BY <1>2, <2>2 DEF ToInv, FromQuiet
  <2> QED  BY <2>1, <2>2
<1>4. PICK l \in Nat : FromInv(t, r, m, l)
  BY <1>3
<1>5. FromSteps(t, m) /\ FromSizes /\ FromCells(r, m) /\ FromRoom(t, r, m, l)
  BY <1>1, <1>3, <1>4, FromNumbers
<1> PICK h : h = Handed(r, m)
  OBVIOUS
<1> PICK n : n = h + 1
  OBVIOUS
<1> PICK e : e = Done(t)
  OBVIOUS
<1> PICK x : x = Wanted(r, m)
  OBVIOUS
<1> PICK c : c = Len(pcieWriteReqQ)
  OBVIOUS
<1> PICK u : u = Len(dramReadWordQ)
  OBVIOUS
<1> PICK s : s = Start(r)
  OBVIOUS
<1> PICK p : p = Passes(r)
  OBVIOUS
<1>6. x \in Nat /\ h \in Nat /\ h = x - c /\ Fetched(r, m) = h + u
  BY <1>5 DEF FromCells
<1>41. h \in Nat /\ x \in Nat
  BY <1>6
<1>42. n \in Nat /\ n = h + 1
  BY ONLY <1>41, n = h + 1
<1>43. s \in Nat
  <2>1. r \in Calls
    BY Holder
  <2>2. FirstPage(r.at) \in Nat /\ PageCells \in Nat
    BY <2>1, ACall, Sizes
  <2> QED  BY <2>2 DEF Start
<1>7. E(r, m) \in Nat /\ x <= E(r, m)
  <2>1. E(r, m) \in Nat /\ x = E(r, m) - memWriteLeft /\ memWriteLeft \in Nat
    BY <1>5 DEF FromCells, FromSizes
  <2> QED  BY <1>6, <2>1, SMTT(40)
<1>8. e \in Nat /\ e <= m /\ m <= Given(t)
  BY <1>5 DEF FromSteps
<1>9. r.len \in Nat /\ p \in Nat /\ Given(t) \in Nat /\ Given(t) <= p
  BY Busy, Holder
<1>10. m <= p
  BY <1>8, <1>9
<1>11. FromWords(r, h) /\ FromDone(r, h, e) /\ FromRequests(r, h) /\ FromLink(r, l, h)
  BY <1>4 DEF FromInv
<1>12. /\ Len(pcieWriteReqQ') = c - 1 /\ c \in Nat \ {0} /\ w = pcieWriteReqQ[1] /\ w \in WriteRequest
       /\ \A k \in 1 .. c - 1 : pcieWriteReqQ'[k] = pcieWriteReqQ[k + 1]
  <2>1. pcieWriteReqQ \in Seq(WriteRequest)
    BY DEF TypeInv, WriteTypes
  <2> QED  BY <1>2, <2>1, TakenOut
<1>13. /\ Len(dramReadWordQ') = u - 1 /\ u \in Nat \ {0} /\ Head(dramReadWordQ) = dramReadWordQ[1]
       /\ Head(dramReadWordQ) \in Cells
       /\ \A k \in 1 .. u - 1 : dramReadWordQ'[k] = dramReadWordQ[k + 1]
  <2>1. dramReadWordQ \in Seq(Cells)
    BY DEF TypeInv, WriteTypes
  <2> QED  BY <1>2, <2>1, TakenOut
<1>14. w.addr = Place(h) /\ \A j \in 0 .. p - 1 : h \in E(r, j) .. E(r, j + 1) - 1 => (w.last <=> n = E(r, j + 1))
  <2>1. h + (1 - 1) = h /\ h + 1 = n /\ 1 \in 1 .. c
    BY <1>6, <1>12
  <2>2. /\ pcieWriteReqQ[1].addr = Place(h + (1 - 1))
        /\ \A j \in 0 .. p - 1 :
             h + (1 - 1) \in E(r, j) .. E(r, j + 1) - 1 =>
               (pcieWriteReqQ[1].last <=> h + 1 = E(r, j + 1))
    BY <1>11, <2>1 DEF FromRequests
  <2> QED  BY <1>12, <2>1, <2>2
<1>15. z.cell = mem[s + h] /\ z.addr = Place(h) /\ z \in LinkWord /\ "addr" \in DOMAIN z /\ "count" \notin DOMAIN z
  <2>1. Head(dramReadWordQ) = mem[s + h + (1 - 1)]
    BY <1>11, <1>13 DEF FromWords
  <2>2. s + h + (1 - 1) = s + h
    BY <1>41, <1>43
  <2>3. Place(h) \in BufCells
    BY <1>6, Places
  <2>4. z.addr = Place(h) /\ z.cell = Head(dramReadWordQ)
    BY <1>14
  <2>5. DOMAIN z = {"addr", "cell"}
    OBVIOUS
  <2>6. z \in LinkWord
    BY <1>13, <1>14, <2>3 DEF LinkWord
  <2> QED  BY <2>1, <2>2, <2>4, <2>5, <2>6
<1>16. E(r, e) \in Nat /\ E(r, e + 1) \in Nat /\ E(r, e) <= h /\ (e < p => h < E(r, e + 1))
  <2>1. E(r, e) \in Nat /\ E(r, e + 1) \in Nat
    BY <1>8, <1>9, EdgeFacts
  <2> QED  BY <1>11, <2>1 DEF FromDone
<1>17. h < E(r, m) /\ n <= E(r, m)
  BY <1>6, <1>7, <1>12, SMTT(40)
<1>18. e < m
  <2> SUFFICES ASSUME e = m PROVE FALSE
    BY <1>8
  <2> QED  BY <1>6, <1>16, <1>17, SMTT(40)
<1>19. e < p /\ h < E(r, e + 1)
  BY <1>8, <1>9, <1>10, <1>16, <1>18
<1>20. w.last <=> n = E(r, e + 1)
  <2>1. e \in 0 .. p - 1
    <3>1. e \in Nat /\ p \in Nat /\ e < p
      BY <1>8, <1>9, <1>19
    <3> QED  BY ONLY <3>1
  <2>2. h \in E(r, e) .. E(r, e + 1) - 1
    <3> PICK a : a = E(r, e)
      OBVIOUS
    <3> PICK b : b = E(r, e + 1)
      OBVIOUS
    <3>1. a \in Nat /\ b \in Nat /\ a <= h /\ h < b
      BY <1>16, <1>19
    <3>2. h \in a .. b - 1
      BY ONLY <1>41, <3>1
    <3> QED  BY <3>2
  <2> QED  BY <1>14, <2>1, <2>2
<1> PICK d : d = IF w.last THEN 1 ELSE 0
  OBVIOUS
<1> PICK f : f = e + d
  OBVIOUS
<1>21. d \in Nat /\ f \in Nat /\ f <= m
  BY <1>8, <1>18
<1>22. FromDone(r, n, f)
  <2>1. CASE w.last
    <3>1. f = e + 1 /\ n = E(r, f)
      BY <1>20, <2>1
    <3>2. f < p => n < E(r, f + 1)
      BY <1>9, <1>21, <3>1, EdgeFacts, ZenonT(80)
    <3>3. n >= 0 /\ E(r, f) <= n
      BY <1>42, <3>1
    <3> QED  BY <3>2, <3>3 DEF FromDone
  <2>2. CASE ~w.last
    <3>1. f = e /\ n # E(r, e + 1)
      BY <1>8, <1>20, <2>2
    <3> PICK a : a = E(r, e)
      OBVIOUS
    <3> PICK b : b = E(r, e + 1)
      OBVIOUS
    <3>4. a \in Nat /\ b \in Nat /\ a <= h /\ h < b /\ n # b
      BY <1>16, <1>19, <3>1
    <3>5. n >= 0 /\ a <= n /\ n < b
      BY ONLY <1>41, <1>42, <3>4
    <3>2. n >= 0 /\ E(r, e) <= n /\ n < E(r, e + 1)
      BY <3>5
    <3> QED  BY <3>1, <3>2 DEF FromDone
  <2> QED  BY <2>1, <2>2
<1>23. Count(t)' = Count(t) + d
  <2>1. Count(t) = readDoneCount /\ inst = "ready" /\ inst' = inst /\ call' = call /\ readDoneCount \in Nat
    <3>1. readDoneCount \in Nat
      BY DEF TypeInv, MemoryTypes
    <3> QED  BY <1>2, <1>3, <3>1, Busy DEF hostVars
  <2>2. Count(t)' = readDoneCount'
    BY <1>3, <2>1 DEF Count, ToFpga
  <2> QED  BY <1>2, <2>1, <2>2
<1>24. /\ up \in Seq(LinkWord) /\ Len(up') = Len(up) + 1 /\ Len(up) \in Nat
       /\ \A k \in 1 .. Len(up) : up'[k] = up[k]
       /\ up'[Len(up) + 1] = z
  <2>1. up \in Seq(LinkWord)
    BY DEF TypeInv, LinkTypes
  <2> QED  BY <1>2, <1>15, <2>1, PutIn
<1>25. /\ CountInv(t)' /\ Done(t)' = f /\ Given(t)' = Given(t) /\ Filling(t)' = Filling(t)
  <2>1. \A k \in 1 .. Len(up') : Answer(k)' => up'[k].count \in Nat /\ up'[k].count <= Count(t)
    <3> TAKE k \in 1 .. Len(up')
    <3> HAVE Answer(k)'
    <3>1. k \in 1 .. Len(up)
      <4>1. k # Len(up) + 1
        BY <1>15, <1>24 DEF Answer
      <4> QED  BY <1>24, <4>1
    <3>2. Answer(k) /\ up'[k] = up[k]
      BY <1>24, <3>1 DEF Answer
    <3>3. up[k].count <= Count(t)
      BY <1>1, <3>1, <3>2 DEF CountInv
    <3> QED  BY <3>1, <3>2, <3>3, AnswersTyped
  <2>2. UNCHANGED hostVars
    BY <1>2
  <2> QED  BY <1>1, <1>21, <1>23, <2>1, <2>2, CountGrows
<1>26. CommandInv(t, r, m)'
  <2>1. Done(t)' <= m
    BY <1>21, <1>25
  <2>2. pc' = pc /\ call' = call
    BY <1>2 DEF hostVars
  <2> QED  BY <1>2, <1>3, <1>25, <2>1, <2>2, CommandKept DEF cmdVars
<1>27. Wanted(r, m)' = x /\ Fetching(m)' = Fetching(m)
  BY <1>2 DEF Wanted, Fetching, cmdVars
<1>28. Handed(r, m)' = n
  <2>1. Handed(r, m)' = x - (c - 1)
    BY <1>12, <1>27 DEF Handed
  <2>2. x - (c - 1) = n
    BY <1>6, <1>12
  <2> QED  BY <2>1, <2>2
<1>29. Fetched(r, m)' = Fetched(r, m)
  <2>1. Fetched(r, m)' = n + (u - 1)
    BY <1>13, <1>28 DEF Fetched
  <2>2. n + (u - 1) = h + u
    BY <1>6, <1>13
  <2> QED  BY <1>6, <2>1, <2>2
<1>30. FromWords(r, n)'
  <2> SUFFICES ASSUME NEW k \in 1 .. u - 1 PROVE dramReadWordQ'[k] = mem[s + n + (k - 1)]
    BY <1>2, <1>13 DEF FromWords
  <2> PICK i : i = k + 1
    OBVIOUS
  <2>1. i \in 1 .. u /\ dramReadWordQ'[k] = dramReadWordQ[i]
    BY <1>13
  <2>2. dramReadWordQ[i] = mem[s + h + (i - 1)]
    BY <1>11, <2>1 DEF FromWords
  <2>3. s + h + (i - 1) = s + n + (k - 1)
    BY ONLY <1>41, <1>42, <1>43, <2>1, i = k + 1, k \in 1 .. u - 1
  <2> QED  BY <2>1, <2>2, <2>3
<1>31. FromRequests(r, n)'
  <2>1. ASSUME NEW k \in 1 .. c - 1
        PROVE  /\ pcieWriteReqQ'[k].addr = Place(n + (k - 1))
               /\ \A i \in 0 .. p - 1 :
                    n + (k - 1) \in E(r, i) .. E(r, i + 1) - 1 =>
                      (pcieWriteReqQ'[k].last <=> n + k = E(r, i + 1))
    <3> PICK a : a = k + 1
      OBVIOUS
    <3>1. a \in 1 .. c /\ pcieWriteReqQ'[k] = pcieWriteReqQ[a]
      BY <1>12
    <3>2. h + (a - 1) = n + (k - 1) /\ h + a = n + k
      BY ONLY <1>41, <1>42, a = k + 1, k \in 1 .. c - 1
    <3>3. /\ pcieWriteReqQ[a].addr = Place(h + (a - 1))
          /\ \A i \in 0 .. p - 1 :
                h + (a - 1) \in E(r, i) .. E(r, i + 1) - 1 =>
                  (pcieWriteReqQ[a].last <=> h + a = E(r, i + 1))
      BY <1>11, <3>1 DEF FromRequests
    <3> QED  BY <3>1, <3>2, <3>3
  <2> QED  BY <1>12, <2>1 DEF FromRequests
<1>32. FromLink(r, l, n)'
  <2> DEFINE M == LandMoves(r)
  <2>1. M' = M
    BY <1>2 DEF LandMoves, hostVars
  <2>2. <<h, z, n>> \in M
    BY <1>15, <1>41, <1>42 DEF LandMoves
  <2>3. Path(Nat, up, l, h, M)
    BY <1>11 DEF FromLink
  <2> HIDE DEF M
  <2>4. n \in Nat
    BY <1>42
  <2>5. Path(Nat, up', l, n, M)
    BY <1>2, <1>15, <1>24, <2>2, <2>3, <2>4, PathAppend
  <2> QED  BY <2>1, <2>5 DEF FromLink, M
<1>33. FromBursts(r, Fetching(m), Fetched(r, m))'
  BY <1>2, <1>4, <1>27, <1>29 DEF FromInv, FromBursts
<1>34. FromAsks(r, m, Wanted(r, m))'
  BY <1>2, <1>4, <1>27 DEF FromInv, FromAsks, cmdVars
<1>35. ToQuiet'
  <2>1. issued' = issued
    BY <1>2 DEF hostVars
  <2> QED  BY <1>2, <1>4, <2>1, QuietToSame DEF FromInv, cmdVars
<1>36. call' = call /\ pc' = pc /\ user' = user
  BY <1>2 DEF hostVars
<1>37. FromLanded(t, l)'
  BY <1>4, <1>36, LandedSame DEF FromInv
<1>38. FromBuffer(r, l)'
  BY <1>2, <1>4 DEF FromInv, FromBuffer
<1>39. FromUser(t)'
  BY <1>2, <1>4, <1>36, UserSame DEF FromInv
<1>40. FromInv(t, r, m, l)'
  <2>1. /\ FromWords(r, Handed(r, m))' /\ FromDone(r, Handed(r, m), Done(t))'
        /\ FromRequests(r, Handed(r, m))' /\ FromLink(r, l, Handed(r, m))'
    <3>1. FromDone(r, Handed(r, m), Done(t))'
      BY <1>22, <1>25, <1>28 DEF FromDone
    <3> QED  BY <1>28, <1>30, <1>31, <1>32, <3>1
  <2> QED  BY <1>33, <1>34, <1>35, <1>37, <1>38, <1>39, <2>1 DEF FromInv
<1> QED  BY <1>3, <1>25, <1>26, <1>40 DEF BusyFor

-----------------------------------------------------------------------------
(* A copy ends: its commands have been done, and nothing is under way.     *)
LEMMA NoneInCall == None \notin Threads
  BY HostDmaAssumption

LEMMA HostWaits == Move => UNCHANGED hostVars
BY DEF Move, ToStep, FromStep, getCmd, procCmd, sendDMARead, MemoryRead, getDMARead, dramStartBurst,
   relayDRAMWriteBurst, startDRAMRead, relayDRAMWord, genPcieDmaWrite, sendPcieDmaWrite

LEMMA BusyMove ==
  ASSUME TypeInv, NEW t, t = mutex, mutex # None, NEW r, r = call[t].req, BusyFor(t, r), Move
  PROVE  BusyFor(t, r)'
<1>2. CASE getCmd
  BY <1>2, BusyGetCmd
<1>3. CASE procCmd
  BY <1>3, BusyProcCmd
<1>4. CASE ToStep
  <2>1. CASE sendDMARead
    BY <2>1, BusySendDMARead
  <2>2. ASSUME NEW k \in DOMAIN reads, MemoryRead(k) PROVE BusyFor(t, r)'
    BY <2>2, BusyMemoryRead
  <2>3. CASE getDMARead
    BY <2>3, BusyGetDMARead
  <2>4. CASE dramStartBurst
    BY <2>4, BusyDramStartBurst
  <2>5. CASE relayDRAMWriteBurst
    BY <2>5, BusyRelayDRAMWriteBurst
  <2> QED  BY <1>4, <2>1, <2>2, <2>3, <2>4, <2>5 DEF ToStep
<1>5. CASE FromStep
  <2>1. CASE startDRAMRead
    BY <2>1, BusyStartDRAMRead
  <2>2. CASE relayDRAMWord
    BY <2>2, BusyRelayDRAMWord
  <2>3. CASE genPcieDmaWrite
    BY <2>3, BusyGenPcieDmaWrite
  <2>4. CASE sendPcieDmaWrite
    BY <2>4, BusySendPcieDmaWrite
  <2> QED  BY <1>5, <2>1, <2>2, <2>3, <2>4 DEF FromStep
<1> QED  BY <1>2, <1>3, <1>4, <1>5 DEF Move

LEMMA OnlyHolder ==
  ASSUME TypeInv, NEW s \in Threads, pc[s] \notin {"idle", "lock"}, inst = "ready"
  PROVE  s = mutex /\ mutex # None
BY NoneInCall DEF TypeInv, Alone

(* The copy has seen all of its commands done.                             *)
LEMMA AllSeen ==
  ASSUME TypeInv, NEW t, t = mutex, mutex # None, CountInv(t), pc[t] = "seen", call[t].i = call[t].n
  PROVE  /\ Given(t) = call[t].n /\ Done(t) >= Given(t)
         /\ Done(t) = Given(t) => call[t].seen = Total(t) + Given(t)
<1> PICK n : n = call[t].n
  OBVIOUS
<1> PICK c : c = Count(t)
  OBVIOUS
<1> PICK s : s = Total(t)
  OBVIOUS
<1> PICK v : v = call[t].seen
  OBVIOUS
<1>1. n \in Nat /\ c \in Nat /\ s \in Nat /\ v \in Nat
  <2>1. call[t] \in Local
    BY Busy
  <2> QED  BY <2>1, Busy DEF Local
<1>2. Given(t) = n
  <2>1. Given(t) = Least(n + 1, n)
    BY DEF Given, InLoop
  <2> QED  BY <1>1, <2>1 DEF Least
<1>3. s + n <= v /\ v <= c
  BY DEF CountInv, Target, Awaited
<1>4. Done(t) = c - s
  BY DEF Done
<1>5. c - s >= n /\ (c - s = n => v = s + n)
  BY ONLY <1>1, <1>3
<1> QED  BY <1>2, <1>4, <1>5

QuietNow ==
  /\ ToQuiet /\ FromQuiet /\ dmaCmdQ = <<>> /\ \A k \in 1 .. Len(down) : ~IsCommand(k)

(* What a copy that is done with its commands leaves.                      *)
LEMMA LeavesQuiet ==
  ASSUME TypeInv, NEW t, t = mutex, mutex # None, NEW r, r = call[t].req, BusyFor(t, r), Done(t) >= Given(t)
  PROVE  /\ QuietNow /\ Done(t) = Given(t)
         /\ r.op = "to" => issued.to = wTotal + Given(t) /\ rTotal = issued.from
         /\ r.op = "from" => issued.from = rTotal + Given(t) /\ wTotal = issued.to
         /\ r.op \in {"to", "from"}
<1>1. PICK m \in Nat : /\ CommandInv(t, r, m)
                       /\ \/ r.op = "to" /\ ToInv(t, r, m)
                          \/ r.op = "from" /\ \E l \in Nat : FromInv(t, r, m, l)
  BY DEF BusyFor
<1>2. CountInv(t)
  BY DEF BusyFor
<1>3. CASE r.op = "to" /\ ToInv(t, r, m)
  BY <1>1, <1>2, <1>3, ToDone DEF QuietNow
<1>4. CASE r.op = "from" /\ \E l \in Nat : FromInv(t, r, m, l)
  BY <1>1, <1>2, <1>4, FromFinished DEF QuietNow
<1> QED  BY <1>1, <1>3, <1>4

LEMMA NothingInLink ==
  ASSUME TypeInv, NEW t, t = mutex, mutex # None, NEW r, r = call[t].req, BusyFor(t, r),
         pc[t] = "seen", call[t].i = call[t].n
  PROVE  up = <<>>
<1>1. CountInv(t)
  BY DEF BusyFor
<1>2. up \in Seq(LinkWord) /\ Len(up) \in Nat
  <2>1. up \in Seq(LinkWord)
    BY DEF TypeInv, LinkTypes
  <2> QED  BY <2>1, LenProperties
<1>3. \A k \in 1 .. Len(up) : ~Answer(k)
  BY Busy
<1>4. SUFFICES \A k \in 1 .. Len(up) : Answer(k)
  <2>1. ASSUME \A k \in 1 .. Len(up) : Answer(k) PROVE Len(up) = 0
    BY <1>2, <1>3, <2>1
  <2> QED  BY <1>2, <2>1, EmptySeq
<1>5. PICK m \in Nat : /\ CommandInv(t, r, m)
                       /\ \/ r.op = "to" /\ ToInv(t, r, m)
                          \/ r.op = "from" /\ \E l \in Nat : FromInv(t, r, m, l)
  BY DEF BusyFor
<1>6. CASE r.op = "to" /\ ToInv(t, r, m)
  BY <1>6 DEF ToInv
<1>7. ASSUME r.op = "from", NEW l \in Nat, FromInv(t, r, m, l) PROVE \A k \in 1 .. Len(up) : Answer(k)
  <2>1. Given(t) = call[t].i /\ Done(t) >= Given(t)
    BY <1>1, AllSeen
  <2>2. Handed(r, m) = E(r, call[t].i)
    BY <1>1, <1>5, <1>7, <2>1, FromFinished
  <2>3. E(r, call[t].i) <= l
    BY <1>7 DEF FromInv, FromLanded
  <2>4. FromLink(r, l, Handed(r, m))
    BY <1>7 DEF FromInv
  <2>5. l <= Handed(r, m) /\ Handed(r, m) \in Nat
    BY <1>2, <2>4, CellsCount
  <2>6. l = Handed(r, m)
    BY <2>2, <2>3, <2>5
  <2> QED  BY <1>2, <2>4, <2>6, CellsCount
<1> QED  BY <1>5, <1>6, <1>7

LEMMA QuietKept ==
  ASSUME QuietNow, UNCHANGED <<down, cmdVars, toVars, fromVars, doneVars, issued>>
  PROVE  QuietNow'
BY DEF QuietNow, ToQuiet, FromQuiet, IsCommand, cmdVars, toVars, fromVars, doneVars

LEMMA QuietReturn ==
  ASSUME TypeInv, NEW t, t = mutex, mutex # None, NEW r, r = call[t].req, BusyFor(t, r), Return(t)
  PROVE  Inv'
<1>1. /\ pc[t] = "seen" /\ call[t].i = call[t].n /\ mutex' = None
      /\ UNCHANGED <<inst, issued, linkVars, cmdVars, toVars, fromVars, doneVars>>
      /\ IF r.op = "to" THEN wTotal' = call[t].seen /\ rTotal' = rTotal
         ELSE rTotal' = call[t].seen /\ wTotal' = wTotal
  BY DEF Return
<1>2. inst = "ready"
  BY Busy
<1>3. Given(t) = call[t].n /\ Done(t) >= Given(t) /\ (Done(t) = Given(t) => call[t].seen = Total(t) + Given(t))
  BY <1>1, AllSeen DEF BusyFor
<1>4. /\ QuietNow /\ Done(t) = Given(t)
      /\ r.op = "to" => issued.to = wTotal + Given(t) /\ rTotal = issued.from
      /\ r.op = "from" => issued.from = rTotal + Given(t) /\ wTotal = issued.to
      /\ r.op \in {"to", "from"}
  BY <1>3, LeavesQuiet
<1>5. up = <<>>
  BY <1>1, NothingInLink
<1>6. wTotal' = issued.to /\ rTotal' = issued.from
  BY <1>1, <1>3, <1>4 DEF Total
<1>7. QuietNow'
  BY <1>1, <1>4, QuietKept DEF linkVars
<1>8. QuietInv'
  BY <1>1, <1>2, <1>5, <1>6, <1>7 DEF QuietInv, QuietNow, linkVars
<1>9. BusyInv'
  BY <1>1 DEF BusyInv
<1> QED  BY <1>8, <1>9 DEF Inv

(* A restart that leaves no command under way.                             *)
LEMMA QuietRestart ==
  ASSUME TypeInv, Inv, Restart, ~RestartUnderWay
  PROVE  Inv'
<1>1. /\ inst = "ready" /\ inst' = "none" /\ mutex' = None /\ \A s \in Threads : pc[s] # "load"
      /\ issued.to = writeDoneCount /\ issued.from = readDoneCount
      /\ UNCHANGED <<issued, linkVars, cmdVars, toVars, fromVars, doneVars>>
  BY DEF Restart, UnderWay
<1>2. QuietNow
  <2>1. CASE mutex = None
    BY <2>1 DEF Inv, QuietInv, QuietNow
  <2>2. CASE mutex # None
    <3> PICK t : t = mutex
      OBVIOUS
    <3> PICK r : r = call[t].req
      OBVIOUS
    <3>1. BusyFor(t, r)
      BY <2>2 DEF Inv, BusyInv
    <3>2. Done(t) >= Given(t)
      <4>1. IF r.op = "to" THEN issued.to = wTotal + Given(t) ELSE issued.from = rTotal + Given(t)
        BY <3>1 DEF BusyFor, CountInv
      <4>2. /\ r.op \in {"to", "from"} /\ Given(t) \in Nat /\ Total(t) \in Nat
            /\ r.op = "to" => Count(t) = writeDoneCount /\ Total(t) = wTotal
            /\ r.op = "from" => Count(t) = readDoneCount /\ Total(t) = rTotal
        BY <2>2, Busy
      <4>3. Count(t) = Total(t) + Given(t)
        BY <1>1, <4>1, <4>2
      <4> QED  BY <4>2, <4>3 DEF Done
    <3> QED  BY <2>2, <3>1, <3>2, LeavesQuiet
  <2> QED  BY <2>1, <2>2
<1>3. QuietNow'
  BY <1>1, <1>2, QuietKept DEF linkVars
<1>4. \A k \in 1 .. Len(up) : ~Answer(k)
  <2>1. up \in Seq(LinkWord) /\ \A k \in 1 .. Len(up) : Answer(k) => pc[up[k].thread] = "load"
    BY DEF TypeInv, LinkTypes, OneAnswer
  <2>2. ASSUME NEW k \in 1 .. Len(up), Answer(k) PROVE up[k].thread \in Threads
    <3>1. up[k] \in LinkWord
      BY <2>1, ElementOfSeq
    <3> QED  BY <2>2, <3>1 DEF LinkWord, Answer
  <2> QED  BY <1>1, <2>1, <2>2
<1>5. Constructing'
  BY <1>1, <1>4 DEF Constructing, Answer, linkVars
<1>6. QuietInv'
  BY <1>1, <1>3, <1>5 DEF QuietInv, QuietNow
<1>7. BusyInv'
  BY <1>1 DEF BusyInv
<1> QED  BY <1>6, <1>7 DEF Inv

-----------------------------------------------------------------------------
(* A copy begins: nothing is under way for it.                             *)
LEMMA ArgsAlone ==
  ASSUME NEW r, NEW q \in Seq(Words), \A k \in 1 .. Len(q) : q[k][1] \notin {"to", "from"},
         NEW p, NEW a, Path(Args, q, p, a, ArgMoves), NEW u, u = [host |-> p.host, fpga |-> p.fpga, n |-> 0],
         NEW v, v = [host |-> a.host, fpga |-> a.fpga, n |-> 0]
  PROVE  Path(Progress, q, u, v, WordMoves(r)) /\ v \in Progress
<1> PICK s : s = Len(q)
  OBVIOUS
<1>1. s \in Nat
  BY LenProperties
<1>2. PICK st \in [0 .. s -> Args] : /\ st[0] = p /\ st[s] = a
                                     /\ \A k \in 1 .. s : <<st[k - 1], q[k], st[k]>> \in ArgMoves
  BY DEF Path
<1> DEFINE rr == [k \in 0 .. s |-> [host |-> st[k].host, fpga |-> st[k].fpga, n |-> 0]]
<1>3. rr \in [0 .. s -> Progress] /\ \A k \in 0 .. s : rr[k] = [host |-> st[k].host, fpga |-> st[k].fpga, n |-> 0]
  BY DEF Args, Progress
<1>4. rr[0] = u /\ rr[s] = v
  BY <1>1, <1>2, <1>3
<1> HIDE DEF rr
<1>5. ASSUME NEW k \in 1 .. s PROVE <<rr[k - 1], q[k], rr[k]>> \in WordMoves(r)
  <2> PICK w : w = q[k]
    OBVIOUS
  <2> PICK x : x = st[k - 1]
    OBVIOUS
  <2> PICK y : y = st[k]
    OBVIOUS
  <2>1. k - 1 \in 0 .. s /\ k \in 0 .. s
    BY <1>1
  <2>2. w \in Words /\ w[1] \in {"host", "fpga"} /\ w[2] \in Nat
    <3>1. w \in Words /\ w[1] \notin {"to", "from"}
      BY <1>5, ElementOfSeq
    <3> QED  BY <3>1 DEF Words
  <2>3. x \in Args /\ y \in Args /\ <<x, w, y>> \in ArgMoves
    BY <1>2, <2>1
  <2>4. /\ w[1] = "host" => y = [x EXCEPT !.host = w[2]]
        /\ w[1] = "fpga" => y = [x EXCEPT !.fpga = w[2]]
    BY <2>3 DEF ArgMoves
  <2>5. /\ rr[k - 1] = [host |-> x.host, fpga |-> x.fpga, n |-> 0]
        /\ rr[k] = [host |-> y.host, fpga |-> y.fpga, n |-> 0]
        /\ rr[k - 1] \in Progress /\ rr[k] \in Progress
    BY <1>3, <2>1
  <2>6. /\ w[1] = "host" => rr[k] = [rr[k - 1] EXCEPT !.host = w[2]]
        /\ w[1] = "fpga" => rr[k] = [rr[k - 1] EXCEPT !.fpga = w[2]]
    BY <2>3, <2>4, <2>5, SMTT(40) DEF Args
  <2> QED  BY <2>2, <2>5, <2>6 DEF WordMoves
<1>6. Path(Progress, q, u, v, WordMoves(r))
  BY <1>3, <1>4, <1>5 DEF Path
<1>7. v \in Progress
  <2>1. a \in Args
    BY <1>1, <1>2
  <2> QED  BY <2>1 DEF Args, Progress
<1> QED  BY <1>6, <1>7

LEMMA BusyLock ==
  ASSUME TypeInv, QuietInv, NEW t \in Threads, Lock(t), NEW r, r = call[t].req
  PROVE  BusyFor(t, r)' /\ mutex' = t /\ call'[t].req = r
<1>1. /\ pc[t] = "lock" /\ mutex = None /\ mutex' = t /\ before' = mem
      /\ pc' = [pc EXCEPT ![t] = LoopHead(call[t])] /\ call' = call
      /\ UNCHANGED <<inst, wTotal, rTotal, issued, linkVars, cmdVars, toVars, fromVars, doneVars, mem>>
  BY DEF Lock
<1>2. /\ inst = "ready" /\ LoopInv(call[t]) /\ call[t].i = 0 /\ r # NoCall
  BY <1>1 DEF TypeInv, Alone, Loops
<1>3. r \in Calls /\ r.len \in Nat /\ r.op \in {"to", "from"} /\ call[t].n = Passes(r) /\ Passes(r) \in Nat
  BY <1>2, ACall, Copies DEF LoopInv
<1>4. call[t].done = 0
  <2>1. Front(r, 0) = 0 /\ PageCells \in Nat
    BY <1>3, Fronts, Sizes
  <2>2. call[t].done = (IF r.op = "from" THEN 0 ELSE Front(r, 0)) * PageCells
    BY <1>2 DEF LoopInv
  <2>3. 0 * PageCells = 0
    BY <2>1
  <2> QED  BY <2>1, <2>2, <2>3
<1>5. /\ pc'[t] = (IF 0 < Passes(r) THEN "chunk" ELSE "poll") /\ Given(t)' = 0 /\ Filling(t)' = 0
  <2>1. pc'[t] = LoopHead(call[t])
    BY <1>1 DEF TypeInv, HostTypes
  <2>2. pc'[t] = IF 0 < Passes(r) THEN "chunk" ELSE "poll"
    BY <1>2, <1>3, <2>1 DEF LoopHead
  <2>3. Given(t)' = 0
    <3>1. CASE 0 < Passes(r)
      BY <1>1, <1>2, <2>2, <3>1 DEF Given, InLoop
    <3>2. CASE ~(0 < Passes(r))
      <4>1. Passes(r) = 0
        BY <1>3, <3>2
      <4> QED  BY <1>1, <1>2, <1>3, <2>2, <4>1 DEF Given, InLoop, Least
    <3> QED  BY <3>1, <3>2
  <2> QED  BY <2>2, <2>3 DEF Filling
<1>6. /\ QuietNow /\ up = <<>> /\ wTotal = issued.to /\ rTotal = issued.from
  BY <1>1, <1>2 DEF QuietInv, QuietNow
<1>7. wTotal \in Nat /\ rTotal \in Nat /\ issued.to \in Nat /\ issued.from \in Nat
  BY <1>6 DEF TypeInv, HostTypes
<1>8. /\ writeDoneCount = issued.to /\ readDoneCount = issued.from
  BY <1>6 DEF QuietNow, ToQuiet, FromQuiet
<1>9. Done(t)' = 0
  <2>1. Count(t)' = IF r.op = "to" THEN writeDoneCount ELSE readDoneCount
    BY <1>1, <1>2, <1>3 DEF Count, ToFpga, doneVars
  <2>2. Total(t)' = IF r.op = "to" THEN wTotal ELSE rTotal
    BY <1>1, <1>2 DEF Total
  <2> QED  BY <1>6, <1>7, <1>8, <2>1, <2>2 DEF Done
<1>10. CountInv(t)'
  <2>1. Len(up') = 0 /\ 1 .. 0 = {}
    BY <1>1, <1>6 DEF linkVars
  <2>2. 0 >= 0 - 1
    OBVIOUS
  <2>3. wTotal = wTotal + 0 /\ rTotal = rTotal + 0
    BY <1>7
  <2> QED  BY <1>1, <1>2, <1>5, <1>6, <1>9, <2>1, <2>2, <2>3 DEF CountInv
<1>11. CommandInv(t, r, 0)'
  <2>1. dmaCmdQ = <<>> /\ Len(dmaCmdQ) = 0 /\ \A k \in 1 .. Len(down) : down[k][1] \notin {"to", "from"}
    BY <1>6 DEF QuietNow, IsCommand
  <2>2. down \in Seq(Words)
    BY DEF TypeInv, CommandTypes
  <2> PICK p : p = [host |-> hostMemTemp, fpga |-> fpgaMemTemp]
    OBVIOUS
  <2>3. PICK a \in Args : Path(Args, down, p, a, ArgMoves)
    BY DEF TypeInv, CommandTypes, CommandsFit
  <2> PICK u : u = [host |-> hostMemTemp, fpga |-> fpgaMemTemp, n |-> 0]
    OBVIOUS
  <2> PICK v : v = [host |-> a.host, fpga |-> a.fpga, n |-> 0]
    OBVIOUS
  <2>4. Path(Progress, down, u, v, WordMoves(r)) /\ v \in Progress
    <3>1. u = [host |-> p.host, fpga |-> p.fpga, n |-> 0]
      OBVIOUS
    <3> QED  BY <2>1, <2>2, <2>3, <3>1, ArgsAlone
  <2>5. dmaCmdQ' = <<>> /\ down' = down /\ hostMemTemp' = hostMemTemp /\ fpgaMemTemp' = fpgaMemTemp
    BY <1>1, <2>1 DEF linkVars, cmdVars
  <2>6. OnTheWay(r, 0, v)'
    <3>1. 0 + Len(dmaCmdQ') = 0
      BY <2>1, <2>5
    <3> QED  BY <2>4, <2>5, <3>1 DEF OnTheWay
  <2>7. Queued(r, 0)'
    <3>1. Len(dmaCmdQ') = 0 /\ 1 .. 0 = {}
      BY <2>1, <2>5
    <3> QED  BY <3>1 DEF Queued
  <2>8. ArgsOf(t, [host |-> v.host, fpga |-> v.fpga])'
    BY <1>5 DEF ArgsOf
  <2>9. v.n = 0 /\ 0 \in Nat /\ 0 + Len(dmaCmdQ') <= 0
    BY <2>1, <2>5
  <2> QED  BY <1>5, <1>9, <2>4, <2>6, <2>7, <2>8, <2>9 DEF CommandInv
<1>12. E(r, 0) = 0 /\ Start(r) \in Nat
  <2>1. FirstPage(r.at) \in Nat /\ PageCells \in Nat
    BY <1>3, ACall, Sizes
  <2> QED  BY <1>3, <2>1, Edges DEF Start
<1>13. QuietNow' /\ up' = <<>>
  BY <1>1, <1>6, QuietKept DEF linkVars
<1>14. ToInv(t, r, 0)'
  <2>1. /\ memReadLeft' = 0 /\ reads' = <<>> /\ dmaReadTagOrderQ' = <<>>
        /\ \A g \in ReadTags : vDmaReadWords'[g] = <<>>
        /\ dmaReadWordCntQ' = <<>> /\ dramWrite'.left = 0 /\ FromQuiet'
    BY <1>13 DEF QuietNow, ToQuiet
  <2>2. Len(reads') = 0 /\ Len(dmaReadTagOrderQ') = 0 /\ Len(dmaReadWordCntQ') = 0 /\ Len(up') = 0 /\ 1 .. 0 = {}
        /\ 0 .. 0 - 1 = {}
    BY <1>13, <2>1
  <2>3. Asked(r, 0)' = 0 /\ Begun(0)' = 0 /\ Waiting' = 0
    <3>1. Asked(r, 0)' = E(r, 0) - 0
      BY <2>1 DEF Asked
    <3>2. Begun(0)' = 0 - 0
      BY <2>2 DEF Begun
    <3>3. Waiting' = 0 - 0
      BY <2>2 DEF Waiting
    <3>4. 0 - 0 = 0
      OBVIOUS
    <3> QED  BY <1>12, <3>1, <3>2, <3>3, <3>4
  <2>4. Arrived(r, 0)' = 0 /\ Written(r, 0)' = 0
    BY <2>2, <2>3 DEF Arrived, Written
  <2>5. ToAsks(r, 0, Asked(r, 0))'
    BY <2>1 DEF ToAsks
  <2>6. ToBursts(r, Begun(0), Done(t), Written(r, 0))'
    <3>1. ~(dramWrite'.left > 0) /\ 0 = 0 - 0
      BY <2>1
    <3> QED  BY <1>9, <1>12, <2>1, <2>2, <2>3, <2>4, <3>1 DEF ToBursts
  <2>7. ToTags(r, Written(r, 0))'
    BY <2>1, <2>2, <2>3 DEF ToTags
  <2>8. ToReads(r, Arrived(r, 0))'
    BY <2>2 DEF ToReads
  <2>9. ToBuffer(r, Filling(t))'
    BY <1>5, <1>12, <2>2 DEF ToBuffer
  <2>10. ToMemory(r, Written(r, 0))'
    BY <1>1, <2>2, <2>4 DEF ToMemory
  <2>11. \A k \in 1 .. Len(up') : Answer(k)'
    BY <2>2
  <2> QED  BY <2>1, <2>5, <2>6, <2>7, <2>8, <2>9, <2>10, <2>11 DEF ToInv
<1>15. FromInv(t, r, 0, 0)'
  <2>1. /\ memWriteLeft' = 0 /\ dramReadWordCntQ' = <<>> /\ dramRead'.left = 0
        /\ dramReadWordQ' = <<>> /\ pcieWriteReqQ' = <<>> /\ ToQuiet'
    BY <1>13 DEF QuietNow, FromQuiet
  <2>2. Len(dramReadWordCntQ') = 0 /\ Len(dramReadWordQ') = 0 /\ Len(pcieWriteReqQ') = 0 /\ 1 .. 0 = {}
        /\ 0 .. 0 - 1 = {}
    BY <2>1
  <2>3. Wanted(r, 0)' = 0 /\ Fetching(0)' = 0
    <3>1. Wanted(r, 0)' = E(r, 0) - 0
      BY <2>1 DEF Wanted
    <3>2. Fetching(0)' = 0 - 0
      BY <2>2 DEF Fetching
    <3>3. 0 - 0 = 0
      OBVIOUS
    <3> QED  BY <1>12, <3>1, <3>2, <3>3
  <2>4. Handed(r, 0)' = 0
    BY <2>2, <2>3 DEF Handed
  <2>5. Fetched(r, 0)' = 0
    BY <2>2, <2>4 DEF Fetched
  <2>6. FromAsks(r, 0, Wanted(r, 0))'
    BY <2>1 DEF FromAsks
  <2>7. FromBursts(r, Fetching(0), Fetched(r, 0))'
    <3>1. ~(dramRead'.left > 0) /\ 0 = 0 - 0 /\ 0 \in Nat
      BY <2>1
    <3> QED  BY <1>12, <2>1, <2>2, <2>3, <2>5, <3>1 DEF FromBursts
  <2>8. FromWords(r, Handed(r, 0))' /\ FromRequests(r, Handed(r, 0))'
    BY <2>2 DEF FromWords, FromRequests
  <2>9. FromDone(r, Handed(r, 0), Done(t))'
    <3>1. 0 < Passes(r) => 0 < E(r, 0 + 1)
      BY <1>3, <1>12, EdgeFacts
    <3>2. FromDone(r, 0, 0)
      BY <1>12, <3>1 DEF FromDone
    <3> QED  BY <1>9, <2>4, <3>2 DEF FromDone
  <2>10. FromLink(r, 0, Handed(r, 0))'
    <3>1. 0 \in Nat
      OBVIOUS
    <3> QED  BY <1>13, <2>4, <3>1, PathEmpty DEF FromLink
  <2>11. FromLanded(t, 0)'
    BY <1>1, <1>2, <1>5 DEF FromLanded
  <2>12. FromBuffer(r, 0)'
    BY <2>2 DEF FromBuffer
  <2>13. FromUser(t)'
    BY <1>1, <1>4, <2>2 DEF FromUser
  <2> QED  BY <2>1, <2>6, <2>7, <2>8, <2>9, <2>10, <2>11, <2>12, <2>13 DEF FromInv
<1>16. 0 \in Nat
  OBVIOUS
<1>17. BusyFor(t, r)'
  BY <1>3, <1>10, <1>11, <1>14, <1>15, <1>16 DEF BusyFor
<1> QED  BY <1>1, <1>17

-----------------------------------------------------------------------------
(* Steps while no thread has the mutex.                                    *)
LEMMA NoAnswer ==
  ASSUME TypeInv, \A s \in Threads : pc[s] # "load"
  PROVE  \A k \in 1 .. Len(up) : ~Answer(k)
<1>1. up \in Seq(LinkWord) /\ \A k \in 1 .. Len(up) : Answer(k) => pc[up[k].thread] = "load"
  BY DEF TypeInv, LinkTypes, OneAnswer
<1>2. ASSUME NEW k \in 1 .. Len(up), Answer(k) PROVE up[k].thread \in Threads
  <2>1. up[k] \in LinkWord
    BY <1>1, ElementOfSeq
  <2> QED  BY <1>2, <2>1 DEF LinkWord, Answer
<1> QED  BY <1>1, <1>2

LEMMA QuietConstruct ==
  ASSUME TypeInv, QuietInv, mutex = None, NEW t \in Threads, Construct(t)
  PROVE  QuietInv' /\ mutex' = None
<1>1. /\ \A s \in Threads : pc[s] = "idle" /\ inst' = "write" /\ mutex' = mutex
      /\ UNCHANGED <<down, cmdVars, toVars, fromVars, doneVars, issued, up, wTotal, rTotal>>
  BY DEF Construct, linkVars
<1>2. \A k \in 1 .. Len(up) : ~Answer(k)
  BY <1>1, NoAnswer
<1>3. Constructing'
  BY <1>1, <1>2 DEF Constructing, Answer
<1>4. QuietNow'
  BY <1>1, QuietKept DEF QuietInv, QuietNow
<1> QED  BY <1>1, <1>3, <1>4 DEF QuietInv, QuietNow

LEMMA QuietEnter ==
  ASSUME TypeInv, QuietInv, mutex = None, NEW t \in Threads, NEW c \in Calls, Enter(t, c)
  PROVE  QuietInv' /\ mutex' = None
<1>1. /\ inst = "ready" /\ inst' = inst /\ mutex' = mutex
      /\ UNCHANGED <<down, cmdVars, toVars, fromVars, doneVars, issued, up, wTotal, rTotal>>
  BY DEF Enter, linkVars
<1>2. QuietNow'
  BY <1>1, QuietKept DEF QuietInv, QuietNow
<1> QED  BY <1>1, <1>2 DEF QuietInv, QuietNow

LEMMA QuietGetCmd ==
  ASSUME TypeInv, QuietInv, mutex = None, getCmd
  PROVE  QuietInv' /\ mutex' = None
<1> PICK w : w = Head(down)
  OBVIOUS
<1>1. /\ down # <<>> /\ down' = Tail(down) /\ mutex' = mutex /\ inst' = inst
      /\ UNCHANGED <<memReadLeft, memWriteLeft, toVars, fromVars, doneVars, issued, up, wTotal, rTotal>>
      /\ dmaCmdQ' = dmaCmdQ \/ w[1] \in {"to", "from"}
  BY DEF getCmd, hostVars
<1>2. down \in Seq(Words)
  BY DEF TypeInv, CommandTypes
<1>3. /\ Len(down') = Len(down) - 1 /\ Len(down) \in Nat \ {0} /\ w = down[1]
      /\ \A k \in 1 .. Len(down) - 1 : down'[k] = down[k + 1]
  BY <1>1, <1>2, TakenOut
<1>4. ToQuiet /\ FromQuiet /\ dmaCmdQ = <<>> /\ \A k \in 1 .. Len(down) : ~IsCommand(k)
  BY DEF QuietInv
<1>5. w[1] \notin {"to", "from"}
  BY <1>3, <1>4 DEF IsCommand
<1>6. \A k \in 1 .. Len(down') : ~IsCommand(k)'
  <2> TAKE k \in 1 .. Len(down')
  <2>1. k + 1 \in 1 .. Len(down) /\ down'[k] = down[k + 1]
    BY <1>3
  <2> QED  BY <1>4, <2>1 DEF IsCommand
<1>7. ToQuiet'
  BY <1>1, <1>4, QuietToSame DEF doneVars
<1>8. FromQuiet'
  BY <1>1, <1>4, QuietFromSame DEF doneVars
<1>9. Constructing => Constructing'
  BY <1>1 DEF Constructing, Answer, doneVars
<1>10. IF inst = "ready" THEN up = <<>> /\ wTotal = issued.to /\ rTotal = issued.from ELSE Constructing
  BY DEF QuietInv
<1> QED  BY <1>1, <1>4, <1>5, <1>6, <1>7, <1>8, <1>9, <1>10 DEF QuietInv

LEMMA QuietLandCell ==
  ASSUME TypeInv, QuietInv, mutex = None, LandCell
  PROVE  QuietInv' /\ mutex' = None
<1>1. /\ up # <<>> /\ up' = Tail(up) /\ mutex' = mutex /\ inst' = inst
      /\ UNCHANGED <<down, cmdVars, toVars, fromVars, doneVars, issued, wTotal, rTotal>>
  BY DEF LandCell, hostVars
<1>2. QuietNow'
  BY <1>1, QuietKept DEF QuietInv, QuietNow
<1>3. inst # "ready" /\ Constructing
  BY <1>1 DEF QuietInv
<1>4. /\ Len(up) \in Nat /\ Len(up') \in Nat /\ Len(up) = Len(up') + 1
      /\ \A k \in 1 .. Len(up') : k + 1 \in 1 .. Len(up) /\ up'[k] = up[k + 1] /\ (Answer(k)' <=> Answer(k + 1))
  BY <1>1, UpTail
<1>5. \A k \in 1 .. Len(up') : Answer(k)' =>
        k = Len(up') /\ up'[k].count = IF inst = "write" THEN writeDoneCount ELSE readDoneCount
  <2> TAKE k \in 1 .. Len(up')
  <2> HAVE Answer(k)'
  <2> PICK l : l = k + 1
    OBVIOUS
  <2>1. l \in 1 .. Len(up) /\ up'[k] = up[l] /\ Answer(l)
    BY <1>4
  <2>2. l = Len(up) /\ up[l].count = IF inst = "write" THEN writeDoneCount ELSE readDoneCount
    BY <1>3, <2>1 DEF Constructing
  <2>3. k = Len(up')
    BY <1>4, <2>2
  <2> QED  BY <2>1, <2>2, <2>3
<1>6. inst = "read" => wTotal = writeDoneCount /\ \A k \in 1 .. Len(up') : Answer(k)'
  BY <1>3, <1>4 DEF Constructing
<1>7. Constructing'
  BY <1>1, <1>5, <1>6 DEF Constructing, doneVars
<1> QED  BY <1>1, <1>2, <1>3, <1>7 DEF QuietInv, QuietNow

LEMMA QuietLandCount ==
  ASSUME TypeInv, QuietInv, mutex = None, LandCount
  PROVE  QuietInv' /\ mutex' = None
<1> PICK n : n = Head(up).count
  OBVIOUS
<1>1. /\ up # <<>> /\ up' = Tail(up) /\ "count" \in DOMAIN Head(up) /\ mutex' = mutex
      /\ UNCHANGED <<down, cmdVars, toVars, fromVars, doneVars, issued>>
      /\ \/ inst = "write" /\ inst' = "read" /\ wTotal' = n /\ rTotal' = rTotal
         \/ inst = "read" /\ inst' = "ready" /\ rTotal' = n /\ wTotal' = wTotal
         \/ inst = "ready"
  BY DEF LandCount
<1>2. QuietNow'
  BY <1>1, QuietKept DEF QuietInv, QuietNow
<1>3. inst # "ready" /\ Constructing
  BY <1>1 DEF QuietInv
<1>4. /\ Len(up) \in Nat /\ Len(up') \in Nat /\ Len(up) = Len(up') + 1
      /\ Head(up) = up[1] /\ 1 \in 1 .. Len(up)
  BY <1>1, UpTail
<1>5. Answer(1)
  BY <1>1, <1>4 DEF Answer
<1>6. Len(up) = 1 /\ n = IF inst = "write" THEN writeDoneCount ELSE readDoneCount
  BY <1>3, <1>4, <1>5 DEF Constructing
<1>7. up' = <<>>
  <2>1. up \in Seq(LinkWord)
    BY DEF TypeInv, LinkTypes
  <2>2. up' \in Seq(LinkWord) /\ Len(up') = 0
    BY <1>1, <1>4, <1>6, <2>1, TakenOut
  <2> QED  BY <2>2, EmptySeq
<1>8. CASE inst = "write"
  <2>1. inst' = "read" /\ wTotal' = writeDoneCount'
    BY <1>1, <1>6, <1>8 DEF doneVars
  <2>2. Len(up') = 0 /\ 1 .. 0 = {}
    BY <1>7
  <2>3. Constructing'
    BY <2>1, <2>2 DEF Constructing
  <2> QED  BY <1>1, <1>2, <2>1, <2>3 DEF QuietInv, QuietNow
<1>9. CASE inst = "read"
  <2>1. wTotal = writeDoneCount
    BY <1>3, <1>9 DEF Constructing
  <2>2. writeDoneCount = issued.to /\ readDoneCount = issued.from
    BY DEF QuietInv, ToQuiet, FromQuiet
  <2>3. inst' = "ready" /\ wTotal' = issued'.to /\ rTotal' = issued'.from
    BY <1>1, <1>6, <1>9, <2>1, <2>2
  <2> QED  BY <1>1, <1>2, <1>7, <2>3 DEF QuietInv, QuietNow
<1> QED  BY <1>1, <1>3, <1>8, <1>9

LEMMA QuietReadStat ==
  ASSUME TypeInv, QuietInv, mutex = None, NEW t \in Threads, readStat(t)
  PROVE  QuietInv' /\ mutex' = None
<1> PICK z : z = [thread |-> t, count |-> Count(t)]
  OBVIOUS
<1>1. /\ pc[t] = "poll" /\ up' = Append(up, z) /\ mutex' = mutex /\ inst' = inst
      /\ UNCHANGED <<down, cmdVars, toVars, fromVars, doneVars, issued, wTotal, rTotal>>
  BY DEF readStat
<1>2. inst \in {"write", "read"} /\ \A s \in Threads : pc[s] # "load"
  <2>1. inst # "ready"
    BY <1>1, OnlyHolder
  <2>2. inst # "none"
    BY <1>1 DEF TypeInv, Alone
  <2>3. \A s \in Threads : s # t => pc[s] = "idle"
    BY <1>1, <2>1 DEF TypeInv, Alone
  <2>4. inst \in {"none", "write", "read", "ready"}
    BY DEF TypeInv, HostTypes
  <2> QED  BY <1>1, <2>1, <2>2, <2>3, <2>4
<1>3. Constructing
  BY <1>2 DEF QuietInv
<1>4. \A k \in 1 .. Len(up) : ~Answer(k)
  BY <1>2, NoAnswer
<1>5. z.count = IF inst = "write" THEN writeDoneCount ELSE readDoneCount
  BY <1>2 DEF Count, ToFpga
<1>6. /\ up \in Seq(LinkWord) /\ Len(up) \in Nat /\ Len(up') = Len(up) + 1
      /\ \A k \in 1 .. Len(up) : up'[k] = up[k]
      /\ up'[Len(up) + 1] = z
  <2>1. up \in Seq(LinkWord)
    BY DEF TypeInv, LinkTypes
  <2>2. writeDoneCount \in Nat /\ readDoneCount \in Nat
    BY DEF TypeInv, MemoryTypes
  <2>3. z \in LinkWord
    BY <1>5, <2>2 DEF LinkWord
  <2> QED  BY <1>1, <2>1, <2>3, PutIn
<1> PICK s : s = Len(up)
  OBVIOUS
<1>7. \A k \in 1 .. Len(up') : k \in 1 .. Len(up) \/ k = Len(up) + 1
  <2>1. s \in Nat /\ Len(up') = s + 1
    BY <1>6
  <2>2. \A k \in 1 .. s + 1 : k \in 1 .. s \/ k = s + 1
    BY ONLY <2>1
  <2> QED  BY <2>1, <2>2
<1>8. \A k \in 1 .. Len(up) : ~Answer(k)'
  BY <1>4, <1>6 DEF Answer
<1>9. "count" \in DOMAIN z
  OBVIOUS
<1> PICK e : e = s + 1
  OBVIOUS
<1>10. Answer(e)'
  BY <1>6, <1>9 DEF Answer
<1>11. inst = "read" => up = <<>>
  <2> HAVE inst = "read"
  <2>1. \A k \in 1 .. Len(up) : Answer(k)
    BY <1>3 DEF Constructing
  <2>2. Len(up) = 0
    BY <1>4, <1>6, <2>1
  <2> QED  BY <1>6, <2>2, EmptySeq
<1>12. Constructing'
  <2>1. \A k \in 1 .. Len(up') : Answer(k)' =>
          k = Len(up') /\ up'[k].count = IF inst' = "write" THEN writeDoneCount' ELSE readDoneCount'
    BY <1>1, <1>5, <1>6, <1>7, <1>8 DEF doneVars
  <2>2. inst' = "read" => wTotal' = writeDoneCount' /\ \A k \in 1 .. Len(up') : Answer(k)'
    <3> HAVE inst' = "read"
    <3>1. wTotal' = writeDoneCount'
      BY <1>1, <1>3 DEF Constructing, doneVars
    <3>2. Len(up) = 0
      BY <1>1, <1>11
    <3>3. ASSUME NEW k \in 1 .. Len(up')
          PROVE  Answer(k)'
      <4>1. k = e
        <5>1. Len(up') = 1 /\ e = 1
          BY <1>6, <3>2
        <5>2. k \in 1 .. 1
          BY <5>1
        <5> QED  BY <5>1, <5>2
      <4> QED  BY <1>10, <4>1
    <3> QED  BY <3>1, <3>3
  <2> QED  BY <2>1, <2>2 DEF Constructing
<1>13. QuietNow'
  BY <1>1, QuietKept DEF QuietInv, QuietNow
<1> QED  BY <1>1, <1>2, <1>12, <1>13 DEF QuietInv, QuietNow

(* Nothing of a copy moves.                                                *)
LEMMA NothingMoves ==
  ASSUME TypeInv, QuietInv, mutex = None
  PROVE  /\ ~procCmd /\ ~ToStep /\ ~FromStep
         /\ \A t \in Threads : ~StartChunk(t) /\ ~Arguments(t) /\ ~Command(t) /\ ~NextChunk(t) /\ ~Return(t)
<1>1. ToQuiet /\ FromQuiet /\ dmaCmdQ = <<>>
  BY DEF QuietInv
<1>2. ~procCmd
  BY <1>1 DEF procCmd
<1>3. ~ToStep
  <2>1. ~sendDMARead /\ ~getDMARead /\ ~dramStartBurst /\ ~relayDRAMWriteBurst
    BY <1>1 DEF ToQuiet, sendDMARead, getDMARead, dramStartBurst, relayDRAMWriteBurst
  <2>2. DOMAIN reads = {}
    BY <1>1 DEF ToQuiet
  <2> QED  BY <2>1, <2>2 DEF ToStep
<1>4. ~FromStep
  BY <1>1 DEF FromQuiet, FromStep, startDRAMRead, relayDRAMWord, genPcieDmaWrite, sendPcieDmaWrite
<1>5. ASSUME NEW t \in Threads, StartChunk(t) \/ Arguments(t) \/ Command(t) \/ NextChunk(t) \/ Return(t)
      PROVE  FALSE
  <2>1. pc[t] \in {"chunk", "arguments", "command", "seen"}
    BY <1>5 DEF StartChunk, Arguments, Command, NextChunk, Return
  <2> QED  BY <2>1, NoneInCall DEF TypeInv, Alone
<1> QED  BY <1>2, <1>3, <1>4, <1>5

-----------------------------------------------------------------------------
(* The invariant.                                                          *)
LEMMA InvStart == Init => Inv
<1> SUFFICES ASSUME Init PROVE Inv
  OBVIOUS
<1>1. ToQuiet /\ FromQuiet
  BY DEF Init, ToQuiet, FromQuiet
<1>2. /\ mutex = None /\ inst = "none" /\ dmaCmdQ = <<>>
      /\ Len(up) = 0 /\ Len(down) = 0 /\ 1 .. 0 = {}
  BY DEF Init
<1>3. Constructing
  BY <1>2 DEF Constructing
<1> QED  BY <1>1, <1>2, <1>3 DEF Inv, QuietInv, BusyInv

LEMMA StillBusy ==
  ASSUME NEW t, NEW r, t # None, mutex' = t, call'[t].req = r, BusyFor(t, r)'
  PROVE  Inv'
<1>1. BusyInv'
  BY DEF BusyInv
<1>2. QuietInv'
  BY DEF QuietInv
<1> QED  BY <1>1, <1>2 DEF Inv

LEMMA StillQuiet ==
  ASSUME QuietInv', mutex' = None PROVE Inv'
BY DEF Inv, BusyInv

(* While thread t has the mutex it is the one that runs.                   *)
LEMMA InvBusyRun ==
  ASSUME TypeInv, Inv, NEW t, t = mutex, mutex # None, NEW s \in Threads, Run(s)
  PROVE  Inv'
<1> PICK r : r = call[t].req
  OBVIOUS
<1>1. t \in Threads /\ inst = "ready" /\ BusyFor(t, r) /\ t # None
  BY Busy DEF Inv, BusyInv
<1>2. CASE Construct(s) \/ Lock(s)
  BY <1>1, <1>2 DEF Construct, Lock
<1>3. ASSUME pc[s] \in {"chunk", "arguments", "command", "seen"} PROVE s = t
  BY <1>1, <1>3, OnlyHolder
<1>4. CASE StartChunk(s)
  <2>1. s = t /\ mutex' = t /\ call' = call
    BY <1>3, <1>4 DEF StartChunk
  <2> QED  BY <1>1, <1>4, <2>1, BusyStartChunk, StillBusy
<1>5. CASE Arguments(s)
  <2>1. s = t /\ mutex' = t /\ call' = call
    BY <1>3, <1>5 DEF Arguments
  <2> QED  BY <1>1, <1>5, <2>1, BusyArguments, StillBusy
<1>6. CASE Command(s)
  <2>1. s = t /\ mutex' = t /\ call' = call
    BY <1>3, <1>6 DEF Command
  <2> QED  BY <1>1, <1>6, <2>1, BusyCommand, StillBusy
<1>7. CASE NextChunk(s)
  <2>1. s = t /\ mutex' = t
    BY <1>3, <1>7 DEF NextChunk
  <2> QED  BY <1>1, <1>7, <2>1, BusyNextChunk, StillBusy
<1>8. CASE Return(s)
  <2>1. s = t
    BY <1>3, <1>8 DEF Return
  <2> QED  BY <1>1, <1>8, <2>1, QuietReturn
<1> QED  BY <1>2, <1>4, <1>5, <1>6, <1>7, <1>8 DEF Run

LEMMA InvBusy ==
  ASSUME TypeInv, Inv, mutex # None, ~RestartUnderWay, Next
  PROVE  Inv'
<1> PICK t : t = mutex
  OBVIOUS
<1> PICK r : r = call[t].req
  OBVIOUS
<1>1. t \in Threads /\ inst = "ready" /\ BusyFor(t, r) /\ t # None
  BY Busy DEF Inv, BusyInv
<1>2. CASE \E s \in Threads : Run(s)
  BY <1>2, InvBusyRun
<1>3. ASSUME NEW s \in Threads, NEW c \in Calls, Enter(s, c) PROVE Inv'
  <2>1. mutex' = t
    BY <1>3 DEF Enter
  <2>2. call'[t].req = r
    <3>1. pc[s] = "idle" /\ call' = [call EXCEPT ![s] = Locals(c)]
      BY <1>3 DEF Enter
    <3>2. pc[t] # "idle" /\ call = [u \in Threads |-> call[u]]
      BY DEF TypeInv, Alone, HostTypes
    <3> QED  BY <1>1, <3>1, <3>2
  <2> QED  BY <1>1, <1>3, <2>1, <2>2, BusyEnter, StillBusy
<1>4. CASE Move
  <2>1. mutex' = t /\ call' = call
    BY <1>4, HostWaits DEF hostVars
  <2> QED  BY <1>1, <1>4, <2>1, BusyMove, StillBusy
<1>5. CASE Link
  <2>1. CASE LandCell
    <3>1. mutex' = t /\ call' = call
      BY <2>1 DEF LandCell, hostVars
    <3> QED  BY <1>1, <2>1, <3>1, BusyLandCell, StillBusy
  <2>2. CASE LandCount
    <3>1. mutex' = t
      BY <2>2 DEF LandCount
    <3> QED  BY <1>1, <2>2, <3>1, BusyLandCount, StillBusy
  <2>3. ASSUME NEW s \in Threads, readStat(s) PROVE Inv'
    <3>1. mutex' = t /\ call' = call
      BY <2>3 DEF readStat
    <3> QED  BY <1>1, <2>3, <3>1, BusyReadStat, StillBusy
  <2> QED  BY <1>5, <2>1, <2>2, <2>3 DEF Link
<1>6. CASE Restart
  BY <1>6, QuietRestart
<1> QED  BY <1>2, <1>3, <1>4, <1>5, <1>6 DEF Next

LEMMA InvQuiet ==
  ASSUME TypeInv, Inv, mutex = None, ~RestartUnderWay, Next
  PROVE  Inv'
<1>1. QuietInv
  BY DEF Inv
<1>2. ~procCmd /\ ~ToStep /\ ~FromStep
  BY <1>1, NothingMoves
<1>3. ASSUME NEW t \in Threads, Run(t) PROVE Inv'
  <2>1. ~StartChunk(t) /\ ~Arguments(t) /\ ~Command(t) /\ ~NextChunk(t) /\ ~Return(t)
    BY <1>1, NothingMoves
  <2>2. CASE Construct(t)
    BY <1>1, <2>2, QuietConstruct, StillQuiet
  <2>3. CASE Lock(t)
    <3> PICK r : r = call[t].req
      OBVIOUS
    <3>1. BusyFor(t, r)' /\ mutex' = t /\ call'[t].req = r
      BY <1>1, <2>3, BusyLock
    <3> QED  BY <3>1, NoneInCall, StillBusy
  <2> QED  BY <1>3, <2>1, <2>2, <2>3 DEF Run
<1>4. ASSUME NEW t \in Threads, NEW c \in Calls, Enter(t, c) PROVE Inv'
  BY <1>1, <1>4, QuietEnter, StillQuiet
<1>5. CASE Move
  BY <1>1, <1>2, <1>5, QuietGetCmd, StillQuiet DEF Move
<1>6. CASE LandCell
  BY <1>1, <1>6, QuietLandCell, StillQuiet
<1>7. CASE LandCount
  BY <1>1, <1>7, QuietLandCount, StillQuiet
<1>8. ASSUME NEW t \in Threads, readStat(t) PROVE Inv'
  BY <1>1, <1>8, QuietReadStat, StillQuiet
<1>9. CASE Restart
  BY <1>9, QuietRestart
<1> QED  BY <1>3, <1>4, <1>5, <1>6, <1>7, <1>8, <1>9 DEF Next, Link

LEMMA InvSame ==
  ASSUME Inv, UNCHANGED vars
  PROVE  Inv'
<1>1. UNCHANGED hostVars /\ UNCHANGED linkVars /\ UNCHANGED cmdVars /\ UNCHANGED toVars
      /\ UNCHANGED fromVars /\ UNCHANGED doneVars /\ dmabuf' = dmabuf /\ mem' = mem
  BY DEF vars
<1>2. CASE mutex = None
  <2>1. QuietNow'
    BY <1>1, <1>2, QuietKept DEF Inv, QuietInv, QuietNow, linkVars, hostVars
  <2>2. mutex' = None
    BY <1>1, <1>2 DEF hostVars
  <2>3. IF inst' = "ready" THEN up' = <<>> /\ wTotal' = issued'.to /\ rTotal' = issued'.from
        ELSE Constructing'
    BY <1>1, <1>2 DEF Inv, QuietInv, Constructing, Answer, hostVars, linkVars, doneVars
  <2> QED  BY <2>1, <2>2, <2>3, StillQuiet DEF QuietInv, QuietNow
<1>3. CASE mutex # None
  <2> PICK t : t = mutex
    OBVIOUS
  <2> PICK r : r = call[t].req
    OBVIOUS
  <2>1. BusyFor(t, r)
    BY <1>3 DEF Inv, BusyInv
  <2>2. /\ mutex' = mutex /\ pc' = pc /\ call' = call /\ user' = user /\ inst' = inst
        /\ wTotal' = wTotal /\ rTotal' = rTotal /\ issued' = issued /\ before' = before
    BY <1>1 DEF hostVars
  <2>3. Given(t)' = Given(t) /\ Filling(t)' = Filling(t)
    BY <2>2 DEF Given, Filling, InLoop
  <2>4. BusyFor(t, r)'
    BY <1>1, <2>1, <2>2, <2>3, HostKept
  <2> QED  BY <1>3, <2>2, <2>4, StillBusy
<1> QED  BY <1>2, <1>3

LEMMA InvStep ==
  ASSUME ~RestartUnderWay
  PROVE  TypeInv /\ Inv /\ [Next]_vars => Inv'
BY InvBusy, InvQuiet, InvSame

-----------------------------------------------------------------------------
(* Between two copies nothing is under way: every command the program gave *)
(* has been done and counted, no page is moving, and the totals from which *)
(* the next copy counts are the counts of the FPGA.  Commands left by a    *)
(* process that has ended are outside of this theorem: see Restart.        *)
LEMMA InvSettled == TypeInv /\ Inv => Settled
<1> SUFFICES ASSUME TypeInv, Inv, inst = "ready", mutex = None
             PROVE  /\ \A k \in DOMAIN down : down[k][1] \in {"host", "fpga"}
                    /\ dmaCmdQ = <<>> /\ memReadLeft = 0 /\ memWriteLeft = 0
                    /\ reads = <<>> /\ dramWrite.left = 0 /\ dramRead.left = 0
                    /\ pcieWriteReqQ = <<>> /\ \A k \in DOMAIN up : "addr" \notin DOMAIN up[k]
                    /\ wTotal = issued.to /\ rTotal = issued.from
  BY DEF Settled
<1>1. /\ ToQuiet /\ FromQuiet /\ dmaCmdQ = <<>> /\ \A k \in 1 .. Len(down) : ~IsCommand(k)
      /\ up = <<>> /\ wTotal = issued.to /\ rTotal = issued.from
  BY DEF Inv, QuietInv
<1>2. \A k \in DOMAIN down : down[k][1] \in {"host", "fpga"}
  <2>1. down \in Seq(Words)
    BY DEF TypeInv, CommandTypes
  <2> TAKE k \in DOMAIN down
  <2>2. k \in 1 .. Len(down) /\ down[k] \in Words
    BY <2>1, ElementOfSeq, LenProperties
  <2> QED  BY <1>1, <2>2 DEF IsCommand, Words
<1>3. \A k \in DOMAIN up : "addr" \notin DOMAIN up[k]
  BY <1>1
<1> QED  BY <1>1, <1>2, <1>3 DEF ToQuiet, FromQuiet

THEOREM SettledHolds ==
  ASSUME ~RestartUnderWay
  PROVE  Spec => []Settled
<1>1. TypeInv /\ Inv /\ [Next]_vars => TypeInv' /\ Inv'
  BY TypeStep, InvStep
<1>2. Init => TypeInv /\ Inv
  BY TypeStart, InvStart
<1>3. Spec => [](TypeInv /\ Inv)
  BY <1>1, <1>2, PTL DEF Spec
<1> QED  BY <1>3, InvSettled, PTL

-----------------------------------------------------------------------------
(* What a copy has done when it returns.                                   *)
LEMMA MemoryCopied ==
  ASSUME TypeInv, NEW t, t = mutex, mutex # None, NEW r, r = call[t].req, BusyFor(t, r), r.op = "to", Return(t)
  PROVE  mem = Stored(before, r)
<1> PICK n : n = call[t].n
  OBVIOUS
<1> PICK w : w = E(r, n)
  OBVIOUS
<1> PICK s : s = Start(r)
  OBVIOUS
<1>1. pc[t] = "seen" /\ call[t].i = call[t].n
  BY DEF Return
<1>2. Given(t) = n /\ Done(t) >= Given(t) /\ CountInv(t)
  BY <1>1, AllSeen DEF BusyFor
<1>3. PICK m \in Nat : CommandInv(t, r, m) /\ ToInv(t, r, m)
  BY DEF BusyFor
<1>4. ToMemory(r, w)
  <2>1. Written(r, m) = w
    BY <1>2, <1>3, ToDone
  <2> QED  BY <1>3, <2>1 DEF ToInv
<1>5. r.len \in Nat /\ r \in Calls /\ n = Passes(r)
  BY Holder
<1>6. WrittenBy(r) = s .. s + w - 1 /\ w \in Nat /\ s \in Nat
  <2>1. w = Pages(r.len) * PageCells /\ w \in Nat
    BY <1>5, Edges
  <2>2. s \in Nat
    <3>1. FirstPage(r.at) \in Nat
      BY <1>5, ACall
    <3> QED  BY <3>1, Sizes DEF Start
  <2> QED  BY <2>1, <2>2 DEF WrittenBy
<1>7. mem \in [MemCells -> Cells] /\ before \in [MemCells -> Cells]
  BY DEF TypeInv, MemoryTypes
<1>8. ASSUME NEW k \in MemCells
      PROVE  mem[k] = IF k \notin WrittenBy(r) THEN before[k]
                      ELSE IF k - Start(r) < r.len THEN r.data[k - Start(r) + 1] ELSE Pad
  <2>1. mem[k] = IF k - s \in 0 .. w - 1 THEN Cell(r, k - s) ELSE before[k]
    BY <1>4 DEF ToMemory
  <2>2. k - s \in 0 .. w - 1 <=> k \in s .. s + w - 1
    <3>1. k \in Int
      BY DEF MemCells
    <3> QED  BY <1>6, <3>1
  <2> QED  BY <1>6, <2>1, <2>2 DEF Cell
<1>9. Stored(before, r) =
        [k \in MemCells |-> IF k \notin WrittenBy(r) THEN before[k]
                            ELSE IF k - Start(r) < r.len THEN r.data[k - Start(r) + 1] ELSE Pad]
  BY <1>7 DEF Stored
<1> QED  BY <1>7, <1>8, <1>9

LEMMA AllRead ==
  ASSUME TypeInv, NEW t, t = mutex, mutex # None, NEW r, r = call[t].req, BusyFor(t, r), r.op = "from", Return(t)
  PROVE  \A x \in 0 .. r.len - 1 : user'[t][x] = mem[Start(r) + x]
<1> PICK n : n = call[t].n
  OBVIOUS
<1> PICK e : e = r.len
  OBVIOUS
<1>1. /\ pc[t] = "seen" /\ call[t].i = n
      /\ user' = [user EXCEPT ![t] =
                    Drained(@, call[t].done, LastHalf(call[t]), Least(e - call[t].done, HalfCells),
                            HalfCells - Least(e - call[t].done, HalfCells))]
  BY DEF Return
<1>2. PICK m \in Nat : CommandInv(t, r, m) /\ \E l \in Nat : FromInv(t, r, m, l)
  BY DEF BusyFor
<1>3. PICK l \in Nat : FromInv(t, r, m, l)
  BY <1>2
<1>4. CountInv(t) /\ t \in Threads /\ r.len \in Nat /\ n = Passes(r) /\ n \in Nat
  BY Holder DEF BusyFor
<1>5. CASE n = 0
  <2>1. e <= E(r, n) /\ E(r, n) = 0
    BY <1>4, <1>5, InUser, Edges
  <2> QED  BY <1>4, <2>1
<1>6. CASE n # 0
  <2> PICK j : j = n - 1
    OBVIOUS
  <2>1. j \in Nat /\ n = j + 1 /\ j < n
    BY ONLY <1>4, <1>6, j = n - 1
  <2> PICK a : a = E(r, j)
    OBVIOUS
  <2> PICK b : b = E(r, n)
    OBVIOUS
  <2>2. a \in Nat /\ b \in Nat /\ b - a <= HalfCells /\ e <= b /\ b < e + PageCells
    <3>1. b = E(r, Passes(r)) /\ b = E(r, j + 1)
      BY <1>4, <2>1
    <3>2. E(r, j) \in Nat /\ E(r, j + 1) \in Nat /\ E(r, j + 1) - E(r, j) <= HalfCells
      BY <1>4, <2>1, EdgeFacts
    <3>3. r.len <= E(r, Passes(r)) /\ E(r, Passes(r)) < r.len + PageCells
      BY <1>4, <2>1, InUser
    <3> QED  BY <3>1, <3>2, <3>3
  <2>3. b - a >= PageCells
    <3> PICK f : f = Front(r, j)
      OBVIOUS
    <3> PICK g : g = Front(r, n)
      OBVIOUS
    <3>1. f \in Nat /\ g \in Nat /\ f < g
      <4>1. g - f \in 1 .. HalfPages /\ f \in Nat /\ g \in Nat
        <5>1. j < Passes(r) /\ g = Front(r, j + 1)
          BY <1>4, <2>1
        <5>2. Front(r, j + 1) - Front(r, j) \in 1 .. HalfPages
          BY <1>4, <2>1, <5>1, Fronts
        <5>3. Front(r, j) \in Nat /\ Front(r, j + 1) \in Nat
          BY <1>4, <2>1, FrontNat
        <5> QED  BY <5>1, <5>2, <5>3
      <4> QED  BY <4>1, Sizes
    <3>2. PageCells * g - PageCells * f >= PageCells
      BY <3>1, Sizes, Times
    <3>3. a = PageCells * f /\ b = PageCells * g
      <4>1. a = f * PageCells /\ b = g * PageCells
        BY DEF E
      <4> QED  BY <3>1, <4>1, Sizes
    <3> QED  BY <3>2, <3>3
  <2> PICK z : z = e - a
    OBVIOUS
  <2>4. z \in Nat /\ z <= b - a /\ z <= HalfCells /\ HalfCells - z \in Nat /\ a + z = e /\ HalfCells \in Nat
    <3>1. e \in Nat /\ HalfCells \in Nat /\ PageCells \in Nat
      BY <1>4, Sizes
    <3>2. a < e
      BY ONLY <2>2, <2>3, <3>1
    <3> QED  BY ONLY <2>2, <3>1, <3>2, z = e - a
  <2>5. call[t].done = a
    BY <1>1, <2>1, LastCells
  <2>6. Least(e - call[t].done, HalfCells) = z
    BY <2>4, <2>5 DEF Least
  <2>7. LastHalf(call[t]) = Half(call[t].i + 1)
    BY <1>1 DEF LastHalf
  <2>8. user'[t] = Drained(user[t], call[t].done, Half(call[t].i + 1), z, HalfCells - z)
    <3>1. user = [s \in Threads |-> user[s]]
      BY DEF TypeInv, HostTypes
    <3> QED  BY <1>1, <1>4, <2>6, <2>7, <3>1
  <2> PICK d : d = HalfCells - z
    OBVIOUS
  <2> TAKE x \in 0 .. r.len - 1
  <2>9. z \in Nat /\ z <= E(r, j + 1) - E(r, j) /\ d \in Nat /\ call[t].i = j + 1
    BY <1>1, <2>1, <2>4
  <2>10. x \in 0 .. E(r, j) + z - 1
    <3>1. x \in 0 .. a + z - 1
      <4>1. x \in 0 .. e - 1
        OBVIOUS
      <4>2. a \in Nat /\ z \in Nat /\ e \in Nat /\ a + z = e
        BY <1>4, <2>2, <2>4
      <4> QED  BY ONLY <4>1, <4>2
    <3> QED  BY <3>1
  <2>11. CommandInv(t, r, m) /\ CountInv(t) /\ pc[t] = "seen" /\ j \in Nat
    BY <1>1, <1>2, <1>4, <2>1
  <2>12. user'[t] = Drained(user[t], call[t].done, Half(call[t].i + 1), z, d)
    BY <2>8
  <2> QED  BY ONLY <1>3, <2>9, <2>10, <2>11, <2>12, UserDrained, TypeInv, t = mutex, mutex # None,
              r = call[t].req, r.op = "from", m \in Nat, l \in Nat
<1> QED  BY <1>5, <1>6

-----------------------------------------------------------------------------
(* The program and its FPGA take the steps of AtomicCopy.                  *)
AskedNow == [t \in Threads |-> call[t].req]
MemoryNow == IF Copying THEN before ELSE mem
CopyStep ==
  [Abstract!CopyNext]_<<[t \in Threads |-> call[t].req], IF Copying THEN before ELSE mem, result>>

LEMMA CopyStays ==
  ASSUME AskedNow' = AskedNow, MemoryNow' = MemoryNow, result' = result
  PROVE  CopyStep
BY DEF CopyStep, AskedNow, MemoryNow

LEMMA CopyAsks ==
  ASSUME NEW t \in Threads, NEW c \in Calls, AskedNow[t] = NoCall, AskedNow' = [AskedNow EXCEPT ![t] = c],
         MemoryNow' = MemoryNow, result' = result
  PROVE  CopyStep
<1>1. Abstract!Ask(t, c)
  BY DEF Abstract!Ask, AskedNow, MemoryNow
<1> QED  BY <1>1 DEF CopyStep, Abstract!CopyNext

LEMMA CopyReturns ==
  ASSUME NEW t \in Threads, NEW r, r = AskedNow[t], r # NoCall, AskedNow' = [AskedNow EXCEPT ![t] = NoCall],
         \/ r.op = "to" /\ result' = result /\ MemoryNow' = Stored(MemoryNow, r)
         \/ r.op = "from" /\ MemoryNow' = MemoryNow /\ result' = [result EXCEPT ![t] = Loaded(MemoryNow, r)]
  PROVE  CopyStep
<1>1. Abstract!Copied(t)
  BY DEF Abstract!Copied, AskedNow, MemoryNow
<1> QED  BY <1>1 DEF CopyStep, Abstract!CopyNext

LEMMA CopyEnds ==
  ASSUME AskedNow' = [t \in Threads |-> NoCall], result' = result,
         \A k \in DOMAIN MemoryNow : MemoryNow'[k] # MemoryNow[k] =>
           \E t \in Threads : AskedNow[t] # NoCall /\ k \in WrittenBy(AskedNow[t])
  PROVE  CopyStep
<1>1. Abstract!Ended
  BY DEF Abstract!Ended, AskedNow, MemoryNow
<1> QED  BY <1>1 DEF CopyStep, Abstract!CopyNext

(* A step of a copy that is neither its begin nor its end.                 *)
LEMMA CopyWaits ==
  ASSUME TypeInv, mutex' = mutex, \A t \in Threads : call'[t].req = call[t].req, result' = result,
         before' = before, Copying \/ mem' = mem
  PROVE  CopyStep
<1>1. AskedNow' = AskedNow
  BY DEF AskedNow
<1>2. Copying' <=> Copying
  <2>1. mutex # None => mutex \in Threads
    BY DEF TypeInv, HostTypes
  <2> QED  BY <2>1 DEF Copying
<1>3. MemoryNow' = MemoryNow
  BY <1>2 DEF MemoryNow
<1> QED  BY <1>1, <1>3, CopyStays

LEMMA MemoryWaits ==
  ASSUME getCmd \/ procCmd \/ sendDMARead \/ (\E k \in DOMAIN reads : MemoryRead(k)) \/ getDMARead
         \/ dramStartBurst \/ FromStep \/ LandCell \/ LandCount \/ (\E t \in Threads : readStat(t))
  PROVE  mem' = mem
BY DEF FromStep, getCmd, procCmd, sendDMARead, MemoryRead, getDMARead, dramStartBurst, startDRAMRead,
   relayDRAMWord, genPcieDmaWrite, sendPcieDmaWrite, LandCell, LandCount, readStat

LEMMA CopyMove ==
  ASSUME TypeInv, Inv, Move
  PROVE  CopyStep
<1>1. UNCHANGED <<mutex, call, result, before>>
  BY HostWaits DEF hostVars
<1>2. Copying \/ mem' = mem
  <2>1. CASE relayDRAMWriteBurst
    <3>1. mutex # None
      BY <2>1, NothingMoves DEF Inv, ToStep
    <3>2. BusyFor(mutex, call[mutex].req)
      BY <3>1 DEF Inv, BusyInv
    <3>3. call[mutex].req.op = "to"
      BY <2>1, <3>1, <3>2, BusyRelayDRAMWriteBurst
    <3> QED  BY <3>1, <3>3 DEF Copying
  <2>2. CASE ~relayDRAMWriteBurst
    BY <2>2, MemoryWaits DEF Move, ToStep
  <2> QED  BY <2>1, <2>2
<1> QED  BY <1>1, <1>2, CopyWaits

LEMMA CopyLink ==
  ASSUME TypeInv, Link
  PROVE  CopyStep
<1>1. UNCHANGED <<mutex, result, before, mem>>
  BY DEF Link, LandCell, LandCount, readStat, hostVars
<1>2. \A t \in Threads : call'[t].req = call[t].req
  <2>1. call \in [Threads -> Local]
    BY DEF TypeInv, HostTypes
  <2>2. CASE call' = call
    BY <2>2
  <2>3. ASSUME NEW u, NEW n, call' = [call EXCEPT ![u].seen = n]
        PROVE  \A t \in Threads : call'[t].req = call[t].req
    <3> TAKE t \in Threads
    <3>1. call[t] \in Local /\ (call'[t] = call[t] \/ call'[t] = [call[t] EXCEPT !.seen = n])
      BY <2>1, <2>3
    <3> QED  BY <3>1 DEF Local
  <2>4. call' = call \/ \E u, n : call' = [call EXCEPT ![u].seen = n]
    BY DEF Link, LandCell, LandCount, readStat, hostVars
  <2> QED  BY <2>2, <2>3, <2>4
<1> QED  BY <1>1, <1>2, CopyWaits

LEMMA CopyEnter ==
  ASSUME TypeInv, NEW t \in Threads, NEW c \in Calls, Enter(t, c)
  PROVE  CopyStep
<1>1. /\ pc[t] = "idle" /\ call' = [call EXCEPT ![t] = Locals(c)]
      /\ UNCHANGED <<mutex, result, before, mem>>
  BY DEF Enter
<1>2. call = [s \in Threads |-> call[s]] /\ call[t].req = NoCall
  BY <1>1 DEF TypeInv, HostTypes, Loops
<1>3. Locals(c).req = c
  BY Entered
<1>4. AskedNow[t] = NoCall /\ AskedNow' = [AskedNow EXCEPT ![t] = c]
  BY <1>1, <1>2, <1>3 DEF AskedNow
<1>5. mutex # None => mutex \in Threads /\ mutex # t
  BY <1>1 DEF TypeInv, Alone, HostTypes
<1>6. Copying' <=> Copying
  BY <1>1, <1>2, <1>5 DEF Copying
<1>7. MemoryNow' = MemoryNow
  BY <1>1, <1>6 DEF MemoryNow
<1> QED  BY <1>1, <1>4, <1>7, CopyAsks

LEMMA CopyLock ==
  ASSUME NEW t \in Threads, Lock(t)
  PROVE  CopyStep
<1>1. mutex = None /\ before' = mem /\ mem' = mem /\ call' = call /\ result' = result
  BY DEF Lock
<1>2. MemoryNow' = MemoryNow
  BY <1>1 DEF MemoryNow, Copying
<1> QED  BY <1>1, <1>2, CopyStays DEF AskedNow

LEMMA CopyReturn ==
  ASSUME TypeInv, Inv, NEW t \in Threads, Return(t)
  PROVE  CopyStep
<1> PICK r : r = call[t].req
  OBVIOUS
<1>1. mutex # None
  BY NothingMoves DEF Inv
<1>2. t = mutex
  <2>1. pc[t] = "seen"
    BY DEF Return
  <2> QED  BY <1>1, <2>1, Busy, OnlyHolder
<1>3. BusyFor(t, r) /\ r \in Calls /\ r.op \in {"to", "from"} /\ r # NoCall
  BY <1>1, <1>2, Holder DEF Inv, BusyInv
<1>4. mutex' = None /\ mem' = mem /\ call' = [call EXCEPT ![t] = Idle]
  BY DEF Return
<1>5. call = [s \in Threads |-> call[s]] /\ result = [s \in Threads |-> result[s]]
  BY DEF TypeInv, HostTypes
<1>6. Idle.req = NoCall
  BY Entered DEF Idle
<1>7. r = AskedNow[t] /\ AskedNow' = [AskedNow EXCEPT ![t] = NoCall]
  BY <1>4, <1>5, <1>6 DEF AskedNow
<1>8. MemoryNow' = mem
  BY <1>4 DEF MemoryNow, Copying
<1>9. CASE r.op = "to"
  <2>1. MemoryNow = before
    BY <1>1, <1>2, <1>9 DEF MemoryNow, Copying
  <2>2. mem = Stored(before, r)
    BY <1>1, <1>2, <1>3, <1>9, MemoryCopied
  <2>3. result' = result
    BY <1>9 DEF Return
  <2> QED  BY <1>3, <1>7, <1>8, <1>9, <2>1, <2>2, <2>3, CopyReturns
<1>10. CASE r.op = "from"
  <2>1. MemoryNow = mem
    BY <1>1, <1>2, <1>10 DEF MemoryNow, Copying
  <2>2. \A x \in 0 .. r.len - 1 : user'[t][x] = mem[Start(r) + x]
    BY <1>1, <1>2, <1>3, <1>10, AllRead
  <2>3. result' = [result EXCEPT ![t] = [k \in 1 .. r.len |-> user'[t][k - 1]]]
    BY <1>10 DEF Return
  <2>4. [k \in 1 .. r.len |-> user'[t][k - 1]] = Loaded(mem, r)
    <3>1. r.len \in Nat /\ Start(r) \in Nat
      <4>1. FirstPage(r.at) \in Nat /\ r.len \in Nat
        BY <1>3, ACall
      <4> QED  BY <4>1, Sizes DEF Start
    <3>2. ASSUME NEW k \in 1 .. r.len PROVE user'[t][k - 1] = mem[Start(r) + k - 1]
      <4> PICK x : x = k - 1
        OBVIOUS
      <4>1. x \in 0 .. r.len - 1 /\ Start(r) + x = Start(r) + k - 1
        BY <3>1
      <4> QED  BY <2>2, <4>1
    <3> QED  BY <3>2 DEF Loaded
  <2> QED  BY <1>3, <1>7, <1>8, <1>10, <2>1, <2>3, <2>4, CopyReturns
<1> QED  BY <1>3, <1>9, <1>10

LEMMA CopyRestart ==
  ASSUME TypeInv, Inv, Restart
  PROVE  CopyStep
<1>1. mutex' = None /\ call' = [t \in Threads |-> Idle] /\ mem' = mem /\ result' = result
  BY DEF Restart
<1>2. AskedNow' = [t \in Threads |-> NoCall]
  <2>1. Idle.req = NoCall
    BY Entered DEF Idle
  <2> QED  BY <1>1, <2>1 DEF AskedNow
<1>3. MemoryNow' = mem
  BY <1>1 DEF MemoryNow, Copying
<1>4. CASE ~Copying
  <2>1. MemoryNow = mem
    BY <1>4 DEF MemoryNow
  <2> QED  BY <1>1, <1>2, <1>3, <2>1, CopyEnds
<1>5. CASE Copying
  <2> PICK t : t = mutex
    OBVIOUS
  <2> PICK r : r = call[t].req
    OBVIOUS
  <2>1. mutex # None /\ r.op = "to" /\ MemoryNow = before
    BY <1>5 DEF MemoryNow, Copying
  <2>2. BusyFor(t, r) /\ t \in Threads /\ r \in Calls /\ r # NoCall /\ r.len \in Nat
    BY <2>1, Holder DEF Inv, BusyInv
  <2>3. PICK m \in Nat : CommandInv(t, r, m) /\ ToInv(t, r, m)
    BY <2>1, <2>2 DEF BusyFor
  <2> PICK w : w = Written(r, m)
    OBVIOUS
  <2> PICK e : e = E(r, Passes(r))
    OBVIOUS
  <2> PICK s : s = Start(r)
    OBVIOUS
  <2>4. w \in Nat /\ e \in Nat /\ s \in Nat /\ w <= e
    <3>1. CountInv(t)
      BY <2>2 DEF BusyFor
    <3>2. ToCells(r, m) /\ ToSizes
      BY <2>1, <2>2, <2>3, <3>1, ToNumbers
    <3>3. E(r, m) <= e /\ e \in Nat
      BY <2>2, EdgeFacts
    <3>4. FirstPage(r.at) \in Nat
      BY <2>2, ACall
    <3>5. s \in Nat
      BY <3>4, Sizes DEF Start
    <3>6. w \in Nat /\ w <= E(r, m) /\ E(r, m) \in Nat
      BY <3>2, SMTT(40) DEF ToCells, ToSizes
    <3> QED  BY <3>3, <3>5, <3>6
  <2>5. WrittenBy(r) = s .. s + e - 1
    <3>1. e = Pages(r.len) * PageCells
      BY <2>2, Edges
    <3> QED  BY <3>1 DEF WrittenBy
  <2>6. ASSUME NEW k \in MemCells, mem[k] # before[k] PROVE k \in WrittenBy(r)
    <3>1. k - s \in 0 .. w - 1
      BY <2>3, <2>6 DEF ToInv, ToMemory
    <3>2. k \in Int
      BY DEF MemCells
    <3>3. k \in s .. s + e - 1
      BY ONLY <2>4, <3>1, <3>2
    <3> QED  BY <2>5, <3>3
  <2>7. DOMAIN before = MemCells
    BY DEF TypeInv, MemoryTypes
  <2>8. r = AskedNow[t]
    BY <2>2 DEF AskedNow
  <2> QED  BY <1>1, <1>2, <1>3, <2>1, <2>2, <2>6, <2>7, <2>8, CopyEnds
<1> QED  BY <1>4, <1>5

LEMMA CopyRun ==
  ASSUME TypeInv, Inv, NEW t \in Threads, Run(t)
  PROVE  CopyStep
<1>1. CASE Construct(t) \/ StartChunk(t) \/ Arguments(t) \/ Command(t)
  <2>1. UNCHANGED <<mutex, call, result, before, mem>>
    BY <1>1 DEF Construct, StartChunk, Arguments, Command
  <2> QED  BY <2>1, CopyWaits
<1>2. CASE NextChunk(t)
  <2>1. UNCHANGED <<mutex, result, before, mem>>
    BY <1>2 DEF NextChunk
  <2>2. \A s \in Threads : call'[s].req = call[s].req
    <3>1. call \in [Threads -> Local] /\ LoopInv(call[t]) /\ call[t].i < call[t].n
      BY <1>2 DEF TypeInv, HostTypes, Loops, NextChunk
    <3>2. call' = [call EXCEPT ![t] = call'[t]]
      BY <1>2, <3>1 DEF NextChunk
    <3>3. call'[t].req = call[t].req
      BY <1>2, <3>1, NextPass DEF NextChunk
    <3> QED  BY <3>1, <3>2, <3>3
  <2> QED  BY <2>1, <2>2, CopyWaits
<1>3. CASE Lock(t)
  BY <1>3, CopyLock
<1>4. CASE Return(t)
  BY <1>4, CopyReturn
<1> QED  BY <1>1, <1>2, <1>3, <1>4 DEF Run

LEMMA CopySteps == TypeInv /\ Inv /\ [Next]_vars => CopyStep
<1> SUFFICES ASSUME TypeInv, Inv, [Next]_vars PROVE CopyStep
  OBVIOUS
<1>1. CASE UNCHANGED vars
  <2>1. UNCHANGED <<mutex, call, result, before, mem>>
    BY <1>1 DEF vars, hostVars
  <2> QED  BY <2>1, CopyWaits
<1>2. CASE Next
  BY <1>2, CopyRun, CopyEnter, CopyMove, CopyLink, CopyRestart DEF Next
<1> QED  BY <1>1, <1>2

LEMMA CopyStart == Init => AskedNow = [t \in Threads |-> NoCall]
<1>1. Idle.req = NoCall
  BY Entered DEF Idle
<1> QED  BY <1>1 DEF Init, AskedNow

(* Copies are atomic: every behaviour of the program, of the DMA and of    *)
(* the DRAM is one of AtomicCopy.  A copy that returns has changed, or     *)
(* read, all of its cells of the DRAM and no other, in spite of the two    *)
(* halves of the buffer, the words and writes on their way and the counts  *)
(* read behind them.                                                       *)
THEOREM CopiesAreAtomic ==
  ASSUME ~RestartUnderWay
  PROVE  Spec => CopiesAtomic
<1>1. TypeInv /\ Inv /\ [Next]_vars => TypeInv' /\ Inv'
  BY TypeStep, InvStep
<1>2. Init => TypeInv /\ Inv
  BY TypeStart, InvStart
<1>3. Init => [t \in Threads |-> call[t].req] = [t \in Threads |-> NoCall]
  BY CopyStart DEF AskedNow
<1>4. TypeInv /\ Inv /\ [Next]_vars =>
        [Abstract!CopyNext]_<<[t \in Threads |-> call[t].req], IF Copying THEN before ELSE mem, result>>
  BY CopySteps DEF CopyStep
<1> QED  BY <1>1, <1>2, <1>3, <1>4, PTL DEF Spec, CopiesAtomic, Abstract!CopySpec

=============================================================================
