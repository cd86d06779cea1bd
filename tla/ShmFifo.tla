------------------------------- MODULE ShmFifo -------------------------------
(***************************************************************************)
(* The ring in shared memory that connects the host program to a Bluesim   *)
(* simulation (cpp/ShmFifo.cpp).  Both sides map the same words: the two   *)
(* indices, the magic number and the data.  There is no lock, so a step of *)
(* the model is one access to a word the other side also uses.             *)
(*                                                                         *)
(* The source calls full() until it is false and then push(), as writeWord *)
(* and relayIOReadResp do; the drain calls empty(), tail() and pop(), as   *)
(* bdpiIOData and readWord do.  The words sent are 1, 2, 3 and so on.      *)
(***************************************************************************)
EXTENDS Integers, Sequences

CONSTANTS
  Size,       \* words in the ring (1021), one of which stays free
  MaxWords,   \* bound: words the source sends
  Window,     \* how far the source lets itself get ahead of the drain
  Creator     \* the side that creates the segment: "source" or "drain"

ASSUME RingAssumption ==
  /\ Size \in Nat /\ Size >= 2
  /\ MaxWords \in Nat /\ Window \in Nat
  /\ Creator \in {"source", "drain"}

VARIABLES
  mem, head, tail, magic,     \* the shared words
  at,        \* which access each side does next
  word,      \* the word the source is sending, or sends next
  seen,      \* what tail() returned to the drain
  taken      \* the words the drain has taken

vars == <<mem, head, tail, magic, at, word, seen, taken>>

Sides == {"source", "drain"}

NextIndexEarly(i) == IF i + 2 >= Size THEN 0 ELSE i + 1  \* mutant of NextIndex
NextIndex(i) == IF i + 1 >= Size THEN 0 ELSE i + 1

RingFullWhenEqual(t) == head = t                         \* mutant of RingFull
RingFull(t) == NextIndex(head) = t

Goes(side, step) == at' = [at EXCEPT ![side] = step]

Init ==
  /\ mem = [i \in 0 .. Size - 1 |-> 0]
  /\ head = 0 /\ tail = 0 /\ magic = FALSE
  /\ at = [s \in Sides |-> "magic"]
  /\ word = 1 /\ seen = 0
  /\ taken = <<>>

-----------------------------------------------------------------------------
(* The constructor, run by both sides: first by the one that creates the   *)
(* segment, which the other is started after.                              *)
TestMagic(s) ==
  /\ at[s] = "magic"
  /\ s = Creator \/ at[Creator] \notin {"magic", "head0", "tail0", "setMagic"}
  /\ Goes(s, IF magic THEN "idle" ELSE "head0")
  /\ UNCHANGED <<mem, head, tail, magic, word, seen, taken>>

ClearHead(s) ==
  /\ at[s] = "head0"
  /\ head' = 0
  /\ Goes(s, "tail0")
  /\ UNCHANGED <<mem, tail, magic, word, seen, taken>>

ClearTail(s) ==
  /\ at[s] = "tail0"
  /\ tail' = 0
  /\ Goes(s, "setMagic")
  /\ UNCHANGED <<mem, head, magic, word, seen, taken>>

SetMagic(s) ==
  /\ at[s] = "setMagic"
  /\ magic' = TRUE
  /\ Goes(s, "idle")
  /\ UNCHANGED <<mem, head, tail, word, seen, taken>>

-----------------------------------------------------------------------------
(* full() is false, and push() is called.                                  *)
NotFull ==
  /\ at["source"] = "idle"
  /\ word <= MaxWords /\ word - Len(taken) <= Window
  /\ ~RingFull(tail)
  /\ Goes("source", "test")
  /\ UNCHANGED <<mem, head, tail, magic, word, seen, taken>>

(* push() looks again, and gives up in silence.                            *)
PushTests ==
  /\ at["source"] = "test"
  /\ IF RingFull(tail) THEN Goes("source", "idle") /\ word' = word + 1
                       ELSE Goes("source", "store") /\ UNCHANGED word
  /\ UNCHANGED <<mem, head, tail, magic, seen, taken>>

PushStores ==
  /\ at["source"] = "store"
  /\ mem' = [mem EXCEPT ![head] = word]
  /\ Goes("source", "publish")
  /\ UNCHANGED <<head, tail, magic, word, seen, taken>>

PushPublishes ==
  /\ at["source"] = "publish"
  /\ head' = NextIndex(head)
  /\ word' = word + 1
  /\ Goes("source", "idle")
  /\ UNCHANGED <<mem, tail, magic, seen, taken>>

-----------------------------------------------------------------------------
(* empty() is false, and tail() is called.                                 *)
NotEmpty ==
  /\ at["drain"] = "idle"
  /\ tail # head
  /\ Goes("drain", "read")
  /\ UNCHANGED <<mem, head, tail, magic, word, seen, taken>>

TailReads ==
  /\ at["drain"] = "read"
  /\ seen' = mem[tail]
  /\ Goes("drain", "test")
  /\ UNCHANGED <<mem, head, tail, magic, word, taken>>

(* pop() advances tailidx past the end first and wraps it afterwards.      *)
PopAdvances ==
  /\ at["drain"] = "test"
  /\ taken' = Append(taken, seen)
  /\ IF tail = head
       THEN Goes("drain", "idle") /\ UNCHANGED tail
       ELSE /\ tail' = tail + 1
            /\ Goes("drain", IF tail' >= Size THEN "wrap" ELSE "idle")
  /\ UNCHANGED <<mem, head, magic, word, seen>>

PopWraps ==
  /\ at["drain"] = "wrap"
  /\ tail' = 0
  /\ Goes("drain", "idle")
  /\ UNCHANGED <<mem, head, magic, word, seen, taken>>

-----------------------------------------------------------------------------
Construct(s) == TestMagic(s) \/ ClearHead(s) \/ ClearTail(s) \/ SetMagic(s)
Source == NotFull \/ PushTests \/ PushStores \/ PushPublishes
Drain  == NotEmpty \/ TailReads \/ PopAdvances \/ PopWraps

Next == (\E s \in Sides : Construct(s)) \/ Source \/ Drain

Spec == Init /\ [][Next]_vars

(* Both processes keep running.                                            *)
FairSpec ==
  /\ Spec
  /\ \A s \in Sides : WF_vars(Construct(s))
  /\ WF_vars(Source) /\ WF_vars(Drain)

-----------------------------------------------------------------------------
(* Every variable has the values the shared words and locals can hold; the *)
(* drain never reads, nor the source writes, beyond the ring.              *)
TypeOK ==
  /\ mem \in [0 .. Size - 1 -> 0 .. MaxWords]
  /\ head \in 0 .. Size - 1 /\ tail \in 0 .. Size
  /\ tail = Size => at["drain"] = "wrap"
  /\ magic \in BOOLEAN
  /\ at \in [Sides -> {"magic", "head0", "tail0", "setMagic", "idle", "test", "store",
                       "publish", "read", "wrap"}]
  /\ word \in 1 .. MaxWords + 1 /\ seen \in 0 .. MaxWords
  /\ taken \in Seq(0 .. MaxWords)

(* The words between the indices; tailidx past the end stands for 0.       *)
Contents ==
  LET first == tail % Size IN
    [i \in 1 .. (head - first) % Size |-> mem[(first + i - 1) % Size]]

(* While the source keeps at most Size - 1 words under way, as readWord    *)
(* does by waiting for each answer, the ring is a FIFO: neither the index  *)
(* that is past the end for a moment nor the order of the two stores of    *)
(* push can be told from atomic operations.                                *)
Queue == INSTANCE BoundedQueue
           WITH Words <- 1 .. MaxWords, Capacity <- Size - 1,
                contents <- Contents, taken <- taken
RingIsQueue == Queue!QueueSpec

(* full() becomes false and push() returns, for every word of the source,  *)
(* while the drain keeps draining: the sides never wait for each other, at *)
(* whatever index they stand.                                              *)
SourceGoesOn == <>(word > MaxWords)

(* With "ONLY ONE SOURCE AND ONE DRAIN" the drain takes every word sent,   *)
(* once and in order, however fast they are sent.                          *)
NothingLost == \A i \in 1 .. Len(taken) : taken[i] = i
==============================================================================
