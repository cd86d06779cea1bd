------------------------------- MODULE MergeN -------------------------------
(***************************************************************************)
(* mkMergeN of src/MergeN.bsv: a binary tree of mkMerge2 over a number of  *)
(* sources that is a power of two.  PcieCtrl merges what it sends with one *)
(* of 8 sources.                                                           *)
(*                                                                         *)
(* The Merge2s are numbered as a heap: 1 is the root, and what 2 * k and   *)
(* 2 * k + 1 put out goes into the two inputs of k.  Source s is the       *)
(* number s + Sources of that heap.  Items of one source are numbered      *)
(* modulo NoMod, without end; those of the others are not told apart.      *)
(***************************************************************************)
EXTENDS Naturals, Sequences, FiniteSets

CONSTANTS
  Sources,       \* how many; a power of two
  MergeFifo,     \* entries of an mkFIFO (2)
  NoMod,         \* the numbers of the items
  Watched        \* the source whose items are numbered

ASSUME MergeAssumption ==
  /\ Sources \in Nat /\ Sources >= 2 /\ \E d \in 1 .. Sources : 2 ^ d = Sources
  /\ MergeFifo \in Nat \ {0} /\ NoMod \in Nat /\ NoMod >= 2
  /\ Watched \in 0 .. Sources - 1

VARIABLES
  inQ, outQ, prio,     \* of every Merge2
  put, got             \* the next item to put in, and to come out, of Watched

mergeVars == <<inQ, outQ, prio, put, got>>

Nodes == 1 .. Sources - 1
SourceIds == 0 .. Sources - 1
Into(h) == [node |-> h \div 2, side |-> h % 2]     \* where number h of the heap puts

MergeInit ==
  /\ inQ = [k \in Nodes |-> [i \in 0 .. 1 |-> <<>>]]
  /\ outQ = [k \in Nodes |-> <<>>]
  /\ prio = [k \in Nodes |-> 0]
  /\ put = 0 /\ got = 0

-----------------------------------------------------------------------------
putInDrops(h, item) ==                                   \* mutant of putIn
  LET to == Into(h) IN
    inQ' = IF Len(inQ[to.node][to.side]) < MergeFifo
           THEN [inQ EXCEPT ![to.node][to.side] = Append(@, item)] ELSE inQ

putIn(h, item) ==
  LET to == Into(h) IN
    /\ Len(inQ[to.node][to.side]) < MergeFifo
    /\ inQ' = [inQ EXCEPT ![to.node][to.side] = Append(@, item)]

enq(s) ==
  /\ putIn(s + Sources, [src |-> s, no |-> IF s = Watched THEN put ELSE 0])
  /\ put' = IF s = Watched THEN (put + 1) % NoMod ELSE put
  /\ UNCHANGED <<outQ, prio, got>>

(* The input merge takes from: the one whose turn it is unless it is empty.*)
FixedTurn(k) == IF inQ[k][0] # <<>> THEN 0 ELSE 1        \* mutant of Turn
Turn(k) == IF inQ[k][prio[k]] # <<>> THEN prio[k] ELSE 1 - prio[k]

(* The rule also fires, and the turn changes, when there is nothing.       *)
merge(k) ==
  /\ prio' = [prio EXCEPT ![k] = 1 - @]
  /\ \/ /\ inQ[k][Turn(k)] # <<>> /\ Len(outQ[k]) < MergeFifo
        /\ outQ' = [outQ EXCEPT ![k] = Append(@, Head(inQ[k][Turn(k)]))]
        /\ inQ' = [inQ EXCEPT ![k][Turn(k)] = Tail(@)]
     \/ /\ inQ[k][0] = <<>> /\ inQ[k][1] = <<>>
        /\ UNCHANGED <<inQ, outQ>>
  /\ UNCHANGED <<put, got>>

(* One level's output goes into the next.                                  *)
ma1(k) ==
  /\ k # 1 /\ outQ[k] # <<>>
  /\ putIn(k, Head(outQ[k]))
  /\ outQ' = [outQ EXCEPT ![k] = Tail(@)]
  /\ UNCHANGED <<prio, put, got>>

deq ==
  /\ outQ[1] # <<>>
  /\ outQ' = [outQ EXCEPT ![1] = Tail(@)]
  /\ got' = IF Head(outQ[1]).src = Watched THEN (got + 1) % NoMod ELSE got
  /\ UNCHANGED <<inQ, prio, put>>

MergeNext ==
  \/ \E s \in SourceIds : enq(s)
  \/ \E k \in Nodes : merge(k) \/ ma1(k)
  \/ deq

MergeSpec == MergeInit /\ [][MergeNext]_mergeVars

-----------------------------------------------------------------------------
(* What has gone in at number h of the heap and not come out, oldest first.*)
Along[h \in 1 .. 2 * Sources - 1] ==
  IF h = 1 THEN outQ[1]
  ELSE Along[h \div 2] \o inQ[Into(h).node][Into(h).side]
                       \o (IF h < Sources THEN outQ[h] ELSE <<>>)

Inside == Along[Watched + Sources]
Own(n) == Cardinality({i \in 1 .. n : Inside[i].src = Watched})

(* The items of a source stay in order and none is lost or doubled, however*)
(* full the tree is and whoever else puts items in.                        *)
KeepsOrder ==
  /\ \A i \in 1 .. Len(Inside) :
       Inside[i].src = Watched => Inside[i].no = (got + Own(i - 1)) % NoMod
  /\ put = (got + Own(Len(Inside))) % NoMod

(* An item comes out although all other sources put items in without end:  *)
(* the turn alternates with each item, so a busy neighbour is ahead of it  *)
(* at most once per level.                                                 *)
NobodyStarves == \A n \in 0 .. NoMod - 1 : (got = n /\ Own(Len(Inside)) > 0) ~> got # n
=============================================================================
