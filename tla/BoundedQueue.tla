---------------------------- MODULE BoundedQueue ----------------------------
(***************************************************************************)
(* What a FIFO promises: words come out in the order they went in, each    *)
(* exactly once, and at most Capacity of them are inside.                  *)
(***************************************************************************)
EXTENDS Naturals, Sequences

CONSTANTS Words, Capacity

VARIABLES contents, taken     \* words inside; words that came out, in order

QueueInit == contents = <<>> /\ taken = <<>>

Put(w) ==
  /\ Len(contents) < Capacity
  /\ contents' = Append(contents, w)
  /\ UNCHANGED taken

Take ==
  /\ contents # <<>>
  /\ contents' = Tail(contents)
  /\ taken' = Append(taken, Head(contents))

QueueNext == Take \/ \E w \in Words : Put(w)

QueueSpec == QueueInit /\ [][QueueNext]_<<contents, taken>>
=============================================================================
