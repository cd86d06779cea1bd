----------------------------- MODULE OrderedRead -----------------------------
(***************************************************************************)
(* What a DMA read promises its user: the words of all requests come in    *)
(* the order of the requests and of their addresses, each exactly once.    *)
(***************************************************************************)
EXTENDS Naturals, Sequences

CONSTANTS Requests, WordsOf(_)   \* WordsOf(r): the words request r asks for

VARIABLES pending, delivered     \* words still to come; words that came

ReadInit == pending = <<>> /\ delivered = <<>>

Ask(r) ==
  /\ pending' = pending \o WordsOf(r)
  /\ UNCHANGED delivered

Deliver ==
  /\ pending # <<>>
  /\ pending' = Tail(pending)
  /\ delivered' = Append(delivered, Head(pending))

ReadNext == Deliver \/ \E r \in Requests : Ask(r)

ReadSpec == ReadInit /\ [][ReadNext]_<<pending, delivered>>
=============================================================================
