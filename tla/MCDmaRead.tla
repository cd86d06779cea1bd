------------------------------ MODULE MCDmaRead ------------------------------
(***************************************************************************)
(* Requests and page table for the model checker: requests longer than a   *)
(* burst, across a page boundary, and inside one page.                     *)
(***************************************************************************)
EXTENDS DmaRead

MCRequests == {[addr |-> 1, words |-> 4], [addr |-> 4, words |-> 2]}

MCBufPages == [p \in 0 .. 2 |-> 2 - p]
=============================================================================
