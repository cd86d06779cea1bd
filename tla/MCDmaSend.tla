------------------------------ MODULE MCDmaSend ------------------------------
(***************************************************************************)
(* Requests and page table for the model checker: writes that a page end   *)
(* cuts before a full burst and of one word; reads across a page.          *)
(***************************************************************************)
EXTENDS DmaSend

MCWrites == {[addr |-> 3, words |-> 4], [addr |-> 2, words |-> 1]}
MCReads == {[addr |-> 3, words |-> 2]}
MCBufPages == [p \in 0 .. 2 |-> 2 - p]
=============================================================================
