------------------------------ MODULE MCHostDma ------------------------------
(***************************************************************************)
(* Calls for the model checker: a copy to the FPGA of more than two halves *)
(* that ends inside a page, one over it at an offset that is not a page's, *)
(* and reads of one and of three halves.                                   *)
(***************************************************************************)
EXTENDS HostDma

CONSTANTS d1, d2, d3, d4, d5, d6

MCData == {d1, d2, d3, d4, d5, d6}

MCCalls == {[op |-> "to", at |-> 0, len |-> 5, data |-> <<d1, d2, d3, d4, d5>>],
            [op |-> "to", at |-> 3, len |-> 1, data |-> <<d6>>],
            [op |-> "from", at |-> 0, len |-> 5, data |-> <<>>],
            [op |-> "from", at |-> 4, len |-> 2, data |-> <<>>]}
=============================================================================
