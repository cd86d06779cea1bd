------------------------------ MODULE AtomicCopy ------------------------------
(***************************************************************************)
(* What CopyToFPGA and CopyFromFPGA promise their callers: between the     *)
(* call and its return the memory of the FPGA is changed, or read, in one  *)
(* step.  A process that ends in a call leaves what the call was to write  *)
(* in any state.                                                           *)
(***************************************************************************)
EXTENDS Integers, Sequences

CONSTANTS
  Threads,
  Calls, NoCall,   \* [op, at, len, data]: the calls a program makes
  Store(_, _),     \* Store(m, c): m after the call c has copied to it
  Load(_, _),      \* Load(m, c): what the call c reads from m
  Written(_)       \* Written(c): the places of memory that c writes

VARIABLES asked, memory, result   \* asked[t]: the call of t; result[t]: of its last copy

Ask(t, c) ==
  /\ asked[t] = NoCall
  /\ asked' = [asked EXCEPT ![t] = c]
  /\ UNCHANGED <<memory, result>>

Copied(t) ==
  LET c == asked[t] IN
  /\ c # NoCall
  /\ asked' = [asked EXCEPT ![t] = NoCall]
  /\ \/ /\ c.op = "to" /\ UNCHANGED result
        /\ memory' = Store(memory, c)
     \/ /\ c.op = "from" /\ UNCHANGED memory
        /\ result' = [result EXCEPT ![t] = Load(memory, c)]

Ended ==
  /\ asked' = [t \in Threads |-> NoCall]
  /\ UNCHANGED result
  /\ \A k \in DOMAIN memory :
       memory'[k] # memory[k] =>
         \E t \in Threads : asked[t] # NoCall /\ k \in Written(asked[t])

CopyNext ==
  \/ \E t \in Threads : Copied(t) \/ \E c \in Calls : Ask(t, c)
  \/ Ended

CopySpec ==
  /\ asked = [t \in Threads |-> NoCall]
  /\ [][CopyNext]_<<asked, memory, result>>
=============================================================================
