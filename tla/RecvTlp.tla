------------------------------- MODULE RecvTlp -------------------------------
(***************************************************************************)
(* recvTLP of src/PcieCtrl.bsv: the PCIe core hands over beats of two      *)
(* halves, a packet may start in either half of a beat, and tlpQ must hold *)
(* it as if it had started in the lower one.                               *)
(*                                                                         *)
(* The unit is the half (8 bytes, with its byte enables).  Halves are      *)
(* numbered in the order the core sends them.                              *)
(***************************************************************************)
EXTENDS Naturals, Sequences

CONSTANTS
  PacketLens,    \* halves in a packet
  TlpqCap,       \* entries of tlpQ (32)
  MaxHalves      \* bound: halves the core sends

(* What comes from the host is 12 bytes of header, alone, with 4 bytes, or *)
(* with a multiple of 16: an even number of halves.                        *)
ASSUME RecvAssumption ==
  /\ PacketLens \subseteq Nat /\ \A n \in PacketLens : \E k \in 1 .. n : n = 2 * k
  /\ TlpqCap \in Nat /\ MaxHalves \in Nat

VARIABLES
  sentHalves, halvesLeft,      \* the core: halves sent; left of the packet it is in
  partOffset, partBuffer,      \* 0 or 8; a half that waits for the next beat
  tlpQ, gotBeats               \* beats rejoined; those taken from tlpQ, in order

recvVars == <<sentHalves, halvesLeft, partOffset, partBuffer, tlpQ, gotBeats>>

Invalid == 0                   \* no half; also what is on the wires of an idle half

RecvInit ==
  /\ sentHalves = 0 /\ halvesLeft = 0
  /\ partOffset = 0 /\ partBuffer = Invalid
  /\ tlpQ = <<>> /\ gotBeats = <<>>

-----------------------------------------------------------------------------
(* The beats the core may hand over next: where a packet starts in it, its *)
(* halves, whether a packet ends in it, and what is left of the packet the *)
(* core is in after it.  The core may start in either half.                *)
First == sentHalves + 1
Right(n) == [sof |-> "right", low |-> First, high |-> First + 1, last |-> n = 2, left |-> n - 2]
MidAlone(n) == [sof |-> "mid", low |-> Invalid, high |-> First, last |-> FALSE, left |-> n - 1]
MidAfter(n) == [sof |-> "mid", low |-> First, high |-> First + 1, last |-> TRUE, left |-> n - 1]
LowAlone == [sof |-> "none", low |-> First, high |-> Invalid, last |-> TRUE, left |-> 0]
Both == [sof |-> "none", low |-> First, high |-> First + 1, last |-> halvesLeft = 2,
         left |-> halvesLeft - 2]

Beats ==
  IF halvesLeft = 0 THEN {Right(n) : n \in PacketLens} \cup {MidAlone(n) : n \in PacketLens}
  ELSE IF halvesLeft = 1 THEN {MidAfter(n) : n \in PacketLens} \cup {LowAlone}
  ELSE {Both}

HalvesIn(b) == IF b.low = Invalid \/ b.high = Invalid THEN 1 ELSE 2

-----------------------------------------------------------------------------
enqTlp(low, high) == /\ Len(tlpQ) < TlpqCap
                     /\ tlpQ' = Append(tlpQ, <<low, high>>)

sofRight(b) ==
  /\ b.sof = "right"
  /\ partOffset' = 0 /\ partBuffer' = Invalid
  /\ enqTlp(b.low, b.high)

(* The lower half, if the packet before has not ended, is its end.         *)
sofMid(b) ==
  /\ b.sof = "mid"
  /\ partOffset' = 8 /\ partBuffer' = b.high
  /\ \/ partBuffer # Invalid /\ enqTlp(partBuffer, b.low)
     \/ partBuffer = Invalid /\ UNCHANGED tlpQ

inPacket(b) ==
  /\ b.sof = "none" /\ partOffset = 0
  /\ enqTlp(b.low, b.high)
  /\ UNCHANGED <<partOffset, partBuffer>>

inStraddledKeeps(b) ==                                   \* mutant of inStraddled
  /\ b.sof = "none" /\ partOffset = 8
  /\ partBuffer' = IF b.last THEN partBuffer ELSE b.high
  /\ enqTlp(partBuffer, b.low)
  /\ UNCHANGED partOffset

inStraddled(b) ==
  /\ b.sof = "none" /\ partOffset = 8
  /\ partBuffer' = IF b.last THEN Invalid ELSE b.high
  /\ enqTlp(partBuffer, b.low)
  /\ UNCHANGED partOffset

recvTLP ==
  \E b \in Beats :
    /\ sentHalves + HalvesIn(b) <= MaxHalves
    /\ sofRight(b) \/ sofMid(b) \/ inPacket(b) \/ inStraddled(b)
    /\ sentHalves' = sentHalves + HalvesIn(b) /\ halvesLeft' = b.left
    /\ UNCHANGED gotBeats

(* filterStatReadTLP and the completion rules, which find whole beats.     *)
takeTlp ==
  /\ tlpQ # <<>>
  /\ tlpQ' = Tail(tlpQ) /\ gotBeats' = Append(gotBeats, Head(tlpQ))
  /\ UNCHANGED <<sentHalves, halvesLeft, partOffset, partBuffer>>

RecvNext == recvTLP \/ takeTlp

RecvSpec == RecvInit /\ [][RecvNext]_recvVars

-----------------------------------------------------------------------------
(* The beats behind tlpQ are those of the packets, each half once and in   *)
(* order, whatever the alternation of aligned and straddling packets; and  *)
(* when the core is between packets no half of one is held back.           *)
PacketsWhole ==
  LET got == gotBeats \o tlpQ IN
    /\ \A k \in 1 .. Len(got) : got[k] = <<2 * k - 1, 2 * k>>
    /\ halvesLeft = 0 => 2 * Len(got) = sentHalves
=============================================================================
