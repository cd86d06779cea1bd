------------------------------- MODULE MCParts -------------------------------
(***************************************************************************)
(* Four parts of the library that carry words and do not meet in one       *)
(* build, or share no state: the ring of the simulation, the realignment   *)
(* of received beats, a merge tree, and the DRAM with several clients.     *)
(* A behaviour is one of one part, and the others stay as they start.      *)
(***************************************************************************)
EXTENDS ShmFifo, RecvTlp, MergeN, DramBurst

(* Bursts over two regions, and at odd addresses over three rows.          *)
MCReadBursts == {[addr |-> 9, words |-> 2], [addr |-> 10, words |-> 1]}
MCWriteBursts == {[addr |-> 9, words |-> 2], [addr |-> 6, words |-> 2]}

(* What the theorem about them assumes.                                    *)
ASSUME MCBursts == BurstsFit /\ WritesFill

VARIABLE part

partsVars == <<part, vars, recvVars, mergeVars, dramVars>>

PartsInit ==
  /\ part \in {"ring", "recv", "merge", "dram"}
  /\ Init /\ RecvInit /\ MergeInit /\ DramInit

Ring(A)  == part = "ring" /\ A /\ UNCHANGED <<part, recvVars, mergeVars, dramVars>>
Recv(A)  == part = "recv" /\ A /\ UNCHANGED <<part, vars, mergeVars, dramVars>>
Merge(A) == part = "merge" /\ A /\ UNCHANGED <<part, vars, recvVars, dramVars>>
Dram(A)  == part = "dram" /\ A /\ UNCHANGED <<part, vars, recvVars, mergeVars>>

PartsNext == Ring(Next) \/ Recv(RecvNext) \/ Merge(MergeNext) \/ Dram(DramNext)

(* The two processes of the ring keep running, and a rule of the merge that*)
(* stays able to fire fires; what it puts out is taken.                    *)
PartsSpec ==
  /\ PartsInit /\ [][PartsNext]_partsVars
  /\ \A s \in Sides : WF_partsVars(Ring(Construct(s)))
  /\ WF_partsVars(Ring(Source)) /\ WF_partsVars(Ring(Drain))
  /\ \A k \in Nodes : WF_partsVars(Merge(merge(k))) /\ WF_partsVars(Merge(ma1(k)))
  /\ WF_partsVars(Merge(deq))

(* SourceGoesOn in the behaviours of the ring: full() becomes false and    *)
(* push() returns for every word while the drain keeps draining.           *)
RingGoesOn == part = "ring" => SourceGoesOn
=============================================================================
