---------------------------- MODULE PcieMmioProofs ---------------------------
(***************************************************************************)
(* Theorems about PcieMmio, for every number of threads, queue sizes and   *)
(* counter widths that ConstAssumption allows: its types, then why its     *)
(* credits are safe, in three parts:                                       *)
(*                                                                         *)
(*   the write credit while the host process runs on (CreditInv),          *)
(*   the read credit of that process                 (ReadInv),            *)
(*   and what restarts add to the writes in flight   (BacklogInv).         *)
(*                                                                         *)
(* writeWord works with a counter value that is old by the time it is      *)
(* used.  The argument is that it can only be old in the harmless          *)
(* direction (Stale), that one thread at a time holds such a value, and    *)
(* that the lock keeps io_wreq still until it is used.  readWord holds its *)
(* lock over the load of the word too, so there nothing is old at all.     *)
(***************************************************************************)
EXTENDS PcieMmio, SequenceTheorems, FiniteSetTheorems, FunctionTheorems,
        TLAPS

IsUserWrite(x) == IF x.kind = "userWrite" THEN 1 ELSE 0
Positions(s)   == {i \in 1 .. Len(s) : s[i].kind = "userWrite"}

(* The count is the number of positions that hold a user write.            *)
LEMMA CountIs == \A s : UserWritesIn(s) = Cardinality(Positions(s))
  BY DEF UserWritesIn, Positions

(* How many user writes a queue of TLPs holds is a number.                 *)
LEMMA CountType ==
  ASSUME NEW s \in Seq(Tlp)
  PROVE  IsFiniteSet(Positions(s)) /\ UserWritesIn(s) \in Nat
<1>1. Len(s) \in Nat
  BY LenProperties
<1>2. IsFiniteSet(1 .. Len(s))
  BY <1>1, FS_Interval
<1>3. IsFiniteSet(Positions(s))
  <2>1. Positions(s) \in SUBSET (1 .. Len(s))
    BY DEF Positions
  <2> QED  BY <1>2, <2>1, FS_Subset
<1> QED  BY <1>3, FS_CardinalityType, CountIs

(* An empty queue holds none.                                              *)
LEMMA CountEmpty == UserWritesIn(<<>>) = 0
<1>1. {i \in 1 .. Len(<<>>) : <<>>[i].kind = "userWrite"} = {}
  OBVIOUS
<1> QED  BY <1>1, FS_EmptySet DEF UserWritesIn

(* A TLP put into a queue counts if it is a user write.                    *)
LEMMA CountAppend ==
  ASSUME NEW s \in Seq(Tlp), NEW x \in Tlp
  PROVE  UserWritesIn(Append(s, x)) = UserWritesIn(s) + IsUserWrite(x)
<1> DEFINE a == Append(s, x)
<1>1. /\ Len(s) \in Nat /\ Len(a) = Len(s) + 1 /\ a[Len(s) + 1] = x
      /\ \A i \in 1 .. Len(s) : a[i] = s[i]
  BY AppendProperties, LenProperties
<1>2. IsFiniteSet(Positions(s)) /\ Cardinality(Positions(s)) \in Nat
  BY CountType, FS_CardinalityType
<1>3. Len(s) + 1 \notin Positions(s)
  BY <1>1 DEF Positions
<1>4. CASE x.kind = "userWrite"
  <2>1. Positions(a) = Positions(s) \cup {Len(s) + 1}
    BY <1>1, <1>4 DEF Positions
  <2>2. Cardinality(Positions(a)) = Cardinality(Positions(s)) + 1
    BY <2>1, <1>2, <1>3, FS_AddElement
  <2> QED  BY <2>2, <1>4, CountIs DEF IsUserWrite
<1>5. CASE x.kind # "userWrite"
  <2>1. Positions(a) = Positions(s)
    BY <1>1, <1>5 DEF Positions
  <2> QED  BY <2>1, <1>2, <1>5, CountIs DEF IsUserWrite
<1> QED  BY <1>4, <1>5

(* A TLP taken from the front of a queue no longer counts.                 *)
LEMMA CountTail ==
  ASSUME NEW s \in Seq(Tlp), s # <<>>
  PROVE  UserWritesIn(s) = UserWritesIn(Tail(s)) + IsUserWrite(Head(s))
<1> DEFINE t == Tail(s)
           rest == Positions(s) \ {1}
           f == [i \in Positions(t) |-> i + 1]
<1>1. /\ Len(s) \in Nat /\ Len(t) = Len(s) - 1 /\ t \in Seq(Tlp)
      /\ Len(s) # 0 /\ Head(s) = s[1]
      /\ \A i \in 1 .. Len(t) : t[i] = s[i + 1]
  BY HeadTailProperties, LenProperties, EmptySeq
<1>2. /\ IsFiniteSet(Positions(s)) /\ Cardinality(Positions(s)) \in Nat
      /\ IsFiniteSet(Positions(t)) /\ Cardinality(Positions(t)) \in Nat
  BY <1>1, CountType, FS_CardinalityType
<1>3. f \in Bijection(Positions(t), rest)
  <2>1. f \in [Positions(t) -> rest]
    BY <1>1 DEF Positions
  <2>2. \A i, j \in Positions(t) : f[i] = f[j] => i = j
    BY <1>1 DEF Positions
  <2>3. ASSUME NEW j \in rest PROVE \E i \in Positions(t) : f[i] = j
    <3>1. j - 1 \in Positions(t)
      BY <1>1 DEF Positions
    <3>2. f[j - 1] = j
      BY <3>1 DEF Positions
    <3> QED  BY <3>1, <3>2
  <2> HIDE DEF rest, f, t
  <2> QED  BY <2>1, <2>2, <2>3, Fun_IsBij
<1>4. Cardinality(rest) = Cardinality(Positions(t))
  <2>1. ExistsBijection(Positions(t), rest)
    BY <1>3, Zenon DEF ExistsBijection
  <2> HIDE DEF rest, f, t
  <2> QED  BY <2>1, <1>2, FS_Bijection
<1>5. Cardinality(rest) = Cardinality(Positions(s)) - IsUserWrite(Head(s))
  <2>1. 1 \in Positions(s) <=> Head(s).kind = "userWrite"
    BY <1>1 DEF Positions
  <2> HIDE DEF rest
  <2>2. Cardinality(rest) =
          IF 1 \in Positions(s) THEN Cardinality(Positions(s)) - 1
                                ELSE Cardinality(Positions(s))
    BY <1>2, FS_RemoveElement DEF rest
  <2> QED  BY <2>1, <2>2, <1>2 DEF IsUserWrite
<1> HIDE DEF rest, t
<1>6. UserWritesIn(Tail(s)) = Cardinality(Positions(t))
  BY CountIs DEF t
<1> QED  BY <1>2, <1>4, <1>5, <1>6, CountIs DEF IsUserWrite

-----------------------------------------------------------------------------
(***************************************************************************)
(* Type correctness.  The budget writeWord computes is in range only       *)
(* because the counter value it works with is: TypeInv adds that.          *)
(***************************************************************************)
LoadedInRange(C) == \A c \in C : c.kind = "wemit" => c.val < WordMod
TestInRange == \A t \in Threads : pc[t] = "wTest" => emit[t] < WordMod
TypeInv == TypeOK /\ LoadedInRange(cpl) /\ TestInRange

(* What the host sends is a TLP.                                           *)
LEMMA TlpTypes ==
  ASSUME NEW t \in Threads
  PROVE  /\ Load("wemit", t) \in Tlp /\ Load("remit", t) \in Tlp
         /\ Store("init") \in Tlp
         /\ \A a : WriteTlp(a) \in Tlp
         /\ \A a \in {"user", "config", "fixed"} : ReadTlp(a, t) \in Tlp
BY DEF Load, Store, Tlp, Loads, DataLoads, Stores, WriteTlp, ReadTlp

(* Sending appends a TLP to tlpQ and leaves it a queue of TLPs.            *)
LEMMA SendType ==
  ASSUME tlpQ \in Seq(Tlp), NEW x \in Tlp, Send(x)
  PROVE  tlpQ' \in Seq(Tlp)
BY AppendProperties DEF Send

(* Queues stay queues when an entry is put in or taken out.                *)
LEMMA QueueTypes ==
  ASSUME NEW S, NEW s \in Seq(S)
  PROVE  /\ \A x \in S : Append(s, x) \in Seq(S)
         /\ s # <<>> => Head(s) \in S /\ Tail(s) \in Seq(S)
BY AppendProperties, HeadTailProperties

(* Unsigned arithmetic stays within the width.                             *)
LEMMA ModularTypes ==
  ASSUME NEW m \in Nat, NEW a \in 0 .. m - 1, NEW b \in 0 .. m
  PROVE  /\ Plus(a, b, m) \in 0 .. m - 1
         /\ b < m => Minus(a, b, m) \in 0 .. m - 1
BY DEF Plus, Minus

(* Steps leave the type of what they do not change alone.                  *)
LEMMA Frames ==
  ASSUME TypeInv
  PROVE  /\ UNCHANGED hostVars => HostTypeOK' /\ TestInRange'
         /\ UNCHANGED tlpVars => TlpTypeOK'
         /\ UNCHANGED writeVars => WriteTypeOK'
         /\ UNCHANGED readVars => ReadTypeOK'
         /\ UNCHANGED cpl => (cpl \in SUBSET Completion)' /\ LoadedInRange(cpl')
BY DEF TypeInv, TypeOK, HostTypeOK, TlpTypeOK, WriteTypeOK, ReadTypeOK, TestInRange,
       LoadedInRange, hostVars, tlpVars, writeVars, readVars

(* An answer is a completion, and carries a counter value in range.        *)
LEMMA AnswerType ==
  ASSUME TypeInv, NEW k \in Loads, NEW t \in Threads, NEW v \in Nat,
         k = "wemit" => v < WordMod, Answer(k, t, v)
  PROVE  (cpl \in SUBSET Completion)' /\ LoadedInRange(cpl')
BY DEF Answer, TypeInv, TypeOK, LoadedInRange, Completion

(* A step of writeWord or readWord.                                        *)
LEMMA HostTypes ==
  ASSUME TypeInv, NEW t \in Threads, StartCall(t) \/ Continue(t)
  PROVE  TypeInv'
<1> USE ConstAssumption
<1>1. /\ HostTypeOK /\ TlpTypeOK /\ TestInRange
      /\ LoadedInRange(cpl) /\ cpl \in SUBSET Completion
  BY DEF TypeInv, TypeOK
<1>2. ASSUME NEW x \in Tlp, Send(x), UNCHANGED <<tlp2Q, tlp3Q, ioReadQ>>
      PROVE  TlpTypeOK'
  BY <1>1, <1>2, SendType DEF TlpTypeOK
<1>3. SUFFICES /\ HostTypeOK' /\ TestInRange' /\ TlpTypeOK'
               /\ (cpl \in SUBSET Completion)' /\ LoadedInRange(cpl')
               /\ UNCHANGED <<writeVars, readVars>>
  BY Frames DEF TypeInv, TypeOK
<1>4. ASSUME NEW a \in WriteKinds, WriteBudgeted(t, a) PROVE <1>3!1
  <2>1. TlpTypeOK'
    BY <1>2, <1>4, TlpTypes DEF WriteBudgeted
  <2>2. HostTypeOK' /\ TestInRange'
    BY <1>1, <1>4 DEF WriteBudgeted, HostTypeOK, TestInRange
  <2> QED  BY <2>1, <2>2, <1>1, <1>4 DEF WriteBudgeted
<1>5. ASSUME NEW a \in WriteKinds, WriteLoadEmit(t, a) PROVE <1>3!1
  <2>1. TlpTypeOK'
    BY <1>2, <1>5, TlpTypes DEF WriteLoadEmit
  <2>2. HostTypeOK' /\ TestInRange'
    BY <1>1, <1>5 DEF WriteLoadEmit, HostTypeOK, TestInRange
  <2> QED  BY <2>1, <2>2, <1>1, <1>5 DEF WriteLoadEmit
<1>6. ASSUME NEW a \in ReadKinds, ReadBudgeted(t, a) PROVE <1>3!1
  <2>1. TlpTypeOK'
    BY <1>2, <1>6, TlpTypes DEF ReadBudgeted, IssueRead
  <2>2. Plus(io_rreq, 1, ReadMod) \in 0 .. ReadMod - 1
    BY <1>1, ModularTypes DEF HostTypeOK
  <2>3. HostTypeOK' /\ TestInRange'
    BY <1>1, <1>6, <2>2 DEF ReadBudgeted, IssueRead, HostTypeOK, TestInRange
  <2> QED  BY <2>1, <2>3, <1>1, <1>6 DEF ReadBudgeted
<1>7. ASSUME NEW a \in ReadKinds, ReadLoadEmit(t, a) PROVE <1>3!1
  <2>1. TlpTypeOK'
    BY <1>2, <1>7, TlpTypes DEF ReadLoadEmit
  <2>2. HostTypeOK' /\ TestInRange'
    BY <1>1, <1>7 DEF ReadLoadEmit, HostTypeOK, TestInRange
  <2> QED  BY <2>1, <2>2, <1>1, <1>7 DEF ReadLoadEmit
<1>8. ASSUME WriteRetry(t) PROVE <1>3!1
  <2>1. TlpTypeOK'
    BY <1>2, <1>8, TlpTypes DEF WriteRetry
  <2>2. HostTypeOK' /\ TestInRange'
    BY <1>1, <1>8 DEF WriteRetry, HostTypeOK, TestInRange
  <2> QED  BY <2>1, <2>2, <1>1, <1>8 DEF WriteRetry
<1>9. ASSUME WriteRefill(t) PROVE <1>3!1
  <2>1. TlpTypeOK'
    BY <1>2, <1>9, TlpTypes DEF WriteRefill
  <2>2. Outstanding(t) \in Nat /\ Outstanding(t) < IO_QUEUE_SIZE
    <3>1. emit[t] \in 0 .. WordMod - 1 /\ io_wreq \in 0 .. WordMod - 1
      BY <1>1, <1>9 DEF WriteRefill, HostTypeOK, TestInRange
    <3>2. Minus(io_wreq, emit[t], WordMod) \in 0 .. WordMod - 1
      BY <3>1, ModularTypes
    <3>3. Outstanding(t) < IO_QUEUE_SIZE \div 2
      BY <1>9 DEF WriteRefill
    <3>4. IO_QUEUE_SIZE \div 2 \in Nat /\ IO_QUEUE_SIZE \div 2 <= IO_QUEUE_SIZE
      OBVIOUS
    <3> QED  BY <3>2, <3>3, <3>4 DEF Outstanding
  <2>3. /\ IO_QUEUE_SIZE - Outstanding(t) \in 0 .. IO_QUEUE_SIZE
        /\ Charge(t) \in 0 .. WordMod
    BY <2>2 DEF Charge
  <2>4. Plus(io_wreq, Charge(t), WordMod) \in 0 .. WordMod - 1
    BY <1>1, <2>3, ModularTypes DEF HostTypeOK
  <2>5. HostTypeOK' /\ TestInRange'
    BY <1>1, <1>9, <2>3, <2>4 DEF WriteRefill, Return, HostTypeOK, TestInRange
  <2> QED  BY <2>1, <2>5, <1>1, <1>9 DEF WriteRefill
<1>10. ASSUME ReadRetry(t) PROVE <1>3!1
  <2>1. TlpTypeOK'
    BY <1>2, <1>10, TlpTypes DEF ReadRetry
  <2>2. HostTypeOK' /\ TestInRange'
    BY <1>1, <1>10 DEF ReadRetry, HostTypeOK, TestInRange
  <2> QED  BY <2>1, <2>2, <1>1, <1>10 DEF ReadRetry
<1>11. ASSUME ReadRefill(t) PROVE <1>3!1
  <2>1. TlpTypeOK'
    BY <1>1, <1>2, <1>11, TlpTypes DEF ReadRefill, IssueRead, HostTypeOK
  <2>2. Plus(io_rreq, 1, ReadMod) \in 0 .. ReadMod - 1
    BY <1>1, ModularTypes DEF HostTypeOK
  <2>3. HostTypeOK' /\ TestInRange'
    BY <1>1, <1>11, <2>2 DEF ReadRefill, IssueRead, HostTypeOK, TestInRange
  <2> QED  BY <2>1, <2>3, <1>1, <1>11 DEF ReadRefill
<1>12. ASSUME LoadReturns(t) PROVE <1>3!1
  <2>1. PICK c \in cpl : LoadReturns(t)!(c)
    BY <1>12 DEF LoadReturns
  <2>2. c \in Completion /\ (c.kind = "wemit" => c.val < WordMod)
    BY <1>1, <2>1 DEF LoadedInRange
  <2>3. c.val \in Nat /\ Widened(c.val) \in Nat
    BY <1>1, <2>2 DEF Completion, Widened, HostTypeOK
  <2>5. /\ emit' \in [Threads -> Nat] /\ iob' \in [Threads -> Nat]
        /\ addr' \in [Threads -> {"user", "config", "fixed"}]
        /\ readLock' \in Threads \cup {NoThread}
        /\ pc' \in [Threads -> {"idle", "wLoad", "wTest", "rLoad", "rReload",
                                 "rTest", "rData"}]
    BY <1>1, <2>1, <2>3 DEF HostTypeOK, Return
  <2>6. HostTypeOK'
    BY <1>1, <2>1, <2>5 DEF HostTypeOK
  <2>7. TestInRange'
    BY <1>1, <2>1, <2>2 DEF HostTypeOK, TestInRange, Return
  <2>4. (cpl \in SUBSET Completion)' /\ LoadedInRange(cpl')
    BY <1>1, <2>1 DEF LoadedInRange
  <2> QED  BY <1>1, <2>1, <2>6, <2>7, <2>4, Frames DEF tlpVars
<1> QED  BY <1>4, <1>5, <1>6, <1>7, <1>8, <1>9, <1>10, <1>11, <1>12 DEF StartCall, Continue

(* A rule of the FPGA or a method call of the user logic.                  *)
LEMMA HardwareTypes ==
  ASSUME TypeInv, Hardware \/ UserLogic
  PROVE  TypeInv'
<1> USE ConstAssumption
<1>1. /\ TlpTypeOK /\ WriteTypeOK /\ ReadTypeOK
      /\ LoadedInRange(cpl) /\ cpl \in SUBSET Completion
  BY DEF TypeInv, TypeOK
<1>2. SUFFICES /\ UNCHANGED hostVars
               /\ TlpTypeOK' /\ WriteTypeOK' /\ ReadTypeOK'
               /\ (cpl \in SUBSET Completion)' /\ LoadedInRange(cpl')
  BY Frames DEF TypeInv, TypeOK
<1>3. ASSUME filterStatReadTLP PROVE <1>2!1
  <2> DEFINE h == Head(tlpQ)
  <2>1. h \in Tlp /\ tlpQ' \in Seq(Tlp)
    BY <1>1, <1>3, QueueTypes DEF TlpTypeOK, filterStatReadTLP
  <2>2. UNCHANGED <<hostVars, tlp3Q, ioReadQ, writeVars, readVars>>
    BY <1>3 DEF filterStatReadTLP
  <2>3. CASE h.kind \in {"wemit", "remit", "fixedRead"}
    <3>1. h.thr \in Threads /\ h.kind \in Loads
      BY <2>1, <2>3 DEF Tlp, Stores, Loads, DataLoads
    <3>2. /\ userWriteEmit \in Nat /\ userReadEmit \in Nat
          /\ userWriteEmit < WordMod /\ 0 < WordMod
      BY <1>1 DEF WriteTypeOK, ReadTypeOK
    <3>3. /\ UNCHANGED tlp2Q
          /\ \/ h.kind = "wemit" /\ Answer(h.kind, h.thr, userWriteEmit)
             \/ h.kind = "remit" /\ Answer(h.kind, h.thr, userReadEmit)
             \/ h.kind = "fixedRead" /\ Answer(h.kind, h.thr, 0)
      BY <1>3, <2>3 DEF filterStatReadTLP
    <3> HIDE DEF h
    <3>4. (cpl \in SUBSET Completion)' /\ LoadedInRange(cpl')
      BY <3>1, <3>2, <3>3, AnswerType
    <3> QED  BY <1>1, <2>1, <2>2, <3>3, <3>4, Frames DEF TlpTypeOK
  <2>4. CASE h.kind \notin {"wemit", "remit", "fixedRead"}
    <3>1. tlp2Q' = Append(tlp2Q, h) /\ UNCHANGED cpl
      BY <1>3, <2>4 DEF filterStatReadTLP
    <3> HIDE DEF h
    <3>2. tlp2Q' \in Seq(Tlp)
      BY <1>1, <2>1, <3>1, QueueTypes DEF TlpTypeOK
    <3> QED  BY <1>1, <2>1, <2>2, <3>1, <3>2, Frames DEF TlpTypeOK
  <2> QED  BY <2>3, <2>4
<1>4. ASSUME procTLP PROVE <1>2!1
  <2> DEFINE h == Head(tlp2Q)
  <2>1. h \in Tlp /\ tlp2Q' \in Seq(Tlp)
    BY <1>1, <1>4, QueueTypes DEF TlpTypeOK, procTLP
  <2>2. UNCHANGED <<hostVars, tlpQ, writeVars, userReadQ1, userReadQ2, userReadEmit,
                    userBusy, cpl>>
    BY <1>4 DEF procTLP
  <2>3. \/ /\ h.kind \in Loads
           /\ ioReadQ' = Append(ioReadQ, h.thr) /\ UNCHANGED <<userReadQ0, tlp3Q>>
        \/ /\ h.kind \in Loads
           /\ userReadQ0' = Append(userReadQ0, h.thr) /\ UNCHANGED <<ioReadQ, tlp3Q>>
        \/ tlp3Q' = Append(tlp3Q, h) /\ UNCHANGED <<ioReadQ, userReadQ0>>
    BY <1>4 DEF procTLP, Loads, DataLoads
  <2>4. h.kind \in Loads => h.thr \in Threads
    BY <2>1 DEF Tlp, Stores, Loads, DataLoads
  <2> HIDE DEF h
  <2>51. /\ ioReadQ \in Seq(Threads)
        /\ \A x \in Threads : Append(ioReadQ, x) \in Seq(Threads)
    BY <1>1, QueueTypes DEF TlpTypeOK
  <2>61. tlp3Q \in Seq(Tlp) /\ Append(tlp3Q, h) \in Seq(Tlp)
    BY <1>1, <2>1, QueueTypes DEF TlpTypeOK
  <2>5. ioReadQ' \in Seq(Threads)
    BY <2>3, <2>4, <2>51, Zenon
  <2>6. tlp3Q' \in Seq(Tlp)
    BY <2>3, <2>61
  <2>7. userReadQ0' \in Seq(Threads)
    BY <1>1, <2>3, <2>4, QueueTypes DEF ReadTypeOK
  <2> QED  BY <1>1, <2>1, <2>2, <2>5, <2>6, <2>7, Frames DEF TlpTypeOK, ReadTypeOK
<1>5. ASSUME completeIORead PROVE <1>2!1
  <2>1. Head(ioReadQ) \in Threads /\ ioReadQ' \in Seq(Threads)
    BY <1>1, <1>5, QueueTypes DEF TlpTypeOK, completeIORead
  <2>2. /\ Answer("configRead", Head(ioReadQ), 0)
        /\ UNCHANGED <<hostVars, tlpQ, tlp2Q, tlp3Q, writeVars, readVars>>
    BY <1>5 DEF completeIORead
  <2>3. "configRead" \in Loads
    BY DEF Loads, DataLoads
  <2>4. (cpl \in SUBSET Completion)' /\ LoadedInRange(cpl')
    BY <2>1, <2>2, <2>3, AnswerType
  <2> QED  BY <1>1, <2>1, <2>2, <2>4, Frames DEF TlpTypeOK
<1>6. ASSUME procIOWrite PROVE <1>2!1
  <2>1. tlp3Q' \in Seq(Tlp)
    BY <1>1, <1>6, QueueTypes DEF TlpTypeOK, procIOWrite
  <2>2. WriteTypeOK' /\ ReadTypeOK'
    BY <1>1, <1>6 DEF WriteTypeOK, ReadTypeOK, procIOWrite
  <2> QED  BY <1>1, <1>6, <2>1, <2>2, Frames DEF TlpTypeOK, procIOWrite
<1>7. ASSUME relayUserWriteQ PROVE <1>2!1
  BY <1>1, <1>7, Frames DEF relayUserWriteQ, WriteTypeOK
<1>8. ASSUME relayUserWrite2Q PROVE <1>2!1
  BY <1>1, <1>8, Frames DEF relayUserWrite2Q, WriteTypeOK
<1>9. ASSUME relayUserReadQ0 PROVE <1>2!1
  <2>1. userReadQ0' \in Seq(Threads) /\ userReadQ1' \in Seq(Threads)
    BY <1>1, <1>9, QueueTypes DEF relayUserReadQ0, ReadTypeOK
  <2> QED  BY <1>1, <1>9, <2>1, Frames DEF relayUserReadQ0, ReadTypeOK
<1>10. ASSUME relayUserReadQ1 PROVE <1>2!1
  <2>1. userReadQ1' \in Seq(Threads) /\ userReadQ2' \in Seq(Threads)
    BY <1>1, <1>10, QueueTypes DEF relayUserReadQ1, ReadTypeOK
  <2> QED  BY <1>1, <1>10, <2>1, Frames DEF relayUserReadQ1, ReadTypeOK
<1>11. ASSUME dataReceive PROVE <1>2!1
  <2>1. userWriteEmit' \in 0 .. WordMod - 1
    BY <1>1, <1>11, ModularTypes DEF dataReceive, WriteTypeOK
  <2> QED  BY <1>1, <1>11, <2>1, Frames DEF dataReceive, WriteTypeOK
<1>12. ASSUME dataReq PROVE <1>2!1
  <2>1. userReadEmit' \in 0 .. ReadMod - 1
    BY <1>1, <1>12, ModularTypes DEF dataReq, ReadTypeOK
  <2>2. Head(userReadQ2) \in Threads /\ userReadQ2' \in Seq(Threads)
    BY <1>1, <1>12, QueueTypes DEF dataReq, ReadTypeOK
  <2> QED  BY <1>1, <1>12, <2>1, <2>2, Frames DEF dataReq, ReadTypeOK
<1>13. ASSUME dataSend PROVE <1>2!1
  <2>1. PICK t \in userBusy : dataSend!(t)
    BY <1>13 DEF dataSend
  <2>2. t \in Threads /\ "userRead" \in Loads
    BY <1>1, <2>1 DEF ReadTypeOK, Loads, DataLoads
  <2>3. (cpl \in SUBSET Completion)' /\ LoadedInRange(cpl')
    BY <2>1, <2>2, AnswerType
  <2> QED  BY <1>1, <2>1, <2>3, Frames DEF ReadTypeOK
<1> QED
  BY <1>3, <1>4, <1>5, <1>6, <1>7, <1>8, <1>9, <1>10, <1>11, <1>12, <1>13
  DEF Hardware, UserLogic

(* The host process is restarted.                                          *)
LEMMA RestartTypes ==
  ASSUME TypeInv, Restart
  PROVE  TypeInv'
<1>1. HostTypeOK /\ TlpTypeOK /\ UNCHANGED <<tlp2Q, tlp3Q, ioReadQ, writeVars, readVars, cpl>>
  BY DEF TypeInv, TypeOK, Restart
<1>2. HostTypeOK' /\ TestInRange'
  BY <1>1, ConstAssumption DEF Restart, HostTypeOK, TestInRange
<1>3. tlpQ' \in Seq(Tlp)
  <2>1. Store("init") \in Tlp
    BY DEF Store, Tlp, Stores
  <2> QED  BY <1>1, <2>1, SendType DEF Restart, TlpTypeOK
<1> QED  BY <1>1, <1>2, <1>3, Frames DEF TypeInv, TypeOK, TlpTypeOK

(* Every step preserves the type invariant.                                *)
LEMMA TypeStep == TypeInv /\ [Next]_vars => TypeInv'
<1> SUFFICES ASSUME TypeInv, [Next]_vars PROVE TypeInv'
  OBVIOUS
<1>1. ASSUME NEW t \in Threads, StartCall(t) \/ Continue(t) PROVE TypeInv'
  BY <1>1, HostTypes
<1>2. ASSUME UNCHANGED vars PROVE TypeInv'
  BY <1>2, Frames DEF vars, TypeInv, TypeOK, hostVars, tlpVars, writeVars, readVars
<1> QED  BY <1>1, <1>2, RestartTypes, HardwareTypes DEF Next

(* Every variable of the host library and of PcieCtrl keeps the values its *)
(* register or queue can hold: no counter of writeWord, readWord,          *)
(* dataReceive or dataReq leaves its width, and no budget its range.       *)
THEOREM TypeCorrect == Spec => []TypeOK
<1>1. Init => TypeInv
  BY ConstAssumption DEF Init, TypeInv, TypeOK, HostTypeOK, TlpTypeOK, WriteTypeOK,
     ReadTypeOK, LoadedInRange, TestInRange
<1>2. TypeInv => TypeOK
  BY DEF TypeInv
<1> QED  BY <1>1, <1>2, TypeStep, PTL DEF Spec

-----------------------------------------------------------------------------
(* The credits.                                                            *)
(* The thread that loads the counter holds the lock and has no budget.     *)
Locked == \A t \in Threads :
            pc[t] \in {"wLoad", "wTest"} => writeLock = t /\ io_wbudget = 0

IsAsk(x)  == x.kind = "wemit"
NoAsk(s)  == \A i \in 1 .. Len(s) : ~IsAsk(s[i])
OneAsk(s) == \A i, j \in 1 .. Len(s) : IsAsk(s[i]) /\ IsAsk(s[j]) => i = j
AskersWait(s, p) == \A i \in 1 .. Len(s) : IsAsk(s[i]) => p[s[i].thr] = "wLoad"
Asks(C)   == {c \in C : IsAsk(c)}

(* A load of the counter is in tlpQ or answered, not both, and only once.  *)
AnsweredOnce == \A c \in Asks(cpl) :
                  /\ pc[c.thr] = "wLoad" /\ NoAsk(tlpQ)
                  /\ \A d \in Asks(cpl) : d = c
AskInv == Locked /\ OneAsk(tlpQ) /\ AskersWait(tlpQ, pc) /\ AnsweredOnce

(* The host process has not been restarted since the counters were reset.  *)
HostTlp == {x \in Tlp : x.kind # "init"}
NoReset == tlpQ \in Seq(HostTlp) /\ tlp2Q \in Seq(HostTlp) /\ tlp3Q \in Seq(HostTlp)

(* A counter value v makes the host see at least what it has granted.      *)
Granted == Minus(io_wreq, userWriteEmit, WordMod)
Stale(v) == Granted <= Minus(io_wreq, v, WordMod)
LoadedStale == /\ \A c \in Asks(cpl) : Stale(c.val)
               /\ \A t \in Threads : pc[t] = "wTest" => Stale(emit[t])
Covered == UserWritesInFlight + io_wbudget <= Granted /\ Granted <= IO_QUEUE_SIZE + 1

CreditInv == TypeInv /\ AskInv /\ NoReset /\ LoadedStale /\ Covered

-----------------------------------------------------------------------------
(* What taking a TLP from a queue does to the loads of the counter in it.  *)
LEMMA AskTail ==
  ASSUME NEW s \in Seq(Tlp), s # <<>>, NEW p, OneAsk(s), AskersWait(s, p)
  PROVE  /\ OneAsk(Tail(s)) /\ AskersWait(Tail(s), p)
         /\ IsAsk(Head(s)) => p[Head(s).thr] = "wLoad" /\ NoAsk(Tail(s))
         /\ NoAsk(s) => ~IsAsk(Head(s)) /\ NoAsk(Tail(s))
<1> DEFINE t == Tail(s)
<1>1. /\ Len(s) \in Nat /\ Len(t) = Len(s) - 1 /\ Len(s) # 0 /\ Head(s) = s[1]
      /\ \A i \in 1 .. Len(t) : t[i] = s[i + 1]
  BY HeadTailProperties, LenProperties, EmptySeq
<1>2. \A i \in 1 .. Len(t) : i + 1 \in 1 .. Len(s) /\ i + 1 # 1
  BY <1>1
<1>3. 1 \in 1 .. Len(s) /\ \A i, j \in 1 .. Len(t) : i + 1 = j + 1 => i = j
  BY <1>1
<1> HIDE DEF t
<1>4. OneAsk(t)
  BY <1>1, <1>2, <1>3, Zenon DEF OneAsk
<1>5. AskersWait(t, p)
  BY <1>1, <1>2, Zenon DEF AskersWait
<1>6. IsAsk(Head(s)) => p[Head(s).thr] = "wLoad" /\ NoAsk(t)
  BY <1>1, <1>2, <1>3, Zenon DEF OneAsk, AskersWait, NoAsk
<1>7. NoAsk(s) => ~IsAsk(Head(s)) /\ NoAsk(t)
  BY <1>1, <1>2, <1>3, Zenon DEF NoAsk
<1> QED  BY <1>4, <1>5, <1>6, <1>7 DEF t

(* What putting a TLP into a queue does to them.                           *)
LEMMA AskAppend ==
  ASSUME NEW s \in Seq(Tlp), NEW x \in Tlp, NEW p, OneAsk(s), AskersWait(s, p)
  PROVE  /\ ~IsAsk(x) \/ NoAsk(s) => OneAsk(Append(s, x))
         /\ ~IsAsk(x) \/ p[x.thr] = "wLoad" => AskersWait(Append(s, x), p)
         /\ ~IsAsk(x) /\ NoAsk(s) => NoAsk(Append(s, x))
<1> DEFINE a == Append(s, x)
<1>1. /\ Len(s) \in Nat /\ Len(a) = Len(s) + 1 /\ a[Len(s) + 1] = x
      /\ \A i \in 1 .. Len(s) : a[i] = s[i]
  BY AppendProperties, LenProperties
<1>2. \A i \in 1 .. Len(a) : i \in 1 .. Len(s) \/ i = Len(s) + 1
  BY <1>1
<1> HIDE DEF a
<1>3. ~IsAsk(x) \/ NoAsk(s) => OneAsk(a)
  BY <1>1, <1>2, Zenon DEF OneAsk, NoAsk
<1>4. ~IsAsk(x) \/ p[x.thr] = "wLoad" => AskersWait(a, p)
  BY <1>1, <1>2, Zenon DEF AskersWait
<1>5. ~IsAsk(x) /\ NoAsk(s) => NoAsk(a)
  BY <1>1, <1>2, Zenon DEF NoAsk
<1> QED  BY <1>3, <1>4, <1>5 DEF a

(* Unsigned differences move with their operands while they do not wrap.   *)
LEMMA Differences ==
  ASSUME NEW m \in Nat, NEW a \in 0 .. m - 1, NEW b \in 0 .. m - 1
  PROVE  /\ Minus(a, b, m) \in 0 .. m - 1
         /\ Minus(a, b, m) >= 1 => Minus(a, Plus(b, 1, m), m) = Minus(a, b, m) - 1
         /\ \A n \in Nat : Minus(a, b, m) + n < m =>
              Minus(Plus(a, n, m), b, m) = Minus(a, b, m) + n
BY DEF Minus, Plus

-----------------------------------------------------------------------------
(* Nobody asks for the counter while nobody waits for it.                  *)
LEMMA NobodyAsks ==
  ASSUME TypeInv, AskInv, \A u \in Threads : pc[u] # "wLoad"
  PROVE  NoAsk(tlpQ) /\ Asks(cpl) = {}
<1>1. tlpQ \in Seq(Tlp) /\ cpl \in SUBSET Completion
  BY DEF TypeInv, TypeOK, TlpTypeOK
<1>2. ASSUME NEW i \in 1 .. Len(tlpQ), IsAsk(tlpQ[i]) PROVE FALSE
  <2>1. tlpQ[i] \in Tlp
    BY <1>1, ElementOfSeq
  <2>2. tlpQ[i].thr \in Threads
    BY <1>2, <2>1 DEF IsAsk, Tlp, Stores, Loads, DataLoads
  <2> QED  BY <1>2, <2>2 DEF AskInv, AskersWait
<1>3. ASSUME NEW c \in Asks(cpl) PROVE FALSE
  <2>1. c.thr \in Threads
    BY <1>1 DEF Asks, Completion
  <2> QED  BY <2>1 DEF AskInv, AnsweredOnce
<1> QED  BY <1>2, <1>3 DEF NoAsk

(* A step that leaves the loads of the counter, and who waits, alone.      *)
LEMMA AskQuiet ==
  ASSUME TypeInv, AskInv,
         \A u \in Threads : /\ pc'[u] = "wLoad" <=> pc[u] = "wLoad"
                            /\ pc'[u] = "wTest" <=> pc[u] = "wTest",
         UNCHANGED writeLock,
         io_wbudget' = io_wbudget \/ writeLock = NoThread,
         \/ UNCHANGED tlpQ
         \/ \E x \in Tlp : ~IsAsk(x) /\ tlpQ' = Append(tlpQ, x)
         \/ tlpQ # <<>> /\ tlpQ' = Tail(tlpQ),
         Asks(cpl') \subseteq Asks(cpl)
  PROVE  AskInv'
<1>1. tlpQ \in Seq(Tlp) /\ cpl \in SUBSET Completion
  BY DEF TypeInv, TypeOK, TlpTypeOK
<1>2. Locked'
  BY ConstAssumption, Zenon DEF AskInv, Locked
<1>3. /\ OneAsk(tlpQ') /\ AskersWait(tlpQ', pc)
      /\ NoAsk(tlpQ) => NoAsk(tlpQ')
  BY <1>1, AskTail, AskAppend DEF AskInv
<1>4. tlpQ' \in Seq(Tlp)
  BY <1>1, QueueTypes
<1>5. AskersWait(tlpQ', pc')
  <2>1. ASSUME NEW i \in 1 .. Len(tlpQ'), IsAsk(tlpQ'[i])
        PROVE  pc'[tlpQ'[i].thr] = "wLoad"
    <3>1. tlpQ'[i] \in Tlp
      BY <1>4, ElementOfSeq
    <3>2. tlpQ'[i].thr \in Threads
      BY <2>1, <3>1 DEF IsAsk, Tlp, Stores, Loads, DataLoads
    <3> QED  BY <1>3, <2>1, <3>2 DEF AskersWait
  <2> QED  BY <2>1 DEF AskersWait
<1>6. AnsweredOnce'
  <2>1. ASSUME NEW c \in Asks(cpl') PROVE c \in Asks(cpl) /\ c.thr \in Threads
    BY <1>1, <2>1 DEF Asks, Completion
  <2>2. ASSUME NEW c \in Asks(cpl')
        PROVE  pc'[c.thr] = "wLoad" /\ NoAsk(tlpQ') /\ \A d \in Asks(cpl') : d = c
    BY <1>3, <2>1 DEF AskInv, AnsweredOnce
  <2> QED  BY <2>2 DEF AnsweredOnce
<1> QED  BY <1>2, <1>3, <1>5, <1>6 DEF AskInv

(* A thread starts or repeats its load of the counter.                     *)
LEMMA AskStarts ==
  ASSUME TypeInv, AskInv, NEW t \in Threads,
         \A u \in Threads : pc[u] # "wLoad",
         pc' = [pc EXCEPT ![t] = "wLoad"],
         Send(Load("wemit", t)), UNCHANGED cpl, Locked'
  PROVE  AskInv'
<1>1. tlpQ \in Seq(Tlp) /\ DOMAIN pc = Threads /\ Load("wemit", t) \in Tlp
  BY TlpTypes DEF TypeInv, TypeOK, TlpTypeOK, HostTypeOK
<1>2. NoAsk(tlpQ) /\ Asks(cpl) = {}
  BY NobodyAsks
<1>3. AskersWait(tlpQ, pc') /\ OneAsk(tlpQ) /\ pc'[Load("wemit", t).thr] = "wLoad"
  BY <1>1, <1>2 DEF AskInv, AskersWait, NoAsk, Load
<1>4. OneAsk(tlpQ') /\ AskersWait(tlpQ', pc')
  BY <1>1, <1>2, <1>3, AskAppend DEF Send
<1> QED  BY <1>2, <1>4 DEF AskInv, AnsweredOnce, Asks

(* No load of the counter is under way after the step.                     *)
LEMMA AskSettled ==
  ASSUME Locked', NoAsk(tlpQ'), Asks(cpl') = {}
  PROVE  AskInv'
BY DEF AskInv, OneAsk, AskersWait, AnsweredOnce, NoAsk

(* What writeWord and readWord do to the loads of the counter.             *)
LEMMA HostAsks ==
  ASSUME TypeInv, AskInv, NEW t \in Threads, StartCall(t) \/ Continue(t)
  PROVE  AskInv'
<1>1. /\ tlpQ \in Seq(Tlp) /\ DOMAIN pc = Threads /\ cpl \in SUBSET Completion
      /\ ReadKinds \subseteq {"user", "config", "fixed"} /\ NoThread \notin Threads
      /\ pc[t] \in {"idle", "wLoad", "wTest", "rLoad", "rReload", "rTest", "rData"}
      /\ addr[t] \in {"user", "config", "fixed"}
  BY ConstAssumption DEF TypeInv, TypeOK, TlpTypeOK, HostTypeOK
<1>2. \A a : WriteTlp(a) \in Tlp /\ ~IsAsk(WriteTlp(a))
  BY TlpTypes DEF WriteTlp, Store, IsAsk
<1>3. \A a \in {"user", "config", "fixed"} : ReadTlp(a, t) \in Tlp /\ ~IsAsk(ReadTlp(a, t))
  BY TlpTypes DEF ReadTlp, Load, IsAsk
<1>4. Load("remit", t) \in Tlp /\ ~IsAsk(Load("remit", t))
  BY TlpTypes DEF Load, IsAsk
<1>5. ASSUME NEW a \in WriteKinds, WriteBudgeted(t, a) PROVE AskInv'
  <2>1. \E x \in Tlp : ~IsAsk(x) /\ tlpQ' = Append(tlpQ, x)
    BY <1>2, <1>5 DEF WriteBudgeted, Send
  <2> QED  BY <1>5, <2>1, AskQuiet DEF WriteBudgeted
<1>6. ASSUME NEW a \in WriteKinds, WriteLoadEmit(t, a) PROVE AskInv'
  <2>1. \A u \in Threads : pc[u] \notin {"wLoad", "wTest"}
    BY <1>1, <1>6 DEF WriteLoadEmit, AskInv, Locked
  <2>2. Locked'
    BY <1>1, <1>6, <2>1 DEF WriteLoadEmit, Locked
  <2> QED  BY <1>6, <2>1, <2>2, AskStarts DEF WriteLoadEmit
<1>7. ASSUME NEW a \in ReadKinds, ReadBudgeted(t, a) PROVE AskInv'
  <2>1. \E x \in Tlp : ~IsAsk(x) /\ tlpQ' = Append(tlpQ, x)
    BY <1>1, <1>3, <1>7 DEF ReadBudgeted, IssueRead, Send
  <2> QED  BY <1>1, <1>7, <2>1, AskQuiet DEF ReadBudgeted, IssueRead
<1>8. ASSUME NEW a \in ReadKinds, ReadLoadEmit(t, a) PROVE AskInv'
  <2>1. \E x \in Tlp : ~IsAsk(x) /\ tlpQ' = Append(tlpQ, x)
    BY <1>4, <1>8 DEF ReadLoadEmit, Send
  <2> QED  BY <1>1, <1>8, <2>1, AskQuiet DEF ReadLoadEmit
<1>9. ASSUME WriteRetry(t) PROVE AskInv'
  <2>1. \A u \in Threads : pc[u] # "wLoad"
    BY <1>9 DEF WriteRetry, AskInv, Locked
  <2>2. Locked'
    BY <1>1, <1>9 DEF WriteRetry, AskInv, Locked
  <2> QED  BY <1>9, <2>1, <2>2, AskStarts DEF WriteRetry
<1>10. ASSUME WriteRefill(t) PROVE AskInv'
  <2>1. \A u \in Threads : pc[u] # "wLoad" /\ (u # t => pc[u] # "wTest")
    BY <1>10 DEF WriteRefill, AskInv, Locked
  <2>2. NoAsk(tlpQ) /\ Asks(cpl) = {}
    BY <2>1, NobodyAsks
  <2>3. NoAsk(tlpQ')
    BY <1>1, <1>2, <1>10, <2>2, AskAppend DEF WriteRefill, Send, AskInv
  <2>4. Locked'
    BY <1>1, <1>10, <2>1 DEF WriteRefill, Return, Locked
  <2> QED  BY <1>10, <2>2, <2>3, <2>4, AskSettled DEF WriteRefill
<1>11. ASSUME ReadRetry(t) PROVE AskInv'
  <2>1. \E x \in Tlp : ~IsAsk(x) /\ tlpQ' = Append(tlpQ, x)
    BY <1>4, <1>11 DEF ReadRetry, Send
  <2> QED  BY <1>1, <1>11, <2>1, AskQuiet DEF ReadRetry
<1>12. ASSUME ReadRefill(t) PROVE AskInv'
  <2>1. \E x \in Tlp : ~IsAsk(x) /\ tlpQ' = Append(tlpQ, x)
    BY <1>1, <1>3, <1>12 DEF ReadRefill, IssueRead, Send
  <2> QED  BY <1>1, <1>12, <2>1, AskQuiet DEF ReadRefill, IssueRead
<1>13. ASSUME LoadReturns(t) PROVE AskInv'
  <2>1. PICK c \in cpl : LoadReturns(t)!(c)
    BY <1>13 DEF LoadReturns
  <2>2. CASE pc[t] = "wLoad"
    <3>1. c \in Asks(cpl) /\ pc' = [pc EXCEPT ![t] = "wTest"]
          /\ UNCHANGED <<writeLock, io_wbudget, tlpQ>>
      BY <2>1, <2>2 DEF Asks, IsAsk, tlpVars
    <3>2. NoAsk(tlpQ') /\ Asks(cpl') = {}
      BY <2>1, <3>1 DEF AskInv, AnsweredOnce, Asks
    <3>3. Locked'
      BY <1>1, <2>2, <3>1 DEF AskInv, Locked
    <3> QED  BY <3>2, <3>3, AskSettled
  <2>3. CASE pc[t] # "wLoad"
    <3>1. UNCHANGED <<writeLock, io_wbudget, tlpQ>> /\ Asks(cpl') \subseteq Asks(cpl)
      BY <2>1 DEF Asks, tlpVars
    <3>2. \A u \in Threads : /\ pc'[u] = "wLoad" <=> pc[u] = "wLoad"
                             /\ pc'[u] = "wTest" <=> pc[u] = "wTest"
      BY <1>1, <2>1, <2>3 DEF Return
    <3> QED  BY <3>1, <3>2, AskQuiet
  <2> QED  BY <2>2, <2>3
<1> QED  BY <1>5, <1>6, <1>7, <1>8, <1>9, <1>10, <1>11, <1>12, <1>13 DEF StartCall, Continue

(* What the rules of PcieCtrl and the user logic do to them.               *)
LEMMA HardwareAsks ==
  ASSUME TypeInv, AskInv, Hardware \/ UserLogic
  PROVE  AskInv'
<1>1. tlpQ \in Seq(Tlp) /\ cpl \in SUBSET Completion
  BY DEF TypeInv, TypeOK, TlpTypeOK
<1>2. UNCHANGED <<pc, writeLock, io_wbudget>>
  BY DEF Hardware, UserLogic, filterStatReadTLP, procTLP, completeIORead, procIOWrite,
     relayUserWriteQ, relayUserWrite2Q, relayUserReadQ0, relayUserReadQ1,
     dataReceive, dataReq, dataSend, hostVars
<1>3. ASSUME tlpQ' = tlpQ \/ (tlpQ # <<>> /\ tlpQ' = Tail(tlpQ)),
             Asks(cpl') \subseteq Asks(cpl)
      PROVE  AskInv'
  BY <1>2, <1>3, AskQuiet
<1>4. ASSUME NEW k, NEW u, NEW v, k # "wemit", Answer(k, u, v)
      PROVE  Asks(cpl') \subseteq Asks(cpl)
  BY <1>4 DEF Answer, Asks, IsAsk
<1>5. ASSUME filterStatReadTLP PROVE AskInv'
  <2> DEFINE h == Head(tlpQ)
  <2>1. tlpQ # <<>> /\ tlpQ' = Tail(tlpQ)
    BY <1>5 DEF filterStatReadTLP
  <2>2. CASE h.kind = "wemit"
    <3>1. Answer("wemit", h.thr, userWriteEmit)
      BY <1>5, <2>2 DEF filterStatReadTLP
    <3>2. /\ pc[h.thr] = "wLoad" /\ NoAsk(tlpQ') /\ ~NoAsk(tlpQ)
          /\ OneAsk(tlpQ') /\ AskersWait(tlpQ', pc)
      BY <1>1, <2>1, <2>2, AskTail DEF IsAsk, AskInv
    <3>3. Asks(cpl) = {}
      BY <3>2 DEF AskInv, AnsweredOnce
    <3>4. Asks(cpl') = {[kind |-> "wemit", thr |-> h.thr, val |-> userWriteEmit]}
      BY <3>1, <3>3 DEF Answer, Asks, IsAsk
    <3>5. AnsweredOnce'
      BY <1>2, <3>2, <3>4 DEF AnsweredOnce
    <3> QED  BY <1>2, <3>2, <3>5 DEF AskInv, Locked
  <2>3. CASE h.kind # "wemit"
    <3>1. \/ UNCHANGED cpl
          \/ Answer("remit", h.thr, userReadEmit)
          \/ Answer("fixedRead", h.thr, 0)
      BY <1>5, <2>3 DEF filterStatReadTLP
    <3>2. Asks(cpl') \subseteq Asks(cpl)
      BY <1>4, <3>1
    <3> QED  BY <1>3, <2>1, <3>2
  <2> QED  BY <2>2, <2>3
<1>6. ASSUME completeIORead PROVE AskInv'
  <2>1. tlpQ' = tlpQ /\ Answer("configRead", Head(ioReadQ), 0)
    BY <1>6 DEF completeIORead
  <2>2. Asks(cpl') \subseteq Asks(cpl)
    BY <1>4, <2>1
  <2> QED  BY <1>3, <2>1, <2>2
<1>7. ASSUME dataSend PROVE AskInv'
  <2>1. tlpQ' = tlpQ /\ \E u \in userBusy : Answer("userRead", u, 0)
    BY <1>7 DEF dataSend, tlpVars
  <2>2. Asks(cpl') \subseteq Asks(cpl)
    BY <1>4, <2>1
  <2> QED  BY <1>3, <2>1, <2>2
<1>8. ASSUME UNCHANGED <<tlpQ, cpl>> PROVE AskInv'
  <2>1. tlpQ' = tlpQ /\ Asks(cpl') \subseteq Asks(cpl)
    BY <1>8 DEF Asks
  <2> QED  BY <1>3, <2>1
<1> QED
  BY <1>5, <1>6, <1>7, <1>8
  DEF Hardware, UserLogic, procTLP, procIOWrite, relayUserWriteQ, relayUserWrite2Q,
      relayUserReadQ0, relayUserReadQ1, dataReceive, dataReq, tlpVars

-----------------------------------------------------------------------------
(* The counts are numbers.                                                 *)
LEMMA Numbers ==
  ASSUME TypeInv
  PROVE  /\ UserWritesIn(tlpQ) \in Nat /\ UserWritesIn(tlp2Q) \in Nat
         /\ UserWritesIn(tlp3Q) \in Nat /\ UserWritesQueued \in Nat
         /\ userWrite1Q \in Nat /\ userWriteQ \in Nat /\ userWrite2Q \in Nat
         /\ UserWritesInFlight \in Nat
         /\ io_wbudget \in Nat /\ io_wreq \in 0 .. WordMod - 1
         /\ userWriteEmit \in 0 .. WordMod - 1 /\ Granted \in 0 .. WordMod - 1
<1> USE ConstAssumption
<1>1. TlpTypeOK /\ WriteTypeOK /\ HostTypeOK
  BY DEF TypeInv, TypeOK
<1>2. /\ UserWritesIn(tlpQ) \in Nat /\ UserWritesIn(tlp2Q) \in Nat
      /\ UserWritesIn(tlp3Q) \in Nat
  BY <1>1, CountType DEF TlpTypeOK
<1>3. userWrite1Q \in Nat /\ userWriteQ \in Nat /\ userWrite2Q \in Nat
  BY <1>1 DEF WriteTypeOK
<1>4. /\ io_wbudget \in Nat /\ io_wreq \in 0 .. WordMod - 1
      /\ userWriteEmit \in 0 .. WordMod - 1
  BY <1>1 DEF WriteTypeOK, HostTypeOK
<1>5. Granted \in 0 .. WordMod - 1
  BY <1>4, Differences DEF Granted
<1> QED  BY <1>2, <1>3, <1>4, <1>5 DEF UserWritesInFlight, UserWritesQueued

(* They are numbers after the step, too.                                   *)
LEMMA NumbersNext == TypeInv' => (UserWritesInFlight \in Nat /\ io_wbudget \in Nat)'
<1>1. TypeInv => UserWritesInFlight \in Nat /\ io_wbudget \in Nat
  BY Numbers
<1> QED  BY <1>1, PTL

(* A step that only moves user writes, or spends budget on one.            *)
LEMMA CreditQuiet ==
  ASSUME CreditInv, TypeInv',
         UNCHANGED <<io_wreq, userWriteEmit>>,
         UserWritesInFlight' + io_wbudget' <= UserWritesInFlight + io_wbudget,
         Asks(cpl') \subseteq Asks(cpl),
         \A u \in Threads : pc'[u] = "wTest" => pc[u] = "wTest" /\ emit'[u] = emit[u]
  PROVE  LoadedStale' /\ Covered'
<1>1. UNCHANGED Granted
  BY DEF Granted
<1>2. LoadedStale'
  <2>1. \A c \in Asks(cpl') : Stale(c.val)
    BY DEF CreditInv, LoadedStale
  <2>2. \A u \in Threads : pc'[u] = "wTest" => Stale(emit'[u])
    BY DEF CreditInv, LoadedStale
  <2>3. io_wreq' = io_wreq /\ userWriteEmit' = userWriteEmit
    OBVIOUS
  <2> QED  BY <2>1, <2>2, <2>3 DEF LoadedStale, Stale, Granted
<1>3. Covered'
  <2>1. /\ UserWritesInFlight \in Nat /\ io_wbudget \in Nat /\ Granted \in Nat
        /\ UserWritesInFlight' \in Nat /\ io_wbudget' \in Nat
    BY ConstAssumption, Numbers, NumbersNext DEF CreditInv
  <2> QED  BY <1>1, <2>1 DEF CreditInv, Covered
<1> QED  BY <1>2, <1>3

(* What sending adds to the user writes in flight.                         *)
LEMMA SendCounts ==
  ASSUME TypeInv, NEW x \in Tlp, Send(x),
         UNCHANGED <<tlp2Q, tlp3Q, ioReadQ, writeVars>>
  PROVE  UserWritesInFlight' = UserWritesInFlight + IsUserWrite(x)
<1>1. UserWritesIn(tlpQ') = UserWritesIn(tlpQ) + IsUserWrite(x)
  BY CountAppend DEF TypeInv, TypeOK, TlpTypeOK, Send
<1>2. /\ UserWritesIn(tlp2Q') = UserWritesIn(tlp2Q)
      /\ UserWritesIn(tlp3Q') = UserWritesIn(tlp3Q)
      /\ UserWritesQueued' = UserWritesQueued
  BY DEF UserWritesIn, UserWritesQueued, writeVars
<1>3. IsUserWrite(x) \in Nat
  BY DEF IsUserWrite
<1> QED  BY <1>1, <1>2, <1>3, Numbers DEF UserWritesInFlight

(* What writeWord and readWord do to the credit.                           *)
LEMMA HostCredit ==
  ASSUME CreditInv, TypeInv', NEW t \in Threads, StartCall(t) \/ Continue(t)
  PROVE  LoadedStale' /\ Covered'
<1> USE ConstAssumption
<1>1. /\ TypeInv /\ AskInv /\ DOMAIN pc = Threads /\ DOMAIN emit = Threads
      /\ io_wbudget \in Nat /\ cpl \in SUBSET Completion
      /\ addr[t] \in {"user", "config", "fixed"}
  BY DEF CreditInv, TypeInv, TypeOK, HostTypeOK
<1>2. UserWritesInFlight \in Nat
  BY <1>1, Numbers
<1>3. \A a : WriteTlp(a) \in Tlp /\ IsUserWrite(WriteTlp(a)) \in {0, 1}
  BY <1>1, TlpTypes DEF IsUserWrite
<1>4. ASSUME NEW x \in Tlp, Send(x), IsUserWrite(x) = 0, UNCHANGED <<io_wreq, io_wbudget>>,
             UNCHANGED <<tlp2Q, tlp3Q, ioReadQ, writeVars, cpl>>,
             \A u \in Threads : pc'[u] = "wTest" => pc[u] = "wTest" /\ emit'[u] = emit[u]
      PROVE  LoadedStale' /\ Covered'
  <2>1. UserWritesInFlight' = UserWritesInFlight
    BY <1>1, <1>2, <1>4, SendCounts
  <2>2. UNCHANGED <<io_wreq, userWriteEmit>> /\ Asks(cpl') \subseteq Asks(cpl)
    BY <1>4 DEF writeVars
  <2>3. UserWritesInFlight' + io_wbudget' <= UserWritesInFlight + io_wbudget
    BY <1>1, <1>2, <1>4, <2>1
  <2> QED  BY <1>4, <2>2, <2>3, CreditQuiet
<1>5. /\ Load("remit", t) \in Tlp /\ IsUserWrite(Load("remit", t)) = 0
      /\ Load("wemit", t) \in Tlp /\ IsUserWrite(Load("wemit", t)) = 0
      /\ \A a \in {"user", "config", "fixed"} :
           ReadTlp(a, t) \in Tlp /\ IsUserWrite(ReadTlp(a, t)) = 0
  BY TlpTypes DEF ReadTlp, Load, IsUserWrite
<1>6. ASSUME NEW a \in WriteKinds, WriteBudgeted(t, a) PROVE LoadedStale' /\ Covered'
  <2>1. UserWritesInFlight' = UserWritesInFlight + IsUserWrite(WriteTlp(a))
    BY <1>1, <1>3, <1>6, SendCounts DEF WriteBudgeted
  <2>2. UserWritesInFlight' + io_wbudget' <= UserWritesInFlight + io_wbudget
    BY <1>1, <1>2, <1>3, <1>6, <2>1 DEF WriteBudgeted
  <2>3. UNCHANGED <<io_wreq, userWriteEmit, cpl, pc, emit>>
    BY <1>6 DEF WriteBudgeted, writeVars
  <2> QED  BY <2>2, <2>3, CreditQuiet
<1>7. ASSUME NEW a \in WriteKinds, WriteLoadEmit(t, a) PROVE LoadedStale' /\ Covered'
  BY <1>1, <1>4, <1>5, <1>7 DEF WriteLoadEmit
<1>8. ASSUME NEW a \in ReadKinds, ReadBudgeted(t, a) PROVE LoadedStale' /\ Covered'
  BY <1>1, <1>4, <1>5, <1>8 DEF ReadBudgeted, IssueRead
<1>9. ASSUME NEW a \in ReadKinds, ReadLoadEmit(t, a) PROVE LoadedStale' /\ Covered'
  BY <1>1, <1>4, <1>5, <1>9 DEF ReadLoadEmit
<1>10. ASSUME WriteRetry(t) PROVE LoadedStale' /\ Covered'
  BY <1>1, <1>4, <1>5, <1>10 DEF WriteRetry
<1>11. ASSUME ReadRetry(t) PROVE LoadedStale' /\ Covered'
  BY <1>1, <1>4, <1>5, <1>11 DEF ReadRetry
<1>12. ASSUME ReadRefill(t) PROVE LoadedStale' /\ Covered'
  BY <1>1, <1>4, <1>5, <1>12 DEF ReadRefill, IssueRead
<1>13. ASSUME WriteRefill(t) PROVE LoadedStale' /\ Covered'
  <2> DEFINE out == Outstanding(t)
             g == Granted
  <2>1. /\ g \in Nat /\ out \in Nat /\ g <= out /\ out < IO_QUEUE_SIZE
        /\ UserWritesInFlight + io_wbudget <= g /\ io_wbudget = 0
    <3>1. /\ Stale(emit[t]) /\ writeLock = t /\ io_wbudget = 0
          /\ emit[t] \in 0 .. WordMod - 1 /\ io_wreq \in 0 .. WordMod - 1
      BY <1>13 DEF WriteRefill, CreditInv, LoadedStale, AskInv, Locked, TypeInv,
                   TestInRange, TypeOK, HostTypeOK
    <3>2. out \in Nat /\ out < IO_QUEUE_SIZE \div 2
      BY <3>1, <1>13, Differences DEF Outstanding, WriteRefill
    <3>3. IO_QUEUE_SIZE \div 2 \in Nat /\ IO_QUEUE_SIZE \div 2 <= IO_QUEUE_SIZE
      OBVIOUS
    <3>4. g \in Nat /\ g <= out
      BY <1>1, <3>1, Numbers DEF Stale, Outstanding
    <3> HIDE DEF out, g
    <3> QED  BY <3>1, <3>2, <3>3, <3>4 DEF CreditInv, Covered, g
  <2>2. /\ io_wbudget' = IO_QUEUE_SIZE - out
        /\ Granted' = g + (IO_QUEUE_SIZE - out) + 1
    <3>1. /\ io_wbudget' = IO_QUEUE_SIZE - out
          /\ io_wreq' = Plus(io_wreq, (IO_QUEUE_SIZE - out) + 1, WordMod)
          /\ userWriteEmit' = userWriteEmit
      BY <1>13 DEF WriteRefill, Charge, writeVars
    <3>2. io_wreq \in 0 .. WordMod - 1 /\ userWriteEmit \in 0 .. WordMod - 1
      BY <1>1, Numbers
    <3> HIDE DEF out
    <3>3. (IO_QUEUE_SIZE - out) + 1 \in Nat /\ g + ((IO_QUEUE_SIZE - out) + 1) < WordMod
      BY <2>1
    <3>4. Granted' = g + ((IO_QUEUE_SIZE - out) + 1)
      BY <3>1, <3>2, <3>3, Differences DEF Granted
    <3> HIDE DEF g
    <3> QED  BY <3>1, <3>4, <2>1
  <2>3. UserWritesInFlight' \in Nat /\ UserWritesInFlight' <= UserWritesInFlight + 1
    BY <1>1, <1>2, <1>3, <1>13, SendCounts DEF WriteRefill
  <2>4. Covered'
    <3> HIDE DEF out, g
    <3>1. IO_QUEUE_SIZE \in Nat
      OBVIOUS
    <3>2. UserWritesInFlight <= g
      BY <1>2, <2>1
    <3> DEFINE u == UserWritesInFlight'
               r == IO_QUEUE_SIZE - out
    <3>3. r \in Nat /\ g + r <= IO_QUEUE_SIZE
      BY <2>1, <3>1
    <3>4. u \in Nat /\ u <= g + 1
      BY <1>2, <2>1, <2>3, <3>2
    <3>5. io_wbudget' = r /\ Granted' = g + r + 1
      BY <2>2
    <3> HIDE DEF u, r
    <3>6. u + r <= g + r + 1 /\ g + r + 1 <= IO_QUEUE_SIZE + 1
      BY <2>1, <3>1, <3>3, <3>4
    <3> QED  BY <3>5, <3>6 DEF Covered, u
  <2>5. LoadedStale'
    <3>1. \A u \in Threads : pc'[u] # "wTest"
      BY <1>1, <1>13 DEF WriteRefill, Return, AskInv, Locked
    <3>2. \A u \in Threads : pc[u] # "wLoad"
      BY <1>1, <1>13 DEF WriteRefill, AskInv, Locked
    <3>3. Asks(cpl') = {}
      BY <1>1, <1>13, <3>2, NobodyAsks DEF WriteRefill
    <3> QED  BY <3>1, <3>3 DEF LoadedStale
  <2> QED  BY <2>4, <2>5
<1>14. ASSUME LoadReturns(t) PROVE LoadedStale' /\ Covered'
  <2>1. PICK c \in cpl : LoadReturns(t)!(c)
    BY <1>14 DEF LoadReturns
  <2>2. /\ UNCHANGED <<io_wreq, userWriteEmit>> /\ Asks(cpl') \subseteq Asks(cpl)
        /\ io_wbudget' = io_wbudget /\ UserWritesInFlight' = UserWritesInFlight
    BY <2>1 DEF Asks, tlpVars, writeVars, UserWritesInFlight, UserWritesIn, UserWritesQueued
  <2>3. \A u \in Threads :
          pc'[u] = "wTest" => \/ pc[u] = "wTest" /\ emit'[u] = emit[u]
                              \/ u = t /\ c \in Asks(cpl) /\ emit'[u] = c.val
    <3>1. \A u \in Threads \ {t} : pc'[u] = pc[u] /\ emit'[u] = emit[u]
      BY <1>1, <2>1 DEF Return
    <3>2. pc'[t] = "wTest" => c.kind = "wemit" /\ emit'[t] = c.val
      BY <1>1, <2>1 DEF Return
    <3>3. c.kind = "wemit" => c \in Asks(cpl)
      BY <2>1 DEF Asks, IsAsk
    <3> QED  BY <3>1, <3>2, <3>3
  <2>4. Granted' = Granted /\ Covered'
    BY <1>1, <1>2, <2>2 DEF Granted, Covered, CreditInv
  <2>5. LoadedStale'
    <3>1. /\ \A d \in Asks(cpl) : Granted <= Minus(io_wreq, d.val, WordMod)
          /\ \A u \in Threads :
               pc[u] = "wTest" => Granted <= Minus(io_wreq, emit[u], WordMod)
      BY DEF CreditInv, LoadedStale, Stale
    <3>2. Granted' = Granted /\ io_wreq' = io_wreq /\ Asks(cpl') \subseteq Asks(cpl)
      BY <2>2, <2>4
    <3>3. \A d \in Asks(cpl') : Stale(d.val)'
      BY <3>1, <3>2 DEF Stale
    <3>4. \A u \in Threads : pc'[u] = "wTest" => Granted' <= Minus(io_wreq', emit'[u], WordMod)
      BY <2>3, <3>1, <3>2, Zenon
    <3> QED  BY <3>3, <3>4 DEF LoadedStale, Stale
  <2> QED  BY <2>4, <2>5
<1> QED
  BY <1>6, <1>7, <1>8, <1>9, <1>10, <1>11, <1>12, <1>13, <1>14 DEF StartCall, Continue

(* CountTail, read from the queue that is left.                            *)
LEMMA Taken ==
  ASSUME NEW s \in Seq(Tlp), s # <<>>
  PROVE  UserWritesIn(Tail(s)) = UserWritesIn(s) - IsUserWrite(Head(s))
<1>1. UserWritesIn(Tail(s)) \in Nat /\ IsUserWrite(Head(s)) \in Nat
  BY CountType, QueueTypes DEF IsUserWrite
<1> QED  BY <1>1, CountTail

(* How the number of user writes in flight follows from its parts.         *)
LEMMA FlightChange ==
  ASSUME TypeInv,
         NEW d1 \in Int, UserWritesIn(tlpQ') = UserWritesIn(tlpQ) + d1,
         NEW d2 \in Int, UserWritesIn(tlp2Q') = UserWritesIn(tlp2Q) + d2,
         NEW d3 \in Int, UserWritesIn(tlp3Q') = UserWritesIn(tlp3Q) + d3,
         NEW d4 \in Int, UserWritesQueued' = UserWritesQueued + d4,
         d1 + d2 + d3 + d4 \in {0, -1}
  PROVE  UserWritesInFlight' = UserWritesInFlight + (d1 + d2 + d3 + d4)
<1> DEFINE a == UserWritesIn(tlpQ)   b == UserWritesIn(tlp2Q)
           c == UserWritesIn(tlp3Q)  d == UserWritesQueued
<1>1. a \in Nat /\ b \in Nat /\ c \in Nat /\ d \in Nat
  BY Numbers
<1>2. UserWritesInFlight = a + b + c + d
  BY DEF UserWritesInFlight
<1>3. UserWritesInFlight' = (a + d1) + (b + d2) + (c + d3) + (d + d4)
  BY DEF UserWritesInFlight
<1> HIDE DEF a, b, c, d
<1> QED  BY <1>1, <1>2, <1>3

(* What the rules of PcieCtrl and the user logic do to the credit: each    *)
(* user write moves on by one place or is taken and counted.               *)
LEMMA HardwareCredit ==
  ASSUME CreditInv, TypeInv', Hardware \/ UserLogic
  PROVE  LoadedStale' /\ Covered'
<1>0. /\ UserWritesIn(tlpQ) \in Nat /\ UserWritesIn(tlp2Q) \in Nat
      /\ UserWritesIn(tlp3Q) \in Nat /\ UserWritesQueued \in Nat
      /\ userWrite1Q \in Nat /\ userWriteQ \in Nat /\ userWrite2Q \in Nat
      /\ UserWritesInFlight \in Nat /\ io_wbudget \in Nat
  BY Numbers DEF CreditInv
<1>1. /\ TypeInv /\ tlpQ \in Seq(Tlp) /\ tlp2Q \in Seq(Tlp) /\ tlp3Q \in Seq(Tlp)
  BY DEF CreditInv, TypeInv, TypeOK, TlpTypeOK
<1>2. \A x : IsUserWrite(x) \in {0, 1}
  BY DEF IsUserWrite
<1>3. UNCHANGED <<pc, emit, io_wreq, io_wbudget>>
  BY DEF Hardware, UserLogic, filterStatReadTLP, procTLP, completeIORead, procIOWrite,
     relayUserWriteQ, relayUserWrite2Q, relayUserReadQ0, relayUserReadQ1,
     dataReceive, dataReq, dataSend, hostVars
<1>4. ASSUME UserWritesInFlight' = UserWritesInFlight, userWriteEmit' = userWriteEmit,
             Asks(cpl') \subseteq Asks(cpl)
      PROVE  LoadedStale' /\ Covered'
  BY <1>0, <1>3, <1>4, SMTT(20), CreditQuiet
<1>5. ASSUME filterStatReadTLP PROVE LoadedStale' /\ Covered'
  <2> DEFINE h == Head(tlpQ)
  <2>1. /\ tlpQ # <<>> /\ tlpQ' = Tail(tlpQ) /\ h \in Tlp
        /\ UNCHANGED <<tlp3Q, writeVars>>
    BY <1>1, <1>5, QueueTypes DEF filterStatReadTLP
  <2>2. UserWritesIn(tlpQ') = UserWritesIn(tlpQ) - IsUserWrite(h)
    BY <1>1, <2>1, Taken
  <2>4. UserWritesIn(tlp2Q') = UserWritesIn(tlp2Q) + IsUserWrite(h)
    <3>1. CASE h.kind \in {"wemit", "remit", "fixedRead"}
      <4>1. tlp2Q' = tlp2Q /\ IsUserWrite(h) = 0
        BY <1>5, <3>1 DEF filterStatReadTLP, IsUserWrite
      <4> QED  BY <1>1, <4>1, Numbers
    <3>2. CASE h.kind \notin {"wemit", "remit", "fixedRead"}
      BY <1>1, <1>5, <2>1, <3>2, CountAppend DEF filterStatReadTLP
    <3> QED  BY <3>1, <3>2
  <2>5. /\ UserWritesIn(tlp3Q') = UserWritesIn(tlp3Q)
        /\ UserWritesQueued' = UserWritesQueued /\ userWriteEmit' = userWriteEmit
    BY <2>1 DEF UserWritesIn, UserWritesQueued, writeVars
  <2>6. UserWritesInFlight' = UserWritesInFlight
    <3>1. IsUserWrite(h) \in Nat
      BY <1>2
    <3> HIDE DEF h
    <3> DEFINE x == IsUserWrite(h)
    <3>2. /\ UserWritesIn(tlpQ') = UserWritesIn(tlpQ) + (-x)
          /\ UserWritesIn(tlp2Q') = UserWritesIn(tlp2Q) + x
          /\ UserWritesIn(tlp3Q') = UserWritesIn(tlp3Q) + 0
          /\ UserWritesQueued' = UserWritesQueued + 0
      BY <1>0, <3>1, <2>2, <2>4, <2>5
    <3> HIDE DEF x
    <3>4. x \in Int /\ -x \in Int /\ 0 \in Int /\ (-x) + x + 0 + 0 = 0
      BY <3>1 DEF x
    <3>5. TypeInv
      BY <1>1
    <3>6. UserWritesInFlight' = UserWritesInFlight + ((-x) + x + 0 + 0)
      BY <3>2, <3>4, <3>5, FlightChange
    <3> QED  BY <1>0, <3>4, <3>6
  <2>7. CASE h.kind = "wemit"
    <3>1. Granted' = Granted /\ Covered'
      BY <1>1, <1>3, <2>5, <2>6 DEF Granted, CreditInv, Covered
    <3>2. Answer("wemit", h.thr, userWriteEmit)
      BY <1>5, <2>7 DEF filterStatReadTLP
    <3>3. Asks(cpl') \subseteq Asks(cpl) \cup {[kind |-> "wemit", thr |-> h.thr, val |-> userWriteEmit]}
      BY <3>2 DEF Answer, Asks
    <3>4. Stale(userWriteEmit)
      BY <1>1, Numbers DEF Stale, Granted
    <3>5. \A c \in Asks(cpl') : Stale(c.val)
      BY <3>3, <3>4 DEF CreditInv, LoadedStale
    <3> QED  BY <1>3, <3>1, <3>5, Zenon DEF CreditInv, LoadedStale, Stale
  <2>8. CASE h.kind # "wemit"
    <3>1. Asks(cpl') \subseteq Asks(cpl)
      BY <1>5, <2>8 DEF filterStatReadTLP, Answer, Asks, IsAsk
    <3> QED  BY <1>4, <2>5, <2>6, <3>1
  <2> QED  BY <2>7, <2>8
<1>6. ASSUME procTLP PROVE LoadedStale' /\ Covered'
  <2> DEFINE h == Head(tlp2Q)
  <2>1. /\ tlp2Q # <<>> /\ tlp2Q' = Tail(tlp2Q) /\ h \in Tlp
        /\ UNCHANGED <<tlpQ, writeVars, cpl>>
    BY <1>1, <1>6, QueueTypes DEF procTLP
  <2>2. UserWritesIn(tlp2Q') = UserWritesIn(tlp2Q) - IsUserWrite(h)
    BY <1>1, <2>1, Taken
  <2>4. UserWritesIn(tlp3Q') = UserWritesIn(tlp3Q) + IsUserWrite(h)
    <3>1. CASE h.kind \in {"configRead", "userRead"}
      <4>1. tlp3Q' = tlp3Q /\ IsUserWrite(h) = 0
        BY <1>6, <3>1 DEF procTLP, IsUserWrite, Stores
      <4> QED  BY <1>1, <4>1, Numbers
    <3>2. CASE h.kind \notin {"configRead", "userRead"}
      BY <1>1, <1>6, <2>1, <3>2, CountAppend DEF procTLP
    <3> QED  BY <3>1, <3>2
  <2>5. /\ UserWritesIn(tlpQ') = UserWritesIn(tlpQ) /\ Asks(cpl') \subseteq Asks(cpl)
        /\ UserWritesQueued' = UserWritesQueued /\ userWriteEmit' = userWriteEmit
    BY <2>1 DEF UserWritesIn, UserWritesQueued, writeVars, Asks
  <2>6. UserWritesInFlight' = UserWritesInFlight
    <3>1. IsUserWrite(h) \in Nat
      BY <1>2
    <3> HIDE DEF h
    <3> DEFINE x == IsUserWrite(h)
    <3>2. /\ UserWritesIn(tlpQ') = UserWritesIn(tlpQ) + 0
          /\ UserWritesIn(tlp2Q') = UserWritesIn(tlp2Q) + (-x)
          /\ UserWritesIn(tlp3Q') = UserWritesIn(tlp3Q) + x
          /\ UserWritesQueued' = UserWritesQueued + 0
      BY <1>0, <3>1, <2>2, <2>4, <2>5
    <3> HIDE DEF x
    <3>4. x \in Int /\ -x \in Int /\ 0 \in Int /\ 0 + (-x) + x + 0 = 0
      BY <3>1 DEF x
    <3>5. TypeInv
      BY <1>1
    <3>6. UserWritesInFlight' = UserWritesInFlight + (0 + (-x) + x + 0)
      BY <3>2, <3>4, <3>5, FlightChange
    <3> QED  BY <1>0, <3>4, <3>6
  <2> QED  BY <1>4, <2>5, <2>6
<1>7. ASSUME procIOWrite PROVE LoadedStale' /\ Covered'
  <2> DEFINE h == Head(tlp3Q)
  <2>1. /\ tlp3Q # <<>> /\ tlp3Q' = Tail(tlp3Q) /\ h \in HostTlp
        /\ UNCHANGED <<tlpQ, tlp2Q, userWriteQ, userWrite2Q, cpl>>
    BY <1>7, QueueTypes DEF procIOWrite, CreditInv, NoReset
  <2>2. UserWritesIn(tlp3Q') = UserWritesIn(tlp3Q) - IsUserWrite(h)
    BY <1>1, <2>1, Taken
  <2>4. userWrite1Q' = userWrite1Q + IsUserWrite(h) /\ userWriteEmit' = userWriteEmit
    <3>1. h.kind # "init"
      BY <2>1 DEF HostTlp
    <3> QED  BY <1>1, <1>7, <3>1, Numbers DEF procIOWrite, IsUserWrite
  <2>5. /\ UserWritesIn(tlpQ') = UserWritesIn(tlpQ) /\ UserWritesIn(tlp2Q') = UserWritesIn(tlp2Q)
        /\ Asks(cpl') \subseteq Asks(cpl)
    BY <2>1 DEF UserWritesIn, Asks
  <2>6. UserWritesInFlight' = UserWritesInFlight
    <3>1. IsUserWrite(h) \in Nat
      BY <1>2
    <3> HIDE DEF h
    <3>3. UserWritesQueued' = UserWritesQueued + IsUserWrite(h)
      BY <1>0, <2>1, <2>4, <3>1 DEF UserWritesQueued
    <3> DEFINE x == IsUserWrite(h)
    <3>2. /\ UserWritesIn(tlpQ') = UserWritesIn(tlpQ) + 0
          /\ UserWritesIn(tlp2Q') = UserWritesIn(tlp2Q) + 0
          /\ UserWritesIn(tlp3Q') = UserWritesIn(tlp3Q) + (-x)
          /\ UserWritesQueued' = UserWritesQueued + x
      BY <1>0, <3>1, <2>2, <2>5, <3>3
    <3> HIDE DEF x
    <3>4. x \in Int /\ -x \in Int /\ 0 \in Int /\ 0 + 0 + (-x) + x = 0
      BY <3>1 DEF x
    <3>5. TypeInv
      BY <1>1
    <3>6. UserWritesInFlight' = UserWritesInFlight + (0 + 0 + (-x) + x)
      BY <3>2, <3>4, <3>5, FlightChange
    <3> QED  BY <1>0, <3>4, <3>6
  <2> QED  BY <1>4, <2>4, <2>5, <2>6
<1>8. ASSUME UNCHANGED <<tlpQ, tlp2Q, tlp3Q>>, UserWritesQueued' = UserWritesQueued,
             UNCHANGED userWriteEmit, Asks(cpl') \subseteq Asks(cpl)
      PROVE  LoadedStale' /\ Covered'
  BY <1>4, <1>8 DEF UserWritesInFlight, UserWritesIn
<1>9. ASSUME relayUserWriteQ \/ relayUserWrite2Q PROVE LoadedStale' /\ Covered'
  <2>1. UserWritesQueued' = UserWritesQueued
    BY <1>0, <1>9 DEF relayUserWriteQ, relayUserWrite2Q, UserWritesQueued
  <2>2. UNCHANGED <<tlpQ, tlp2Q, tlp3Q, userWriteEmit, cpl>>
    BY <1>9 DEF relayUserWriteQ, relayUserWrite2Q, tlpVars
  <2>3. Asks(cpl') \subseteq Asks(cpl)
    BY <2>2 DEF Asks
  <2> QED  BY <1>8, <2>1, <2>2, <2>3
<1>10. ASSUME \/ completeIORead \/ relayUserReadQ0 \/ relayUserReadQ1 \/ dataReq
              \/ dataSend
       PROVE  LoadedStale' /\ Covered'
  <2>1. UNCHANGED <<tlpQ, tlp2Q, tlp3Q, writeVars>>
    BY <1>10 DEF completeIORead, relayUserReadQ0, relayUserReadQ1, dataReq, dataSend, tlpVars
  <2>2. Asks(cpl') \subseteq Asks(cpl)
    BY <1>10 DEF completeIORead, relayUserReadQ0, relayUserReadQ1, dataReq, dataSend,
       Answer, Asks, IsAsk
  <2> QED  BY <1>8, <2>1, <2>2 DEF writeVars, UserWritesQueued
<1>11. ASSUME dataReceive PROVE LoadedStale' /\ Covered'
  <2>1. /\ userWriteEmit' = Plus(userWriteEmit, 1, WordMod)
        /\ UNCHANGED <<tlpQ, tlp2Q, tlp3Q, userWrite1Q, userWriteQ, cpl>>
        /\ userWrite2Q > 0 /\ userWrite2Q' = userWrite2Q - 1
    BY <1>11 DEF dataReceive, tlpVars
  <2>2. UserWritesInFlight' = UserWritesInFlight - 1 /\ UserWritesInFlight >= 1
    <3>1. UserWritesQueued' = UserWritesQueued - 1 /\ UserWritesQueued >= 1
      BY <1>0, <2>1 DEF UserWritesQueued
    <3>2. /\ UserWritesIn(tlpQ') = UserWritesIn(tlpQ)
          /\ UserWritesIn(tlp2Q') = UserWritesIn(tlp2Q)
          /\ UserWritesIn(tlp3Q') = UserWritesIn(tlp3Q)
      BY <2>1 DEF UserWritesIn
    <3>3. UserWritesInFlight' = UserWritesInFlight + (0 + 0 + 0 + (-1))
      <4>1. /\ UserWritesIn(tlpQ') = UserWritesIn(tlpQ) + 0
            /\ UserWritesIn(tlp2Q') = UserWritesIn(tlp2Q) + 0
            /\ UserWritesIn(tlp3Q') = UserWritesIn(tlp3Q) + 0
            /\ UserWritesQueued' = UserWritesQueued + (-1)
        BY <1>0, <3>1, <3>2
      <4> QED  BY <1>1, <4>1, FlightChange
    <3>4. UserWritesInFlight >= 1
      BY <1>0, <3>1 DEF UserWritesInFlight
    <3> QED  BY <1>0, <3>3, <3>4
  <2>0. WordMod \in Nat /\ IO_QUEUE_SIZE \in Nat
    BY ConstAssumption
  <2> DEFINE g == Granted
             f == UserWritesInFlight
             b == io_wbudget
  <2>3. /\ f \in Nat /\ b \in Nat /\ f + b <= g /\ g <= IO_QUEUE_SIZE + 1
        /\ g \in 0 .. WordMod - 1 /\ f >= 1
    BY <1>1, <2>2, Numbers DEF CreditInv, Covered
  <2>4. Granted' = g - 1
    <3>1. /\ Granted >= 1 /\ io_wreq' = io_wreq
      BY <1>3, <2>3
    <3>2. io_wreq \in 0 .. WordMod - 1 /\ userWriteEmit \in 0 .. WordMod - 1
      BY <1>1, Numbers
    <3> QED  BY <2>0, <2>1, <3>1, <3>2, Differences DEF Granted
  <2>5. Covered'
    <3>1. UserWritesInFlight' = f - 1 /\ io_wbudget' = b
      BY <1>3, <2>2
    <3> HIDE DEF f, g, b
    <3>2. (f - 1) + b <= g - 1 /\ g - 1 <= IO_QUEUE_SIZE + 1
      BY <2>0, <2>3
    <3> QED  BY <2>4, <3>1, <3>2 DEF Covered
  <2>6. LoadedStale'
    <3>1. ASSUME NEW v \in Nat, v < WordMod, Stale(v) PROVE Stale(v)'
      <4>1. io_wreq' = io_wreq /\ io_wreq \in 0 .. WordMod - 1
        BY <1>1, <1>3, Numbers
      <4>2. Minus(io_wreq, v, WordMod) \in Nat
        BY <2>0, <3>1, <4>1, Differences
      <4>3. g - 1 <= Minus(io_wreq, v, WordMod)
        BY <2>0, <2>3, <3>1, <4>2 DEF Stale
      <4> HIDE DEF g
      <4> QED  BY <2>4, <4>1, <4>3 DEF Stale
    <3>2. /\ \A c \in Asks(cpl) : c.val \in Nat /\ c.val < WordMod
          /\ \A u \in Threads : pc[u] = "wTest" => emit[u] \in Nat /\ emit[u] < WordMod
      BY <1>1 DEF TypeInv, TypeOK, HostTypeOK, LoadedInRange, TestInRange, Asks, IsAsk,
         Completion
    <3> QED  BY <1>3, <2>1, <3>1, <3>2 DEF CreditInv, LoadedStale, Asks
  <2> QED  BY <2>5, <2>6
<1> QED  BY <1>5, <1>6, <1>7, <1>9, <1>10, <1>11 DEF Hardware, UserLogic

-----------------------------------------------------------------------------
(* Without a restart there is no reset write on its way.                   *)
LEMMA NoResetStep ==
  ASSUME TypeInv, NoReset, ~Restart, [Next]_vars
  PROVE  NoReset'
<1>1. /\ tlpQ \in Seq(HostTlp) /\ tlp2Q \in Seq(HostTlp) /\ tlp3Q \in Seq(HostTlp)
      /\ tlpQ # <<>> => Tail(tlpQ) \in Seq(HostTlp) /\ Head(tlpQ) \in HostTlp
      /\ tlp2Q # <<>> => Tail(tlp2Q) \in Seq(HostTlp) /\ Head(tlp2Q) \in HostTlp
      /\ tlp3Q # <<>> => Tail(tlp3Q) \in Seq(HostTlp)
  BY QueueTypes DEF NoReset
<1>2. /\ \A x \in HostTlp : Append(tlpQ, x) \in Seq(HostTlp)
      /\ \A x \in HostTlp : Append(tlp2Q, x) \in Seq(HostTlp)
      /\ \A x \in HostTlp : Append(tlp3Q, x) \in Seq(HostTlp)
  BY QueueTypes DEF NoReset
<1>3. ASSUME NEW t \in Threads, StartCall(t) \/ Continue(t) PROVE NoReset'
  <2>1. /\ Load("wemit", t) \in HostTlp /\ Load("remit", t) \in HostTlp
        /\ \A a : WriteTlp(a) \in HostTlp
        /\ \A a \in {"user", "config", "fixed"} : ReadTlp(a, t) \in HostTlp
    BY TlpTypes DEF HostTlp, Load, WriteTlp, ReadTlp, Store
  <2>2. addr[t] \in {"user", "config", "fixed"} /\ ReadKinds \subseteq {"user", "config", "fixed"}
    BY ConstAssumption DEF TypeInv, TypeOK, HostTypeOK
  <2>3. UNCHANGED <<tlp2Q, tlp3Q>>
    BY <1>3 DEF StartCall, Continue, WriteBudgeted, WriteLoadEmit, WriteRetry, WriteRefill,
       ReadBudgeted, ReadLoadEmit, ReadRetry, ReadRefill, LoadReturns, tlpVars
  <2>4. UNCHANGED tlpQ \/ \E x \in HostTlp : tlpQ' = Append(tlpQ, x)
    BY <1>3, <2>1, <2>2 DEF StartCall, Continue, WriteBudgeted, WriteLoadEmit, WriteRetry,
       WriteRefill, ReadBudgeted, ReadLoadEmit, ReadRetry, ReadRefill, LoadReturns, tlpVars,
       IssueRead, Send
  <2> QED  BY <1>1, <1>2, <2>3, <2>4 DEF NoReset
<1>4. ASSUME filterStatReadTLP PROVE NoReset'
  BY <1>1, <1>2, <1>4 DEF filterStatReadTLP, NoReset
<1>5. ASSUME procTLP PROVE NoReset'
  BY <1>1, <1>2, <1>5 DEF procTLP, NoReset
<1>6. ASSUME procIOWrite PROVE NoReset'
  BY <1>1, <1>6 DEF procIOWrite, NoReset
<1>7. ASSUME UNCHANGED <<tlpQ, tlp2Q, tlp3Q>> PROVE NoReset'
  BY <1>7 DEF NoReset
<1> QED
  BY <1>3, <1>4, <1>5, <1>6, <1>7
  DEF Next, Hardware, UserLogic, completeIORead, relayUserWriteQ, relayUserWrite2Q,
      relayUserReadQ0, relayUserReadQ1, dataReceive, dataReq, dataSend, tlpVars, vars

(* The inductive invariant.                                                *)
LEMMA CreditStep == MaxRestarts = 0 /\ CreditInv /\ [Next]_vars => CreditInv'
<1> SUFFICES ASSUME MaxRestarts = 0, CreditInv, [Next]_vars PROVE CreditInv'
  OBVIOUS
<1>1. TypeInv /\ AskInv /\ NoReset
  BY DEF CreditInv
<1>3. ~Restart
  BY <1>1 DEF Restart, TypeInv, TypeOK, HostTypeOK
<1>2. TypeInv' /\ NoReset'
  BY <1>1, <1>3, TypeStep, NoResetStep
<1>4. ASSUME NEW t \in Threads, StartCall(t) \/ Continue(t) PROVE CreditInv'
  BY <1>1, <1>2, <1>4, HostAsks, HostCredit DEF CreditInv
<1>5. ASSUME Hardware \/ UserLogic PROVE CreditInv'
  BY <1>1, <1>2, <1>5, HardwareAsks, HardwareCredit DEF CreditInv
<1>6. ASSUME UNCHANGED vars PROVE CreditInv'
  <2>1. UNCHANGED <<pc, emit, writeLock, io_wbudget, io_wreq, userWriteEmit, tlpQ, tlp2Q,
                    tlp3Q, userWrite1Q, userWriteQ, userWrite2Q, cpl>>
    BY <1>6 DEF vars, hostVars, tlpVars, writeVars
  <2>2. AskInv'
    BY <1>1, <2>1 DEF AskInv, Locked, OneAsk, AskersWait, AnsweredOnce, Asks, NoAsk
  <2>3. LoadedStale' /\ Covered'
    BY <2>1 DEF CreditInv, LoadedStale, Covered, Asks, Stale, Granted, UserWritesInFlight,
       UserWritesIn, UserWritesQueued
  <2> QED  BY <1>2, <2>2, <2>3 DEF CreditInv
<1> QED  BY <1>3, <1>4, <1>5, <1>6 DEF Next

(* It holds when the process has started.                                  *)
LEMMA CreditInit == Init => CreditInv
<1> SUFFICES ASSUME Init PROVE CreditInv
  OBVIOUS
<1> USE ConstAssumption
<1>1. TypeInv
  BY DEF Init, TypeInv, TypeOK, HostTypeOK, TlpTypeOK, WriteTypeOK, ReadTypeOK,
     LoadedInRange, TestInRange
<1>2. AskInv /\ NoReset /\ LoadedStale
  BY DEF Init, AskInv, Locked, OneAsk, AskersWait, AnsweredOnce, Asks, NoReset, LoadedStale
<1>3. UserWritesInFlight = 0 /\ Granted = 0
  BY CountEmpty DEF Init, UserWritesInFlight, UserWritesQueued, Granted, Minus
<1> QED  BY <1>1, <1>2, <1>3 DEF CreditInv, Covered, Init

(* What writeWord has in flight and may still send is covered by what it   *)
(* has counted, and that never exceeds the queue by more than one word,    *)
(* whatever the counters have wrapped to.                                  *)
THEOREM CreditsAlwaysCover ==
  ASSUME MaxRestarts = 0
  PROVE  Spec => []CreditsCover
<1>1. CreditInv => CreditsCover
  BY DEF CreditInv, Covered, CreditsCover, Granted
<1>2. CreditInv /\ [Next]_vars => CreditInv'
  BY CreditStep
<1> QED  BY <1>1, <1>2, CreditInit, PTL DEF Spec

(* procIOWrite always has room for a user write without waiting for the    *)
(* user logic to take one.                                                 *)
THEOREM UserWritesAlwaysFit ==
  ASSUME MaxRestarts = 0
  PROVE  Spec => []UserWritesFit
<1>1. CreditInv => UserWritesFit
  <2> SUFFICES ASSUME CreditInv PROVE UserWritesFit
    OBVIOUS
  <2>1. /\ UserWritesInFlight \in Nat /\ io_wbudget \in Nat /\ Granted \in Nat
        /\ UserWritesInFlight + io_wbudget <= Granted /\ Granted <= IO_QUEUE_SIZE + 1
    BY ConstAssumption, Numbers DEF CreditInv, Covered
  <2>2. IO_QUEUE_SIZE \in Nat /\ FifoCap \in Nat /\ FifoCap >= 1
    BY ConstAssumption
  <2> QED  BY <2>1, <2>2 DEF UserWritesFit
<1>2. CreditInv /\ [Next]_vars => CreditInv'
  BY CreditStep
<1> QED  BY <1>1, <1>2, CreditInit, PTL DEF Spec

-----------------------------------------------------------------------------
(***************************************************************************)
(* The credit of readWord.  read_lock is held until the load of the word   *)
(* returns, so one load of readWord at a time is under way: place is the   *)
(* queue it is in.  While the counter is being loaded no read is, and the  *)
(* counter stands still.                                                   *)
(***************************************************************************)
Places == {"none", "tlpQ", "tlp2Q", "ioReadQ", "userReadQ0", "userReadQ1", "userReadQ2",
           "userBusy", "cpl"}
NotTaken == {"tlpQ", "tlp2Q", "userReadQ0", "userReadQ1", "userReadQ2"}

IsRead(x) == x.kind \in DataLoads \cup {"remit"}
Awaits(x, p) == /\ x.kind = "remit" => p[x.thr] \in {"rLoad", "rReload"}
                /\ x.kind # "remit" => p[x.thr] = "rData"

(* At most one load of readWord in a queue, if it is here at all.          *)
ReadQ(s, here, p) ==
  /\ \A i, j \in 1 .. Len(s) : IsRead(s[i]) /\ IsRead(s[j]) => i = j
  /\ \A i \in 1 .. Len(s) : IsRead(s[i]) => here /\ Awaits(s[i], p)
WaitQ(q, here, p) ==
  /\ Len(q) <= 1
  /\ \A i \in 1 .. Len(q) : here /\ p[q[i]] = "rData"
BusySet(S, here, p) == \A t \in S : here /\ p[t] = "rData" /\ \A u \in S : u = t
ReadCpl(C, here, p) ==
  \A c \in C : IsRead(c) => here /\ Awaits(c, p) /\ \A d \in C : IsRead(d) => d = c

UnderWay(place, p) ==
  /\ ReadQ(tlpQ, place = "tlpQ", p) /\ ReadQ(tlp2Q, place = "tlp2Q", p)
  /\ WaitQ(ioReadQ, place = "ioReadQ", p)
  /\ WaitQ(userReadQ0, place = "userReadQ0", p)
  /\ WaitQ(userReadQ1, place = "userReadQ1", p)
  /\ WaitQ(userReadQ2, place = "userReadQ2", p)
  /\ BusySet(userBusy, place = "userBusy", p)
  /\ ReadCpl(cpl, place = "cpl", p)

ReadLocked ==
  \A t \in Threads : pc[t] \in {"rLoad", "rReload", "rTest", "rData"} =>
                       readLock = t /\ (pc[t] # "rData" => io_rbudget = 0)

(* The counter stands still while it is loaded.                            *)
LoadedExact ==
  /\ \A c \in cpl : c.kind = "remit" => c.val = userReadEmit
  /\ \A t \in Threads : /\ pc[t] = "rTest" => emit[t] = userReadEmit
                        /\ pc[t] \in {"rTest", "rReload"} => iob[t] = Widened(userReadEmit)

ReadsOut == Minus(io_rreq, userReadEmit, ReadMod)
ReadCounted(place) ==
  /\ io_rbudget + ReadsOut <= IO_QUEUE_SIZE + 1
  /\ place \in NotTaken /\ (\E t \in Threads : pc[t] = "rData") => ReadsOut >= 1

ReadOne == \E place \in Places : UnderWay(place, pc) /\ ReadCounted(place)
ReadInv == TypeInv /\ (restarts = 0 => NoReset /\ ReadLocked /\ LoadedExact /\ ReadOne)

-----------------------------------------------------------------------------
(* What taking the first entry of a queue does to the load in it.          *)
LEMMA ReadTail ==
  ASSUME NEW s \in Seq(Tlp), s # <<>>, NEW here, NEW p, ReadQ(s, here, p)
  PROVE  /\ ReadQ(Tail(s), here, p)
         /\ IsRead(Head(s)) => here /\ Awaits(Head(s), p) /\ ReadQ(Tail(s), FALSE, p)
<1> DEFINE t == Tail(s)
<1>1. /\ Len(s) \in Nat /\ Len(t) = Len(s) - 1 /\ Len(s) # 0 /\ Head(s) = s[1]
      /\ \A i \in 1 .. Len(t) : t[i] = s[i + 1]
  BY HeadTailProperties, LenProperties, EmptySeq
<1>2. \A i \in 1 .. Len(t) : i + 1 \in 1 .. Len(s) /\ i + 1 # 1
  BY <1>1
<1>3. 1 \in 1 .. Len(s) /\ \A i, j \in 1 .. Len(t) : i + 1 = j + 1 => i = j
  BY <1>1
<1> HIDE DEF t
<1>4. ReadQ(t, here, p)
  BY <1>1, <1>2, <1>3, Zenon DEF ReadQ
<1>5. ASSUME IsRead(Head(s)) PROVE here /\ Awaits(Head(s), p)
  BY <1>1, <1>3, <1>5, Zenon DEF ReadQ
<1>6. ASSUME IsRead(Head(s)), NEW i \in 1 .. Len(t) PROVE ~IsRead(t[i])
  BY <1>1, <1>2, <1>3, <1>6, Zenon DEF ReadQ
<1>7. IsRead(Head(s)) => ReadQ(t, FALSE, p)
  BY <1>4, <1>6, Zenon DEF ReadQ
<1> QED  BY <1>4, <1>5, <1>7 DEF t

(* What putting in an entry does to it.                                    *)
LEMMA ReadAppend ==
  ASSUME NEW s \in Seq(Tlp), NEW x \in Tlp, NEW here, NEW p, ReadQ(s, here, p)
  PROVE  /\ ~IsRead(x) => ReadQ(Append(s, x), here, p)
         /\ ~here /\ Awaits(x, p) => ReadQ(Append(s, x), TRUE, p)
<1> DEFINE a == Append(s, x)
<1>1. /\ Len(s) \in Nat /\ Len(a) = Len(s) + 1 /\ a[Len(s) + 1] = x
      /\ \A i \in 1 .. Len(s) : a[i] = s[i]
  BY AppendProperties, LenProperties
<1>2. \A i \in 1 .. Len(a) : i \in 1 .. Len(s) \/ i = Len(s) + 1
  BY <1>1
<1> HIDE DEF a
<1>3. ~IsRead(x) => ReadQ(a, here, p)
  BY <1>1, <1>2, Zenon DEF ReadQ
<1>4. ~here /\ Awaits(x, p) => ReadQ(a, TRUE, p)
  BY <1>1, <1>2, Zenon DEF ReadQ
<1> QED  BY <1>3, <1>4 DEF a

(* The same for the queues that only say who waits.                        *)
LEMMA WaitMoves ==
  ASSUME NEW q \in Seq(Threads), NEW here, NEW p, WaitQ(q, here, p)
  PROVE  /\ q # <<>> => /\ here /\ p[Head(q)] = "rData" /\ Tail(q) = <<>>
                        /\ \A h : WaitQ(Tail(q), h, p)
         /\ \A t \in Threads : ~here /\ p[t] = "rData" => WaitQ(Append(q, t), TRUE, p)
<1>1. Len(q) \in Nat /\ (Len(q) = 0 <=> q = <<>>)
  BY LenProperties, EmptySeq
<1>2. ASSUME q # <<>>
      PROVE  here /\ p[Head(q)] = "rData" /\ Tail(q) = <<>> /\ \A h : WaitQ(Tail(q), h, p)
  <2>0. Len(q) = 1
    <3>1. Len(q) <= 1
      BY DEF WaitQ
    <3>2. Len(q) \in Nat /\ Len(q) # 0
      BY <1>2, LenProperties, EmptySeq
    <3> QED  BY <3>1, <3>2
  <2>1. /\ 1 \in 1 .. Len(q) /\ Head(q) = q[1] /\ Tail(q) \in Seq(Threads)
        /\ Len(Tail(q)) = 0
    BY <1>2, <2>0, HeadTailProperties
  <2>2. Tail(q) = <<>>
    BY <2>1, EmptySeq
  <2> QED  BY <2>1, <2>2 DEF WaitQ
<1>3. ASSUME NEW t \in Threads, ~here, p[t] = "rData" PROVE WaitQ(Append(q, t), TRUE, p)
  <2>1. q = <<>>
    BY <1>1, <1>3 DEF WaitQ
  <2>2. Append(q, t) = <<t>>
    BY <2>1
  <2> QED  BY <1>3, <2>2 DEF WaitQ
<1> QED  BY <1>2, <1>3

(* Nothing is under way while nobody waits for it.                         *)
LEMMA NothingUnderWay ==
  ASSUME TypeInv, NEW place, UnderWay(place, pc),
         \A t \in Threads : pc[t] \notin {"rLoad", "rReload", "rData"}
  PROVE  UnderWay("none", pc)
<1>1. /\ tlpQ \in Seq(Tlp) /\ tlp2Q \in Seq(Tlp) /\ ioReadQ \in Seq(Threads)
      /\ userReadQ0 \in Seq(Threads) /\ userReadQ1 \in Seq(Threads)
      /\ userReadQ2 \in Seq(Threads) /\ userBusy \in SUBSET Threads
      /\ cpl \in SUBSET Completion
  BY DEF TypeInv, TypeOK, TlpTypeOK, ReadTypeOK
<1>2. \A x \in Tlp \cup Completion : IsRead(x) => ~Awaits(x, pc)
  <2>1. \A x \in Tlp \cup Completion : IsRead(x) => x.thr \in Threads
    BY DEF Tlp, Completion, IsRead, Stores, Loads, DataLoads
  <2> QED  BY <2>1 DEF Awaits
<1>3. ASSUME NEW s \in Seq(Tlp), NEW h, ReadQ(s, h, pc) PROVE ReadQ(s, FALSE, pc)
  <2>1. \A i \in 1 .. Len(s) : s[i] \in Tlp
    BY ElementOfSeq
  <2> QED  BY <1>2, <1>3, <2>1 DEF ReadQ
<1>4. ASSUME NEW q \in Seq(Threads), NEW h, WaitQ(q, h, pc) PROVE WaitQ(q, FALSE, pc)
  <2>1. \A i \in 1 .. Len(q) : q[i] \in Threads
    BY ElementOfSeq
  <2> QED  BY <1>4, <2>1 DEF WaitQ
<1>5. BusySet(userBusy, FALSE, pc) /\ ReadCpl(cpl, FALSE, pc)
  BY <1>1, <1>2 DEF UnderWay, BusySet, ReadCpl
<1> QED  BY <1>1, <1>3, <1>4, <1>5 DEF UnderWay

(* What is under way stays while who waits for it does.                    *)
LEMMA StillUnderWay ==
  ASSUME TypeInv, NEW place, UnderWay(place, pc), NEW p,
         \A t \in Threads : /\ pc[t] = "rData" => p[t] = "rData"
                            /\ pc[t] \in {"rLoad", "rReload"} => p[t] \in {"rLoad", "rReload"}
  PROVE  UnderWay(place, p)
<1>1. /\ tlpQ \in Seq(Tlp) /\ tlp2Q \in Seq(Tlp) /\ ioReadQ \in Seq(Threads)
      /\ userReadQ0 \in Seq(Threads) /\ userReadQ1 \in Seq(Threads)
      /\ userReadQ2 \in Seq(Threads) /\ userBusy \in SUBSET Threads
      /\ cpl \in SUBSET Completion
  BY DEF TypeInv, TypeOK, TlpTypeOK, ReadTypeOK
<1>2. \A x \in Tlp \cup Completion : IsRead(x) /\ Awaits(x, pc) => Awaits(x, p)
  <2>1. \A x \in Tlp \cup Completion : IsRead(x) => x.thr \in Threads
    BY DEF Tlp, Completion, IsRead, Stores, Loads, DataLoads
  <2> QED  BY <2>1 DEF Awaits
<1>3. ASSUME NEW s \in Seq(Tlp), NEW h, ReadQ(s, h, pc) PROVE ReadQ(s, h, p)
  <2>1. \A i \in 1 .. Len(s) : s[i] \in Tlp
    BY ElementOfSeq
  <2> QED  BY <1>2, <1>3, <2>1 DEF ReadQ
<1>4. ASSUME NEW q \in Seq(Threads), NEW h, WaitQ(q, h, pc) PROVE WaitQ(q, h, p)
  <2>1. \A i \in 1 .. Len(q) : q[i] \in Threads
    BY ElementOfSeq
  <2> QED  BY <1>4, <2>1 DEF WaitQ
<1>5. \A h : BusySet(userBusy, h, pc) => BusySet(userBusy, h, p)
  BY <1>1 DEF BusySet
<1>6. \A h : ReadCpl(cpl, h, pc) => ReadCpl(cpl, h, p)
  BY <1>1, <1>2 DEF ReadCpl
<1> QED  BY <1>1, <1>3, <1>4, <1>5, <1>6 DEF UnderWay

ReadStates == {"rLoad", "rReload", "rTest", "rData"}

(* A step that leaves the loads of readWord, and who waits, alone.         *)
LEMMA ReadQuiet ==
  ASSUME TypeInv, ReadLocked, LoadedExact, ReadOne,
         UNCHANGED <<tlp2Q, ioReadQ, readVars, io_rreq, io_rbudget, readLock>>,
         cpl' \subseteq cpl,
         UNCHANGED tlpQ \/ \E x \in Tlp : ~IsRead(x) /\ tlpQ' = Append(tlpQ, x),
         \A u \in Threads : pc[u] \in ReadStates \/ pc'[u] \in ReadStates =>
                              pc'[u] = pc[u] /\ emit'[u] = emit[u] /\ iob'[u] = iob[u]
  PROVE  ReadLocked' /\ LoadedExact' /\ ReadOne'
<1>1. PICK place \in Places : UnderWay(place, pc) /\ ReadCounted(place)
  BY DEF ReadOne
<1>2. UnderWay(place, pc')
  <2>1. \A u \in Threads : /\ pc[u] = "rData" => pc'[u] = "rData"
                           /\ pc[u] \in {"rLoad", "rReload"} => pc'[u] \in {"rLoad", "rReload"}
    BY DEF ReadStates
  <2> QED  BY <1>1, <2>1, StillUnderWay
<1>3. UnderWay(place, pc)'
  <2>1. tlpQ \in Seq(Tlp) /\ ReadQ(tlpQ, place = "tlpQ", pc')
    BY <1>2 DEF TypeInv, TypeOK, TlpTypeOK, UnderWay
  <2>2. ReadQ(tlpQ', place = "tlpQ", pc')
    BY <2>1, ReadAppend
  <2>3. ReadCpl(cpl', place = "cpl", pc')
    BY <1>2 DEF ReadCpl, UnderWay
  <2> QED  BY <1>2, <2>2, <2>3 DEF UnderWay, readVars
<1>4. ReadCounted(place)'
  <2>1. UNCHANGED ReadsOut
    BY DEF ReadsOut, readVars
  <2>2. \A u \in Threads : pc'[u] = "rData" => pc[u] = "rData"
    BY DEF ReadStates
  <2> QED  BY <1>1, <2>1, <2>2 DEF ReadCounted
<1>5. ReadLocked' /\ LoadedExact'
  BY DEF ReadLocked, LoadedExact, ReadStates, Widened, readVars
<1> QED  BY <1>1, <1>3, <1>4, <1>5 DEF ReadOne

(* A thread starts a load, of the counter or of the word.                  *)
LEMMA ReadStarts ==
  ASSUME TypeInv, ReadOne, NEW t \in Threads,
         \A u \in Threads : pc[u] \notin {"rLoad", "rReload", "rData"},
         NEW x \in Tlp, Send(x), Awaits(x, pc'), UNCHANGED <<tlp2Q, ioReadQ, readVars, cpl>>
  PROVE  UnderWay("tlpQ", pc)'
<1>1. PICK place \in Places : UnderWay(place, pc)
  BY DEF ReadOne
<1>2. UnderWay("none", pc')
  <2>1. UnderWay("none", pc)
    BY <1>1, NothingUnderWay
  <2> QED  BY <2>1, StillUnderWay
<1>3. ReadQ(tlpQ', TRUE, pc')
  <2>1. tlpQ \in Seq(Tlp) /\ ReadQ(tlpQ, "none" = "tlpQ", pc')
    BY <1>2 DEF TypeInv, TypeOK, TlpTypeOK, UnderWay
  <2> QED  BY <2>1, ReadAppend DEF Send
<1>4. /\ ReadQ(tlp2Q', "tlpQ" = "tlp2Q", pc') /\ WaitQ(ioReadQ', "tlpQ" = "ioReadQ", pc')
      /\ WaitQ(userReadQ0', "tlpQ" = "userReadQ0", pc')
      /\ WaitQ(userReadQ1', "tlpQ" = "userReadQ1", pc')
      /\ WaitQ(userReadQ2', "tlpQ" = "userReadQ2", pc')
      /\ BusySet(userBusy', "tlpQ" = "userBusy", pc') /\ ReadCpl(cpl', "tlpQ" = "cpl", pc')
  BY <1>2 DEF UnderWay, readVars
<1> QED  BY <1>3, <1>4 DEF UnderWay

(* A load returns: none is under way then.                                 *)
LEMMA ReadReturns ==
  ASSUME NEW place, UnderWay(place, pc), NEW c \in cpl, IsRead(c), cpl' = cpl \ {c},
         UNCHANGED <<tlpQ, tlp2Q, ioReadQ, readVars>>
  PROVE  UnderWay("none", pc)'
<1>1. place = "cpl" /\ \A d \in cpl' : ~IsRead(d)
  BY DEF UnderWay, ReadCpl
<1>2. \A s, p : ReadQ(s, FALSE, p) => ReadQ(s, FALSE, pc')
  BY DEF ReadQ
<1>3. \A q, p : WaitQ(q, FALSE, p) => WaitQ(q, FALSE, pc')
  BY DEF WaitQ
<1>4. BusySet(userBusy', FALSE, pc') /\ ReadCpl(cpl', FALSE, pc')
  BY <1>1 DEF UnderWay, BusySet, ReadCpl, readVars
<1>5. /\ ReadQ(tlpQ', FALSE, pc') /\ ReadQ(tlp2Q', FALSE, pc') /\ WaitQ(ioReadQ', FALSE, pc')
      /\ WaitQ(userReadQ0', FALSE, pc') /\ WaitQ(userReadQ1', FALSE, pc')
      /\ WaitQ(userReadQ2', FALSE, pc')
  BY <1>1, <1>2, <1>3 DEF UnderWay, readVars
<1> QED  BY <1>4, <1>5 DEF UnderWay

(* While a thread is in readWord no other is, and none is being answered   *)
(* while the lock is free.                                                 *)
LEMMA OneReader ==
  ASSUME ReadLocked, NEW t \in Threads,
         readLock = t \/ readLock = NoThread
  PROVE  \A u \in Threads \ {t} : pc[u] \notin ReadStates
BY ConstAssumption DEF ReadLocked, ReadStates

(* Counts that readWord adds one to.                                       *)
LEMMA IssueCounts ==
  ASSUME TypeInv, io_rreq' = Plus(io_rreq, 1, ReadMod), UNCHANGED userReadEmit,
         ReadsOut + 1 < ReadMod
  PROVE  ReadsOut' = ReadsOut + 1 /\ ReadsOut \in Nat
<1>1. /\ ReadMod \in Nat /\ io_rreq \in 0 .. ReadMod - 1 /\ userReadEmit \in 0 .. ReadMod - 1
  BY ConstAssumption DEF TypeInv, TypeOK, HostTypeOK, ReadTypeOK
<1>2. ReadsOut \in 0 .. ReadMod - 1
  BY <1>1, Differences DEF ReadsOut
<1>3. Minus(io_rreq', userReadEmit, ReadMod) = ReadsOut + 1
  BY <1>1, Differences DEF ReadsOut
<1> QED  BY <1>2, <1>3 DEF ReadsOut

(* What writeWord and readWord do.                                         *)
LEMMA HostReads ==
  ASSUME TypeInv, ReadLocked, LoadedExact, ReadOne, NEW t \in Threads,
         StartCall(t) \/ Continue(t)
  PROVE  ReadLocked' /\ LoadedExact' /\ ReadOne'
<1> USE ConstAssumption
<1>1. /\ DOMAIN pc = Threads /\ DOMAIN emit = Threads /\ DOMAIN iob = Threads
      /\ cpl \in SUBSET Completion
      /\ ReadKinds \subseteq {"user", "config", "fixed"}
      /\ addr[t] \in {"user", "config", "fixed"} /\ io_rbudget \in Nat
  BY DEF TypeInv, TypeOK, HostTypeOK
<1>2. \A a : WriteTlp(a) \in Tlp /\ ~IsRead(WriteTlp(a))
  BY TlpTypes DEF WriteTlp, Store, IsRead, DataLoads
<1>3. /\ Load("wemit", t) \in Tlp /\ ~IsRead(Load("wemit", t))
      /\ Load("remit", t) \in Tlp
  BY TlpTypes DEF Load, IsRead, DataLoads
<1>4. \A a \in {"user", "config", "fixed"} :
        /\ ReadTlp(a, t) \in Tlp /\ ReadTlp(a, t).kind # "remit" /\ ReadTlp(a, t).thr = t
  BY TlpTypes DEF ReadTlp, Load
<1>5. ReadsOut \in Nat /\ io_rbudget + ReadsOut <= IO_QUEUE_SIZE + 1
  <2>1. /\ ReadMod \in Nat /\ io_rreq \in 0 .. ReadMod - 1 /\ userReadEmit \in 0 .. ReadMod - 1
    BY DEF TypeInv, TypeOK, HostTypeOK, ReadTypeOK
  <2> QED  BY <2>1, Differences DEF ReadsOut, ReadOne, ReadCounted
<1>6. ASSUME NEW a \in WriteKinds, WriteBudgeted(t, a) \/ WriteLoadEmit(t, a)
      PROVE  ReadLocked' /\ LoadedExact' /\ ReadOne'
  <2>1. \E x \in Tlp : ~IsRead(x) /\ tlpQ' = Append(tlpQ, x)
    BY <1>2, <1>3, <1>6 DEF WriteBudgeted, WriteLoadEmit, Send
  <2>2. UNCHANGED <<tlp2Q, ioReadQ, readVars, io_rreq, io_rbudget, readLock, cpl, emit, iob>>
    BY <1>6 DEF WriteBudgeted, WriteLoadEmit
  <2>3. \A u \in Threads : pc[u] \in ReadStates \/ pc'[u] \in ReadStates => pc'[u] = pc[u]
    BY <1>1, <1>6 DEF WriteBudgeted, WriteLoadEmit, ReadStates
  <2> QED  BY <2>1, <2>2, <2>3, ReadQuiet
<1>7. ASSUME WriteRetry(t) PROVE ReadLocked' /\ LoadedExact' /\ ReadOne'
  <2>1. \E x \in Tlp : ~IsRead(x) /\ tlpQ' = Append(tlpQ, x)
    BY <1>3, <1>7 DEF WriteRetry, Send
  <2>2. UNCHANGED <<tlp2Q, ioReadQ, readVars, io_rreq, io_rbudget, readLock, cpl, emit, iob>>
    BY <1>7 DEF WriteRetry
  <2>3. \A u \in Threads : pc[u] \in ReadStates \/ pc'[u] \in ReadStates => pc'[u] = pc[u]
    BY <1>1, <1>7 DEF WriteRetry, ReadStates
  <2> QED  BY <2>1, <2>2, <2>3, ReadQuiet
<1>8. ASSUME WriteRefill(t) PROVE ReadLocked' /\ LoadedExact' /\ ReadOne'
  <2>1. \E x \in Tlp : ~IsRead(x) /\ tlpQ' = Append(tlpQ, x)
    BY <1>2, <1>8 DEF WriteRefill, Send
  <2>2. UNCHANGED <<tlp2Q, ioReadQ, readVars, io_rreq, io_rbudget, readLock, cpl, iob>>
    BY <1>8 DEF WriteRefill
  <2>3. \A u \in Threads : pc[u] \in ReadStates \/ pc'[u] \in ReadStates =>
                              pc'[u] = pc[u] /\ emit'[u] = emit[u]
    BY <1>1, <1>8 DEF WriteRefill, Return, ReadStates
  <2> QED  BY <2>1, <2>2, <2>3, ReadQuiet
<1>9. ASSUME NEW a \in ReadKinds, ReadBudgeted(t, a)
      PROVE  ReadLocked' /\ LoadedExact' /\ ReadOne'
  <2>1. /\ pc[t] = "idle" /\ readLock = NoThread /\ io_rbudget > 0
        /\ io_rbudget' = io_rbudget - 1 /\ readLock' = t /\ Send(ReadTlp(a, t))
        /\ io_rreq' = Plus(io_rreq, 1, ReadMod) /\ pc' = [pc EXCEPT ![t] = "rData"]
        /\ UNCHANGED <<emit, iob, tlp2Q, ioReadQ, readVars, cpl>>
    BY <1>9 DEF ReadBudgeted, IssueRead
  <2>2. \A u \in Threads : pc[u] \notin ReadStates
    BY <2>1, OneReader DEF ReadStates
  <2>3. UnderWay("tlpQ", pc)'
    <3>1. Awaits(ReadTlp(a, t), pc')
      BY <1>1, <1>4, <2>1 DEF Awaits
    <3> QED  BY <1>1, <1>4, <2>1, <2>2, <3>1, ReadStarts DEF ReadStates
  <2>4. ReadsOut' = ReadsOut + 1
    <3>1. ReadsOut + 1 < ReadMod
      BY <1>1, <1>5, <2>1
    <3> QED  BY <2>1, <3>1, IssueCounts DEF readVars
  <2>5. ReadCounted("tlpQ")'
    BY <1>1, <1>5, <2>1, <2>4 DEF ReadCounted
  <2>6. \A u \in Threads : pc'[u] \in ReadStates => u = t
    BY <1>1, <2>1, <2>2
  <2>7. ReadLocked' /\ LoadedExact'
    <3>1. pc'[t] = "rData"
      BY <1>1, <2>1
    <3>2. \A c \in cpl : c.kind = "remit" => c.val = userReadEmit
      BY DEF LoadedExact
    <3> QED  BY <2>1, <2>6, <3>1, <3>2 DEF ReadLocked, LoadedExact, ReadStates, readVars
  <2> QED  BY <2>3, <2>5, <2>7 DEF ReadOne, Places
<1>10. ASSUME NEW a \in ReadKinds, ReadLoadEmit(t, a)
       PROVE  ReadLocked' /\ LoadedExact' /\ ReadOne'
  <2>1. /\ pc[t] = "idle" /\ readLock = NoThread /\ io_rbudget = 0
        /\ io_rbudget' = io_rbudget /\ readLock' = t /\ Send(Load("remit", t))
        /\ io_rreq' = io_rreq /\ pc' = [pc EXCEPT ![t] = "rLoad"]
        /\ UNCHANGED <<emit, iob, tlp2Q, ioReadQ, readVars, cpl>>
    BY <1>10 DEF ReadLoadEmit
  <2>2. \A u \in Threads : pc[u] \notin ReadStates
    BY <2>1, OneReader DEF ReadStates
  <2>3. UnderWay("tlpQ", pc)'
    <3>1. Awaits(Load("remit", t), pc')
      BY <1>1, <2>1 DEF Awaits, Load
    <3> QED  BY <1>3, <2>1, <2>2, <3>1, ReadStarts DEF ReadStates
  <2>4. UNCHANGED ReadsOut
    BY <2>1 DEF ReadsOut, readVars
  <2>6. pc'[t] = "rLoad" /\ \A u \in Threads : pc'[u] \in ReadStates => u = t
    BY <1>1, <2>1, <2>2
  <2>5. ReadCounted("tlpQ")'
    BY <1>5, <2>1, <2>4, <2>6 DEF ReadCounted, ReadStates
  <2>7. ReadLocked' /\ LoadedExact'
    <3>2. \A c \in cpl : c.kind = "remit" => c.val = userReadEmit
      BY DEF LoadedExact
    <3> QED  BY <2>1, <2>6, <3>2 DEF ReadLocked, LoadedExact, ReadStates, readVars
  <2> QED  BY <2>3, <2>5, <2>7 DEF ReadOne, Places
<1>11. ASSUME ReadRetry(t) PROVE ReadLocked' /\ LoadedExact' /\ ReadOne'
  <2>1. /\ pc[t] = "rTest"
        /\ io_rbudget' = io_rbudget /\ readLock' = readLock /\ Send(Load("remit", t))
        /\ io_rreq' = io_rreq /\ pc' = [pc EXCEPT ![t] = "rReload"]
        /\ UNCHANGED <<emit, iob, tlp2Q, ioReadQ, readVars, cpl>>
    BY <1>11 DEF ReadRetry
  <2>2. readLock = t /\ io_rbudget = 0 /\ \A u \in Threads \ {t} : pc[u] \notin ReadStates
    <3>1. readLock = t /\ io_rbudget = 0
      BY <2>1 DEF ReadLocked
    <3> QED  BY <3>1, OneReader
  <2>3. UnderWay("tlpQ", pc)'
    <3>1. Awaits(Load("remit", t), pc')
      BY <1>1, <2>1 DEF Awaits, Load
    <3>2. \A u \in Threads : pc[u] \notin {"rLoad", "rReload", "rData"}
      BY <2>1, <2>2 DEF ReadStates
    <3> QED  BY <1>3, <2>1, <3>1, <3>2, ReadStarts
  <2>4. UNCHANGED ReadsOut
    BY <2>1 DEF ReadsOut, readVars
  <2>6. pc'[t] = "rReload" /\ \A u \in Threads : pc'[u] \in ReadStates => u = t
    BY <1>1, <2>1, <2>2
  <2>5. ReadCounted("tlpQ")'
    BY <1>5, <2>1, <2>4, <2>6 DEF ReadCounted, ReadStates
  <2>7. ReadLocked' /\ LoadedExact'
    <3>2. /\ \A c \in cpl : c.kind = "remit" => c.val = userReadEmit
          /\ iob[t] = Widened(userReadEmit)
      BY <2>1 DEF LoadedExact
    <3> QED  BY <2>1, <2>2, <2>6, <3>2 DEF ReadLocked, LoadedExact, ReadStates, readVars, Widened
  <2> QED  BY <2>3, <2>5, <2>7 DEF ReadOne, Places
<1>12. ASSUME ReadRefill(t) PROVE ReadLocked' /\ LoadedExact' /\ ReadOne'
  <2>1. /\ pc[t] = "rTest" /\ iob[t] < emit[t] + IO_QUEUE_SIZE
        /\ io_rbudget' = (emit[t] + IO_QUEUE_SIZE) - iob[t]
        /\ readLock' = readLock /\ Send(ReadTlp(addr[t], t))
        /\ io_rreq' = Plus(io_rreq, 1, ReadMod) /\ pc' = [pc EXCEPT ![t] = "rData"]
        /\ UNCHANGED <<tlp2Q, ioReadQ, readVars, cpl>>
    BY <1>12 DEF ReadRefill, IssueRead
  <2>2. readLock = t /\ io_rbudget = 0 /\ \A u \in Threads \ {t} : pc[u] \notin ReadStates
    <3>1. readLock = t /\ io_rbudget = 0
      BY <2>1 DEF ReadLocked
    <3> QED  BY <3>1, OneReader
  <2>3. UnderWay("tlpQ", pc)'
    <3>1. Awaits(ReadTlp(addr[t], t), pc')
      BY <1>1, <1>4, <2>1 DEF Awaits
    <3>2. \A u \in Threads : pc[u] \notin {"rLoad", "rReload", "rData"}
      BY <2>1, <2>2 DEF ReadStates
    <3> QED  BY <1>1, <1>4, <2>1, <3>1, <3>2, ReadStarts
  <2>4. ReadsOut < IO_QUEUE_SIZE /\ io_rbudget' = IO_QUEUE_SIZE - ReadsOut
    <3>1. emit[t] = userReadEmit /\ iob[t] = Widened(userReadEmit)
      BY <2>1 DEF LoadedExact
    <3>2. /\ ReadMod \in Nat /\ io_rreq \in 0 .. ReadMod - 1
          /\ userReadEmit \in 0 .. ReadMod - 1 /\ IO_QUEUE_SIZE \in Nat
      BY DEF TypeInv, TypeOK, HostTypeOK, ReadTypeOK
    <3>3. Widened(userReadEmit) = userReadEmit + ReadsOut
      BY <3>2 DEF Widened, ReadsOut, Minus
    <3> QED  BY <1>5, <2>1, <3>1, <3>2, <3>3
  <2>5. ReadsOut' = ReadsOut + 1
    <3>1. ReadsOut + 1 < ReadMod
      BY <1>5, <2>4
    <3> QED  BY <2>1, <3>1, IssueCounts DEF readVars
  <2>6. ReadCounted("tlpQ")'
    BY <1>5, <2>4, <2>5 DEF ReadCounted
  <2>7. pc'[t] = "rData" /\ \A u \in Threads : pc'[u] \in ReadStates => u = t
    BY <1>1, <2>1, <2>2
  <2>8. ReadLocked' /\ LoadedExact'
    <3>2. \A c \in cpl : c.kind = "remit" => c.val = userReadEmit
      BY DEF LoadedExact
    <3> QED  BY <2>1, <2>2, <2>7, <3>2 DEF ReadLocked, LoadedExact, ReadStates, readVars
  <2> QED  BY <2>3, <2>6, <2>8 DEF ReadOne, Places
<1>13. ASSUME LoadReturns(t) PROVE ReadLocked' /\ LoadedExact' /\ ReadOne'
  <2>1. PICK c \in cpl : LoadReturns(t)!(c)
    BY <1>13 DEF LoadReturns
  <2>2. /\ c.thr = t /\ cpl' = cpl \ {c}
        /\ UNCHANGED <<io_rreq, io_rbudget, tlpQ, tlp2Q, ioReadQ, readVars>>
    BY <2>1 DEF tlpVars
  <2>3. CASE pc[t] = "wLoad"
    <3>1. /\ UNCHANGED <<readLock, iob>>
          /\ pc' = [pc EXCEPT ![t] = "wTest"] /\ emit' = [emit EXCEPT ![t] = c.val]
      BY <2>1, <2>3
    <3>2. \A u \in Threads : pc[u] \in ReadStates \/ pc'[u] \in ReadStates =>
                               pc'[u] = pc[u] /\ emit'[u] = emit[u]
      BY <1>1, <2>3, <3>1 DEF ReadStates
    <3> QED  BY <2>2, <3>1, <3>2, ReadQuiet
  <2>4. CASE pc[t] # "wLoad"
    <3>1. /\ pc[t] \in ReadStates /\ IsRead(c)
          /\ \A u \in Threads \ {t} : pc'[u] = pc[u] /\ emit'[u] = emit[u] /\ iob'[u] = iob[u]
      BY <1>1, <2>1, <2>4 DEF ReadStates, IsRead, Return
    <3>2. readLock = t /\ \A u \in Threads \ {t} : pc[u] \notin ReadStates
      <4>1. readLock = t
        BY <3>1 DEF ReadLocked, ReadStates
      <4> QED  BY <4>1, OneReader
    <3>3. PICK place \in Places : UnderWay(place, pc) /\ ReadCounted(place)
      BY DEF ReadOne
    <3>4. UnderWay("none", pc)'
      BY <2>2, <3>1, <3>3, ReadReturns
    <3>5. ReadCounted("none")'
      <4>1. UNCHANGED ReadsOut
        BY <2>2 DEF ReadsOut, readVars
      <4> QED  BY <1>5, <2>2, <4>1 DEF ReadCounted, NotTaken
    <3>6. CASE pc[t] = "rData"
      <4>1. pc'[t] = "idle"
        BY <1>1, <2>1, <3>6 DEF Return
      <4>2. \A u \in Threads : pc'[u] \notin ReadStates
        BY <3>1, <3>2, <4>1 DEF ReadStates
      <4>3. \A d \in cpl : d.kind = "remit" => d.val = userReadEmit
        BY DEF LoadedExact
      <4>4. ReadLocked' /\ LoadedExact'
        BY <2>2, <4>2, <4>3 DEF ReadLocked, LoadedExact, ReadStates, readVars
      <4> QED  BY <3>4, <3>5, <4>4 DEF ReadOne, Places
    <3>7. CASE pc[t] # "rData"
      <4>1. /\ pc[t] \in {"rLoad", "rReload"} /\ c.kind = "remit"
            /\ pc'[t] = "rTest" /\ emit'[t] = c.val /\ readLock' = readLock
            /\ pc[t] = "rLoad" => iob'[t] = Widened(c.val)
            /\ pc[t] = "rReload" => iob'[t] = iob[t]
        BY <1>1, <2>1, <2>4, <3>7
      <4>2. io_rbudget = 0
        BY <4>1 DEF ReadLocked
      <4>3. /\ \A d \in cpl : d.kind = "remit" => d.val = userReadEmit
            /\ pc[t] = "rReload" => iob[t] = Widened(userReadEmit)
        BY DEF LoadedExact
      <4>4. /\ c.val = userReadEmit /\ iob'[t] = Widened(userReadEmit)
            /\ Widened(userReadEmit)' = Widened(userReadEmit)
        BY <2>2, <4>1, <4>3 DEF Widened, readVars
      <4>5. \A u \in Threads : pc'[u] \in ReadStates => u = t
        BY <3>1, <3>2
      <4>6. ReadLocked' /\ LoadedExact'
        BY <2>2, <3>2, <4>1, <4>2, <4>3, <4>4, <4>5 DEF ReadLocked, LoadedExact, ReadStates, readVars
      <4> QED  BY <3>4, <3>5, <4>6 DEF ReadOne, Places
    <3> QED  BY <3>6, <3>7
  <2> QED  BY <2>3, <2>4
<1> QED  BY <1>6, <1>7, <1>8, <1>9, <1>10, <1>11, <1>12, <1>13 DEF StartCall, Continue

(* A load moves on, or none does, and the counter does not.                *)
LEMMA ReadMoves ==
  ASSUME ReadLocked, LoadedExact, NEW from \in Places, ReadCounted(from),
         UNCHANGED <<hostVars, userReadEmit>>,
         \A c \in cpl' : c.kind = "remit" => c \in cpl \/ c.val = userReadEmit,
         NEW to \in Places, UnderWay(to, pc)', to \in NotTaken => from \in NotTaken
  PROVE  ReadLocked' /\ LoadedExact' /\ ReadOne'
<1>1. UNCHANGED <<pc, readLock, io_rbudget, io_rreq, emit, iob, ReadsOut>>
  BY DEF hostVars, ReadsOut
<1>2. ReadLocked' /\ LoadedExact'
  BY <1>1 DEF ReadLocked, LoadedExact, Widened
<1>3. ReadCounted(to)'
  BY <1>1 DEF ReadCounted
<1> QED  BY <1>2, <1>3 DEF ReadOne

(* What the rules of PcieCtrl and the user logic do.                       *)
LEMMA HardwareReads ==
  ASSUME TypeInv, NoReset, ReadLocked, LoadedExact, ReadOne, Hardware \/ UserLogic
  PROVE  ReadLocked' /\ LoadedExact' /\ ReadOne'
<1>1. /\ tlpQ \in Seq(Tlp) /\ tlp2Q \in Seq(Tlp) /\ ioReadQ \in Seq(Threads)
      /\ userReadQ0 \in Seq(Threads) /\ userReadQ1 \in Seq(Threads)
      /\ userReadQ2 \in Seq(Threads) /\ userBusy \in SUBSET Threads
      /\ cpl \in SUBSET Completion
  BY DEF TypeInv, TypeOK, TlpTypeOK, ReadTypeOK
<1>2. PICK place \in Places : UnderWay(place, pc) /\ ReadCounted(place)
  BY DEF ReadOne
<1>3. /\ ReadQ(tlpQ, place = "tlpQ", pc) /\ ReadQ(tlp2Q, place = "tlp2Q", pc)
      /\ WaitQ(ioReadQ, place = "ioReadQ", pc)
      /\ WaitQ(userReadQ0, place = "userReadQ0", pc)
      /\ WaitQ(userReadQ1, place = "userReadQ1", pc)
      /\ WaitQ(userReadQ2, place = "userReadQ2", pc)
      /\ BusySet(userBusy, place = "userBusy", pc) /\ ReadCpl(cpl, place = "cpl", pc)
  BY <1>2 DEF UnderWay
<1>4. /\ UNCHANGED hostVars /\ pc' = pc
  BY DEF Hardware, UserLogic, filterStatReadTLP, procTLP, completeIORead, procIOWrite,
     relayUserWriteQ, relayUserWrite2Q, relayUserReadQ0, relayUserReadQ1,
     dataReceive, dataReq, dataSend, hostVars
<1>5. \A u, v : Answer("userRead", u, v) \/ Answer("configRead", u, v) \/ Answer("fixedRead", u, v)
                \/ Answer("wemit", u, v) \/ UNCHANGED cpl =>
        \A c \in cpl' : c.kind = "remit" => c \in cpl
  BY DEF Answer
<1>6. ASSUME NEW k \in DataLoads \cup {"remit"}, NEW u, NEW v, Answer(k, u, v),
             \A c \in cpl : ~IsRead(c),
             IF k = "remit" THEN pc[u] \in {"rLoad", "rReload"} ELSE pc[u] = "rData"
      PROVE  ReadCpl(cpl', TRUE, pc)
  BY <1>6 DEF Answer, ReadCpl, Awaits, IsRead
<1>7. ASSUME filterStatReadTLP PROVE ReadLocked' /\ LoadedExact' /\ ReadOne'
  <2> DEFINE h == Head(tlpQ)
  <2>1. /\ tlpQ # <<>> /\ tlpQ' = Tail(tlpQ) /\ h \in Tlp
        /\ UNCHANGED <<ioReadQ, readVars>>
    BY <1>1, <1>7, QueueTypes DEF filterStatReadTLP
  <2>2. /\ ReadQ(tlpQ', place = "tlpQ", pc)
        /\ IsRead(h) => place = "tlpQ" /\ Awaits(h, pc) /\ ReadQ(tlpQ', FALSE, pc)
    BY <1>1, <1>3, <2>1, ReadTail
  <2>3. \/ /\ h.kind = "wemit" /\ Answer(h.kind, h.thr, userWriteEmit) /\ UNCHANGED tlp2Q
        \/ /\ h.kind = "remit" /\ Answer(h.kind, h.thr, userReadEmit) /\ UNCHANGED tlp2Q
        \/ /\ h.kind = "fixedRead" /\ Answer(h.kind, h.thr, 0) /\ UNCHANGED tlp2Q
        \/ /\ h.kind \notin {"wemit", "remit", "fixedRead"}
           /\ tlp2Q' = Append(tlp2Q, h) /\ UNCHANGED cpl
    BY <1>7 DEF filterStatReadTLP
  <2> HIDE DEF h
  <2>4. \A c \in cpl' : c.kind = "remit" => c \in cpl \/ c.val = userReadEmit
    BY <2>3 DEF Answer
  <2>5. CASE ~IsRead(h)
    <3>1. ReadCpl(cpl', place = "cpl", pc)
      <4>1. h.kind \notin {"remit", "fixedRead"}
        BY <2>5 DEF IsRead, DataLoads
      <4>2. cpl' = cpl \/ Answer("wemit", h.thr, userWriteEmit)
        BY <2>3, <4>1
      <4>3. ~IsRead([kind |-> "wemit", thr |-> h.thr, val |-> userWriteEmit])
        BY DEF IsRead, DataLoads
      <4> QED  BY <1>3, <4>2, <4>3 DEF Answer, ReadCpl
    <3>2. ReadQ(tlp2Q', place = "tlp2Q", pc)
      BY <1>1, <1>3, <2>1, <2>3, <2>5, ReadAppend
    <3>3. UnderWay(place, pc)'
      BY <1>3, <1>4, <2>1, <2>2, <3>1, <3>2 DEF UnderWay, readVars
    <3> QED  BY <1>2, <1>4, <2>1, <2>4, <3>3, ReadMoves DEF readVars
  <2>6. CASE h.kind \in {"remit", "fixedRead"}
    <3>1. IsRead(h)
      BY <2>6 DEF IsRead, DataLoads
    <3>2. place = "tlpQ" /\ Awaits(h, pc) /\ ReadQ(tlpQ', FALSE, pc)
      BY <2>2, <3>1
    <3>3. \A c \in cpl : ~IsRead(c)
      BY <1>3, <3>2 DEF ReadCpl
    <3>4. ReadCpl(cpl', TRUE, pc)
      BY <1>6, <2>3, <2>6, <3>2, <3>3 DEF DataLoads, Awaits
    <3>5. UnderWay("cpl", pc)'
      BY <1>3, <1>4, <2>1, <2>3, <2>6, <3>2, <3>4 DEF UnderWay, readVars
    <3> QED  BY <1>2, <1>4, <2>1, <2>4, <3>5, ReadMoves DEF readVars, Places, NotTaken
  <2>7. CASE IsRead(h) /\ h.kind \notin {"remit", "fixedRead"}
    <3>1. place = "tlpQ" /\ Awaits(h, pc) /\ ReadQ(tlpQ', FALSE, pc)
      BY <2>2, <2>7
    <3>2. tlp2Q' = Append(tlp2Q, h) /\ UNCHANGED cpl
      BY <2>3, <2>7 DEF IsRead, DataLoads
    <3>3. ReadQ(tlp2Q', TRUE, pc)
      BY <1>1, <1>3, <2>1, <3>1, <3>2, ReadAppend
    <3>4. UnderWay("tlp2Q", pc)'
      BY <1>3, <1>4, <2>1, <3>1, <3>2, <3>3 DEF UnderWay, readVars
    <3> QED  BY <1>2, <1>4, <2>1, <2>4, <3>1, <3>4, ReadMoves DEF readVars, Places, NotTaken
  <2> QED  BY <2>5, <2>6, <2>7
<1>8. ASSUME procTLP PROVE ReadLocked' /\ LoadedExact' /\ ReadOne'
  <2> DEFINE h == Head(tlp2Q)
  <2>1. /\ tlp2Q # <<>> /\ tlp2Q' = Tail(tlp2Q) /\ h \in Tlp
        /\ UNCHANGED <<tlpQ, userReadQ1, userReadQ2, userReadEmit, userBusy, cpl>>
    BY <1>1, <1>8, QueueTypes DEF procTLP
  <2>2. /\ ReadQ(tlp2Q', place = "tlp2Q", pc)
        /\ IsRead(h) => place = "tlp2Q" /\ Awaits(h, pc) /\ ReadQ(tlp2Q', FALSE, pc)
    BY <1>1, <1>3, <2>1, ReadTail
  <2>3. \/ /\ h.kind = "configRead" /\ ioReadQ' = Append(ioReadQ, h.thr) /\ UNCHANGED userReadQ0
        \/ /\ h.kind = "userRead" /\ userReadQ0' = Append(userReadQ0, h.thr) /\ UNCHANGED ioReadQ
        \/ /\ h.kind \in Stores /\ UNCHANGED <<ioReadQ, userReadQ0>>
    BY <1>8 DEF procTLP
  <2>0. IsRead(h) => h.thr \in Threads
    BY <2>1 DEF Tlp, Stores, Loads, DataLoads, IsRead
  <2> HIDE DEF h
  <2>4. CASE h.kind \in Stores
    <3>1. UnderWay(place, pc)'
      BY <1>3, <1>4, <2>1, <2>2, <2>3, <2>4 DEF UnderWay, Stores
    <3> QED  BY <1>2, <1>4, <2>1, <3>1, ReadMoves
  <2>5. CASE h.kind = "configRead"
    <3>1. /\ place = "tlp2Q" /\ pc[h.thr] = "rData" /\ h.thr \in Threads
          /\ ReadQ(tlp2Q', FALSE, pc)
      BY <2>0, <2>2, <2>5 DEF IsRead, DataLoads, Awaits
    <3>2. ioReadQ' = Append(ioReadQ, h.thr) /\ UNCHANGED userReadQ0
      BY <2>3, <2>5 DEF Stores
    <3>3. WaitQ(ioReadQ', TRUE, pc)
      BY <1>1, <1>3, <3>1, <3>2, WaitMoves
    <3>4. UnderWay("ioReadQ", pc)'
      BY <1>3, <1>4, <2>1, <3>1, <3>2, <3>3 DEF UnderWay
    <3> QED  BY <1>2, <1>4, <2>1, <3>4, ReadMoves DEF Places, NotTaken
  <2>6. CASE h.kind = "userRead"
    <3>1. /\ place = "tlp2Q" /\ pc[h.thr] = "rData" /\ h.thr \in Threads
          /\ ReadQ(tlp2Q', FALSE, pc)
      BY <2>0, <2>2, <2>6 DEF IsRead, DataLoads, Awaits
    <3>2. userReadQ0' = Append(userReadQ0, h.thr) /\ UNCHANGED ioReadQ
      BY <2>3, <2>6 DEF Stores
    <3>3. WaitQ(userReadQ0', TRUE, pc)
      BY <1>1, <1>3, <3>1, <3>2, WaitMoves
    <3>4. UnderWay("userReadQ0", pc)'
      BY <1>3, <1>4, <2>1, <3>1, <3>2, <3>3 DEF UnderWay
    <3> QED  BY <1>2, <1>4, <2>1, <3>1, <3>4, ReadMoves DEF Places, NotTaken
  <2> QED  BY <2>3, <2>4, <2>5, <2>6
<1>9. ASSUME completeIORead PROVE ReadLocked' /\ LoadedExact' /\ ReadOne'
  <2>1. /\ ioReadQ # <<>> /\ ioReadQ' = Tail(ioReadQ)
        /\ Answer("configRead", Head(ioReadQ), 0) /\ UNCHANGED <<tlpQ, tlp2Q, readVars>>
    BY <1>9 DEF completeIORead
  <2>2. /\ place = "ioReadQ" /\ pc[Head(ioReadQ)] = "rData"
        /\ \A h : WaitQ(ioReadQ', h, pc)
    BY <1>1, <1>3, <2>1, WaitMoves
  <2>3. ReadCpl(cpl', TRUE, pc)
    <3>1. \A c \in cpl : ~IsRead(c)
      BY <1>3, <2>2 DEF ReadCpl
    <3> QED  BY <1>6, <2>1, <2>2, <3>1 DEF DataLoads
  <2>4. UnderWay("cpl", pc)'
    BY <1>3, <1>4, <2>1, <2>2, <2>3 DEF UnderWay, readVars
  <2> QED  BY <1>2, <1>4, <1>5, <2>1, <2>4, ReadMoves DEF Places, NotTaken, readVars
<1>10. ASSUME procIOWrite PROVE ReadLocked' /\ LoadedExact' /\ ReadOne'
  <2>1. Head(tlp3Q).kind # "init"
    <3>1. Head(tlp3Q) \in HostTlp
      BY <1>10, QueueTypes DEF procIOWrite, NoReset
    <3> QED  BY <3>1 DEF HostTlp
  <2>2. UNCHANGED <<tlpQ, tlp2Q, ioReadQ, readVars, cpl>>
    BY <1>10, <2>1 DEF procIOWrite, readVars
  <2>3. UnderWay(place, pc)'
    BY <1>3, <1>4, <2>2 DEF UnderWay, readVars
  <2> QED  BY <1>2, <1>4, <2>2, <2>3, ReadMoves DEF readVars
<1>11. ASSUME relayUserReadQ0 PROVE ReadLocked' /\ LoadedExact' /\ ReadOne'
  <2>1. /\ userReadQ0 # <<>> /\ userReadQ0' = Tail(userReadQ0)
        /\ userReadQ1' = Append(userReadQ1, Head(userReadQ0))
        /\ UNCHANGED <<tlpQ, tlp2Q, ioReadQ, userReadQ2, userReadEmit, userBusy, cpl>>
    BY <1>11 DEF relayUserReadQ0, tlpVars
  <2>2. /\ place = "userReadQ0" /\ pc[Head(userReadQ0)] = "rData"
        /\ Head(userReadQ0) \in Threads /\ \A h : WaitQ(userReadQ0', h, pc)
    BY <1>1, <1>3, <2>1, WaitMoves, QueueTypes
  <2>3. WaitQ(userReadQ1', TRUE, pc)
    BY <1>1, <1>3, <2>1, <2>2, WaitMoves
  <2>4. UnderWay("userReadQ1", pc)'
    BY <1>3, <1>4, <2>1, <2>2, <2>3 DEF UnderWay
  <2> QED  BY <1>2, <1>4, <2>1, <2>2, <2>4, ReadMoves DEF Places, NotTaken
<1>12. ASSUME relayUserReadQ1 PROVE ReadLocked' /\ LoadedExact' /\ ReadOne'
  <2>1. /\ userReadQ1 # <<>> /\ userReadQ1' = Tail(userReadQ1)
        /\ userReadQ2' = Append(userReadQ2, Head(userReadQ1))
        /\ UNCHANGED <<tlpQ, tlp2Q, ioReadQ, userReadQ0, userReadEmit, userBusy, cpl>>
    BY <1>12 DEF relayUserReadQ1, tlpVars
  <2>2. /\ place = "userReadQ1" /\ pc[Head(userReadQ1)] = "rData"
        /\ Head(userReadQ1) \in Threads /\ \A h : WaitQ(userReadQ1', h, pc)
    BY <1>1, <1>3, <2>1, WaitMoves, QueueTypes
  <2>3. WaitQ(userReadQ2', TRUE, pc)
    BY <1>1, <1>3, <2>1, <2>2, WaitMoves
  <2>4. UnderWay("userReadQ2", pc)'
    BY <1>3, <1>4, <2>1, <2>2, <2>3 DEF UnderWay
  <2> QED  BY <1>2, <1>4, <2>1, <2>2, <2>4, ReadMoves DEF Places, NotTaken
<1>13. ASSUME dataReq PROVE ReadLocked' /\ LoadedExact' /\ ReadOne'
  <2>1. /\ userReadQ2 # <<>> /\ userReadQ2' = Tail(userReadQ2)
        /\ userReadEmit' = Plus(userReadEmit, 1, ReadMod)
        /\ userBusy' = userBusy \cup {Head(userReadQ2)}
        /\ UNCHANGED <<tlpQ, tlp2Q, ioReadQ, userReadQ0, userReadQ1, cpl>>
    BY <1>13 DEF dataReq, tlpVars
  <2> DEFINE t == Head(userReadQ2)
  <2>2. /\ place = "userReadQ2" /\ pc[t] = "rData"
        /\ t \in Threads /\ \A h : WaitQ(userReadQ2', h, pc)
    BY <1>1, <1>3, <2>1, WaitMoves, QueueTypes
  <2>3. BusySet(userBusy', TRUE, pc)
    BY <1>3, <2>1, <2>2 DEF BusySet
  <2>4. UnderWay("userBusy", pc)'
    BY <1>3, <1>4, <2>1, <2>2, <2>3 DEF UnderWay
  <2>5. ReadsOut' = ReadsOut - 1 /\ ReadsOut \in Nat
    <3>1. ReadsOut >= 1
      BY <1>2, <2>2 DEF ReadCounted, NotTaken
    <3>2. /\ ReadMod \in Nat /\ io_rreq \in 0 .. ReadMod - 1
          /\ userReadEmit \in 0 .. ReadMod - 1
      BY ConstAssumption DEF TypeInv, TypeOK, HostTypeOK, ReadTypeOK
    <3> QED  BY <1>4, <2>1, <3>1, <3>2, Differences DEF ReadsOut, hostVars
  <2>6. ReadCounted("userBusy")'
    <3>1. io_rbudget' = io_rbudget /\ io_rbudget \in Nat /\ IO_QUEUE_SIZE \in Nat
      BY <1>4, ConstAssumption DEF hostVars, TypeInv, TypeOK, HostTypeOK
    <3> QED  BY <1>2, <2>5, <3>1 DEF ReadCounted, NotTaken
  <2>7. \A u \in Threads : pc[u] \in ReadStates => u = t
    <3>1. readLock = t
      BY <2>2 DEF ReadLocked
    <3> QED  BY <2>2, <3>1, OneReader
  <2>8. \A c \in cpl : c.kind # "remit"
    BY <1>3, <2>2 DEF ReadCpl, IsRead
  <2>9. ReadLocked' /\ LoadedExact'
    BY <1>4, <2>1, <2>2, <2>7, <2>8 DEF ReadLocked, LoadedExact, ReadStates, hostVars
  <2> QED  BY <2>4, <2>6, <2>9 DEF ReadOne, Places
<1>14. ASSUME dataSend PROVE ReadLocked' /\ LoadedExact' /\ ReadOne'
  <2>1. PICK t \in userBusy : dataSend!(t)
    BY <1>14 DEF dataSend
  <2>2. /\ userBusy' = userBusy \ {t} /\ Answer("userRead", t, 0)
        /\ UNCHANGED <<tlpQ, tlp2Q, ioReadQ, userReadQ0, userReadQ1, userReadQ2, userReadEmit>>
    BY <2>1 DEF tlpVars
  <2>3. place = "userBusy" /\ pc[t] = "rData" /\ userBusy' = {}
    BY <1>3, <2>2 DEF BusySet
  <2>4. ReadCpl(cpl', TRUE, pc)
    <3>1. \A c \in cpl : ~IsRead(c)
      BY <1>3, <2>3 DEF ReadCpl
    <3> QED  BY <1>6, <2>2, <2>3, <3>1 DEF DataLoads
  <2>5. BusySet(userBusy', FALSE, pc)
    BY <2>3 DEF BusySet
  <2>6. UnderWay("cpl", pc)'
    BY <1>3, <1>4, <2>2, <2>3, <2>4, <2>5 DEF UnderWay
  <2> QED  BY <1>2, <1>4, <1>5, <2>2, <2>6, ReadMoves DEF Places, NotTaken
<1>15. ASSUME dataReceive \/ relayUserWriteQ \/ relayUserWrite2Q
       PROVE  ReadLocked' /\ LoadedExact' /\ ReadOne'
  <2>1. UNCHANGED <<tlpQ, tlp2Q, ioReadQ, readVars, cpl>>
    BY <1>15 DEF dataReceive, relayUserWriteQ, relayUserWrite2Q, tlpVars
  <2>2. UnderWay(place, pc)'
    BY <1>3, <1>4, <2>1 DEF UnderWay, readVars
  <2> QED  BY <1>2, <1>4, <2>1, <2>2, ReadMoves DEF readVars
<1> QED
  BY <1>7, <1>8, <1>9, <1>10, <1>11, <1>12, <1>13, <1>14, <1>15 DEF Hardware, UserLogic

(* The inductive invariant.                                                *)
LEMMA ReadStep == ReadInv /\ [Next]_vars => ReadInv'
<1> SUFFICES ASSUME ReadInv, [Next]_vars PROVE ReadInv'
  OBVIOUS
<1>1. TypeInv /\ TypeInv' /\ restarts \in Nat
  BY TypeStep DEF ReadInv, TypeInv, TypeOK, HostTypeOK
<1>2. CASE Restart
  <2>1. restarts' = restarts + 1
    BY <1>2 DEF Restart
  <2>2. restarts' # 0
    BY <1>1, <2>1
  <2> QED  BY <1>1, <2>2 DEF ReadInv
<1>3. CASE ~Restart
  <2>1. SUFFICES ASSUME restarts' = 0 PROVE NoReset' /\ ReadLocked' /\ LoadedExact' /\ ReadOne'
    BY <1>1 DEF ReadInv
  <2>2. restarts' = restarts
    BY <1>3 DEF Next, StartCall, Continue, WriteBudgeted, WriteLoadEmit, WriteRetry,
       WriteRefill, ReadBudgeted, ReadLoadEmit, ReadRetry, ReadRefill, LoadReturns,
       Hardware, UserLogic, filterStatReadTLP, procTLP, completeIORead, procIOWrite,
       relayUserWriteQ, relayUserWrite2Q, relayUserReadQ0, relayUserReadQ1,
       dataReceive, dataReq, dataSend, hostVars, vars
  <2>3. NoReset /\ ReadLocked /\ LoadedExact /\ ReadOne
    BY <2>1, <2>2 DEF ReadInv
  <2>4. NoReset'
    BY <1>1, <1>3, <2>3, NoResetStep
  <2>5. ASSUME NEW t \in Threads, StartCall(t) \/ Continue(t)
        PROVE  ReadLocked' /\ LoadedExact' /\ ReadOne'
    BY <1>1, <2>3, <2>5, HostReads
  <2>6. ASSUME Hardware \/ UserLogic PROVE ReadLocked' /\ LoadedExact' /\ ReadOne'
    BY <1>1, <2>3, <2>6, HardwareReads
  <2>7. ASSUME UNCHANGED vars PROVE ReadLocked' /\ LoadedExact' /\ ReadOne'
    BY <1>1, <2>3, <2>7, ReadQuiet DEF vars, hostVars, tlpVars, readVars
  <2> QED  BY <1>3, <2>4, <2>5, <2>6, <2>7 DEF Next
<1> QED  BY <1>2, <1>3

(* It holds when the process has started.                                  *)
LEMMA ReadInit == Init => ReadInv
<1> SUFFICES ASSUME Init PROVE ReadInv
  OBVIOUS
<1> USE ConstAssumption
<1>1. TypeInv
  BY DEF Init, TypeInv, TypeOK, HostTypeOK, TlpTypeOK, WriteTypeOK, ReadTypeOK,
     LoadedInRange, TestInRange
<1>2. NoReset /\ ReadLocked /\ LoadedExact
  BY DEF Init, NoReset, ReadLocked, LoadedExact
<1>3. ReadsOut = 0 /\ io_rbudget = 0
  BY DEF Init, ReadsOut, Minus
<1>4. ReadCounted("none")
  BY <1>3 DEF ReadCounted, NotTaken
<1>5. UnderWay("none", pc)
  <2>1. Len(<<>>) = 0
    OBVIOUS
  <2> QED  BY <2>1 DEF Init, UnderWay, ReadQ, WaitQ, BusySet, ReadCpl
<1> QED  BY <1>1, <1>2, <1>4, <1>5 DEF ReadInv, ReadOne, Places

(* What readWord may still ask for and what it has asked for and the user  *)
(* logic has not taken never exceed the queue by more than one word,       *)
(* whatever the 16-bit counters have wrapped to.                           *)
THEOREM ReadCreditsAlwaysCover == Spec => []ReadCreditsCover
<1>1. ReadInv => ReadCreditsCover
  BY DEF ReadInv, ReadOne, ReadCounted, ReadsOut, ReadCreditsCover
<1> QED  BY <1>1, ReadStep, ReadInit, PTL DEF Spec

-----------------------------------------------------------------------------
(***************************************************************************)
(* What restarts add.  Until the reset write of the last start has taken   *)
(* effect the words behind it are the ones of this process (New) and those *)
(* before it are left from earlier ones (Old); the counter the process     *)
(* loads still counts the words of the others.  lead is the difference of  *)
(* the two counters as an integer, which the words modulo WordMod no       *)
(* longer show once the FPGA's counter has overtaken the host's.           *)
(***************************************************************************)
IsInit(x)  == x.kind = "init"
HasInit(s) == \E i \in 1 .. Len(s) : IsInit(s[i])
Behind(s)  == {i \in Positions(s) : \A j \in 1 .. Len(s) : IsInit(s[j]) => j < i}
NewIn(s)   == Cardinality(Behind(s))

NewOf(s, r, k) ==
  NewIn(s) + (IF HasInit(s) THEN 0 ELSE NewIn(r) + (IF HasInit(r) THEN 0 ELSE k))
New == NewOf(tlpQ, tlp2Q, NewIn(tlp3Q))
Old == UserWritesInFlight - New
Resetting == HasInit(tlpQ) \/ HasInit(tlp2Q) \/ HasInit(tlp3Q)

Wraps  == {k * WordMod : k \in Nat}
Cap    == IO_QUEUE_SIZE + 1
Before == restarts * Cap                      \* what other processes may have left

(* A loaded value v of the counter grants no more than is left to grant.   *)
LoadedLow(v, lead) ==
  LET m == Minus(io_wreq, v, WordMod) IN
  /\ lead <= m \/ lead <= Before + Cap
  /\ UserWritesInFlight <= Before + m
  /\ Resetting => io_wreq <= Before + m
Values == {c.val : c \in Asks(cpl)} \cup {emit[t] : t \in {u \in Threads : pc[u] = "wTest"}}

Ledger(lead) ==
  /\ lead < WordMod /\ Granted - lead \in Wraps
  /\ UserWritesInFlight + io_wbudget <= Before + Cap
  /\ Resetting => /\ New + io_wbudget <= io_wreq /\ io_wreq <= Before + Cap
                  /\ io_wreq + Old - Before <= lead /\ Old <= Before
  /\ ~Resetting => UserWritesInFlight + io_wbudget <= Before + lead
  /\ \A v \in Values : LoadedLow(v, lead)

BacklogInv == TypeInv /\ AskInv /\ \E lead \in Int : Ledger(lead)

-----------------------------------------------------------------------------
(* Multiples of the counters' modulus.                                     *)
LEMMA WrapsAre ==
  /\ 0 \in Wraps
  /\ \A x \in Wraps : /\ x \in Nat /\ x + WordMod \in Wraps
                      /\ x = 0 \/ (x >= WordMod /\ x - WordMod \in Wraps)
<1> DEFINE W == WordMod
<1>1. W \in Nat
  BY ConstAssumption
<1>2. 0 \in Wraps
  <2>1. 0 = 0 * W /\ 0 \in Nat
    BY <1>1
  <2> QED  BY <2>1 DEF Wraps
<1>3. ASSUME NEW x \in Wraps
      PROVE  /\ x \in Nat /\ x + WordMod \in Wraps
             /\ x = 0 \/ (x >= WordMod /\ x - WordMod \in Wraps)
  <2>1. PICK k \in Nat : x = k * W
    BY <1>3 DEF Wraps
  <2> HIDE DEF W
  <2>2. x \in Nat /\ x + W = (k + 1) * W /\ k + 1 \in Nat
    BY <1>1, <2>1
  <2>3. CASE k = 0
    BY <1>1, <2>1, <2>2, <2>3 DEF Wraps, W
  <2>4. CASE k # 0
    <3>1. k - 1 \in Nat /\ x - W = (k - 1) * W /\ (k - 1) * W \in Nat
      BY <1>1, <2>1, <2>4
    <3>2. x >= W
      BY <1>1, <2>2, <3>1
    <3> QED  BY <2>2, <3>1, <3>2 DEF Wraps, W
  <2> QED  BY <2>3, <2>4
<1> QED  BY <1>2, <1>3

(* Counting the words behind the last reset write.                         *)
LEMMA NewType ==
  ASSUME NEW s \in Seq(Tlp)
  PROVE  /\ NewIn(s) \in Nat /\ NewIn(s) <= UserWritesIn(s) /\ UserWritesIn(s) \in Nat
         /\ ~HasInit(s) => NewIn(s) = UserWritesIn(s)
<1>1. IsFiniteSet(Positions(s)) /\ Behind(s) \subseteq Positions(s)
  <2>1. Len(s) \in Nat
    BY LenProperties
  <2>2. IsFiniteSet(1 .. Len(s))
    BY <2>1, FS_Interval
  <2>3. Positions(s) \subseteq 1 .. Len(s)
    BY DEF Positions
  <2> QED  BY <2>2, <2>3, FS_Subset DEF Behind
<1>2. IsFiniteSet(Behind(s)) /\ NewIn(s) <= UserWritesIn(s)
  BY <1>1, CountIs, FS_Subset DEF NewIn
<1>3. NewIn(s) \in Nat /\ UserWritesIn(s) \in Nat
  BY <1>2, CountType, FS_CardinalityType DEF NewIn
<1>4. ~HasInit(s) => Behind(s) = Positions(s)
  BY DEF HasInit, Behind
<1> QED  BY <1>2, <1>3, <1>4, CountIs DEF NewIn

(* ... when a TLP is put into the queue,                                   *)
LEMMA NewAppend ==
  ASSUME NEW s \in Seq(Tlp), NEW x \in Tlp
  PROVE  /\ IsInit(x) => HasInit(Append(s, x)) /\ NewIn(Append(s, x)) = 0
         /\ ~IsInit(x) => /\ HasInit(Append(s, x)) <=> HasInit(s)
                          /\ NewIn(Append(s, x)) = NewIn(s) + IsUserWrite(x)
<1> DEFINE a == Append(s, x)
           n == Len(s) + 1
<1>1. /\ Len(s) \in Nat /\ Len(a) = n /\ a[n] = x
      /\ \A i \in 1 .. Len(s) : a[i] = s[i]
  BY AppendProperties, LenProperties
<1>2. n \in 1 .. Len(a) /\ n \notin 1 .. Len(s)
      /\ \A i : i \in 1 .. Len(a) <=> i \in 1 .. Len(s) \/ i = n
  BY <1>1
<1>0. \A j \in 1 .. Len(s) : j < n /\ ~(n < j)
  BY <1>1
<1>10. ~(n < n)
  BY <1>1
<1> HIDE DEF a, n
<1>3. ASSUME IsInit(x) PROVE HasInit(a) /\ NewIn(a) = 0
  <2>1. HasInit(a)
    BY <1>1, <1>2, <1>3 DEF HasInit
  <2>2. Behind(a) = {}
    <3>1. ASSUME NEW i \in Behind(a) PROVE FALSE
      <4>1. i \in 1 .. Len(a) /\ n < i
        BY <1>1, <1>2, <1>3, <3>1, Zenon DEF Behind, Positions
      <4> QED  BY <1>0, <1>10, <1>2, <4>1
    <3> QED  BY <3>1
  <2> QED  BY <2>1, <2>2, FS_EmptySet DEF NewIn
<1>4. ASSUME ~IsInit(x)
      PROVE  (HasInit(a) <=> HasInit(s)) /\ NewIn(a) = NewIn(s) + IsUserWrite(x)
  <2>1. HasInit(a) <=> HasInit(s)
    BY <1>1, <1>2, <1>4 DEF HasInit
  <2>2. IsFiniteSet(Behind(s)) /\ n \notin Behind(s) /\ NewIn(s) \in Nat
    <3>1. IsFiniteSet(1 .. Len(s))
      BY <1>1, FS_Interval
    <3>2. Behind(s) \subseteq 1 .. Len(s)
      BY DEF Behind, Positions
    <3> QED  BY <1>2, <3>1, <3>2, FS_Subset, NewType
  <2>3. \A i \in 1 .. Len(s) : i \in Behind(a) <=> i \in Behind(s)
    BY <1>1, <1>2, <1>4, Zenon DEF Behind, Positions
  <2>4. n \in Behind(a) <=> x.kind = "userWrite"
    BY <1>0, <1>1, <1>2, <1>4, Zenon DEF Behind, Positions
  <2>5. Behind(a) \subseteq 1 .. Len(a) /\ Behind(s) \subseteq 1 .. Len(s)
    BY DEF Behind, Positions
  <2>6. CASE x.kind = "userWrite"
    <3>1. Behind(a) = Behind(s) \cup {n}
      BY <1>2, <2>3, <2>4, <2>5, <2>6
    <3> QED  BY <2>1, <2>2, <2>6, <3>1, FS_AddElement DEF NewIn, IsUserWrite
  <2>7. CASE x.kind # "userWrite"
    <3>1. Behind(a) = Behind(s)
      BY <1>2, <2>3, <2>4, <2>5, <2>7
    <3> QED  BY <2>1, <2>2, <2>7, <3>1 DEF NewIn, IsUserWrite
  <2> QED  BY <2>6, <2>7
<1> QED  BY <1>3, <1>4 DEF a

(* ... and when one is taken out.                                          *)
LEMMA NewTail ==
  ASSUME NEW s \in Seq(Tlp), s # <<>>
  PROVE  /\ HasInit(s) => NewIn(Tail(s)) = NewIn(s)
         /\ ~HasInit(s) => /\ ~HasInit(Tail(s)) /\ ~IsInit(Head(s))
                           /\ NewIn(Tail(s)) = NewIn(s) - IsUserWrite(Head(s))
         /\ ~IsInit(Head(s)) => (HasInit(Tail(s)) <=> HasInit(s))
<1> DEFINE t == Tail(s)
           f == [i \in Behind(t) |-> i + 1]
<1>1. /\ Len(s) \in Nat /\ Len(t) = Len(s) - 1 /\ Len(s) # 0 /\ Head(s) = s[1]
      /\ \A i \in 1 .. Len(t) : t[i] = s[i + 1] /\ t \in Seq(Tlp)
  BY HeadTailProperties, LenProperties, EmptySeq
<1>2. /\ 1 \in 1 .. Len(s) /\ \A i \in 1 .. Len(t) : i + 1 \in 1 .. Len(s) /\ i + 1 # 1
      /\ \A j \in 1 .. Len(s) : j = 1 \/ (j - 1 \in 1 .. Len(t) /\ j = (j - 1) + 1)
      /\ \A i, j \in 1 .. Len(t) : /\ i < j <=> i + 1 < j + 1 
                                   /\ i + 1 = j + 1 => i = j
      /\ \A i \in 1 .. Len(t) : 1 < i + 1
      /\ ~(1 < 1)
  BY <1>1
<1>t. t \in Seq(Tlp)
  BY HeadTailProperties
<1> HIDE DEF t
<1>3. HasInit(s) <=> IsInit(Head(s)) \/ HasInit(t)
  <2>1. ASSUME HasInit(s) PROVE IsInit(Head(s)) \/ HasInit(t)
    <3>1. PICK j \in 1 .. Len(s) : IsInit(s[j])
      BY <2>1 DEF HasInit
    <3>2. CASE j = 1
      BY <1>1, <3>1, <3>2
    <3>3. CASE j # 1
      <4>1. j - 1 \in 1 .. Len(t) /\ j = (j - 1) + 1
        BY <1>2, <3>3
      <4>2. IsInit(t[j - 1])
        BY <1>1, <3>1, <4>1
      <4> QED  BY <4>1, <4>2 DEF HasInit
    <3> QED  BY <3>2, <3>3
  <2>2. ASSUME IsInit(Head(s)) PROVE HasInit(s)
    BY <1>1, <1>2, <2>2 DEF HasInit
  <2>3. ASSUME HasInit(t) PROVE HasInit(s)
    <3>1. PICK i \in 1 .. Len(t) : IsInit(t[i])
      BY <2>3 DEF HasInit
    <3> QED  BY <1>1, <1>2, <3>1 DEF HasInit
  <2> QED  BY <2>1, <2>2, <2>3
<1>4. ASSUME NEW i \in 1 .. Len(t) PROVE i \in Behind(t) <=> i + 1 \in Behind(s)
  <2>1. (\A j \in 1 .. Len(t) : IsInit(t[j]) => j < i)
          <=> (\A j \in 1 .. Len(s) : IsInit(s[j]) => j < i + 1)
    <3>1. ASSUME \A j \in 1 .. Len(t) : IsInit(t[j]) => j < i,
                 NEW j \in 1 .. Len(s), IsInit(s[j])
          PROVE  j < i + 1
      <4>1. CASE j = 1
        BY <1>2, <1>4, <4>1
      <4>2. CASE j # 1
        <5>1. j - 1 \in 1 .. Len(t) /\ j = (j - 1) + 1
          BY <1>2, <4>2
        <5>2. IsInit(t[j - 1])
          BY <1>1, <3>1, <5>1
        <5> QED  BY <1>2, <1>4, <3>1, <5>1, <5>2
      <4> QED  BY <4>1, <4>2
    <3>2. ASSUME \A j \in 1 .. Len(s) : IsInit(s[j]) => j < i + 1,
                 NEW j \in 1 .. Len(t), IsInit(t[j])
          PROVE  j < i
      BY <1>1, <1>2, <1>4, <3>2
    <3> QED  BY <3>1, <3>2
  <2> QED  BY <1>1, <1>2, <1>4, <2>1 DEF Behind, Positions
<1>5. NewIn(t) = Cardinality(Behind(s) \ {1})
  <2>1. IsFiniteSet(Behind(t)) /\ Behind(t) \subseteq 1 .. Len(t)
    <3>1. IsFiniteSet(1 .. Len(t))
      BY <1>1, FS_Interval
    <3>2. Behind(t) \subseteq 1 .. Len(t)
      BY DEF Behind, Positions
    <3> QED  BY <3>1, <3>2, FS_Subset
  <2>2. f \in Bijection(Behind(t), Behind(s) \ {1})
    <3>1. f \in [Behind(t) -> Behind(s) \ {1}]
      BY <1>2, <1>4, <2>1
    <3>2. \A i, j \in Behind(t) : f[i] = f[j] => i = j
      BY <1>2, <2>1
    <3>3. \A k \in Behind(s) \ {1} : \E i \in Behind(t) : f[i] = k
      <4>1. ASSUME NEW k \in Behind(s) \ {1} PROVE \E i \in Behind(t) : f[i] = k
        <5>1. k \in 1 .. Len(s) /\ k # 1
          BY DEF Behind, Positions
        <5>2. k - 1 \in 1 .. Len(t) /\ k = (k - 1) + 1
          BY <1>2, <5>1
        <5> QED  BY <1>4, <5>2
      <4> QED  BY <4>1
    <3> QED  BY <3>1, <3>2, <3>3, Fun_IsBij DEF ExistsBijection
  <2> QED  BY <2>1, <2>2, FS_Bijection DEF NewIn, ExistsBijection
<1>6. ASSUME HasInit(s) PROVE NewIn(t) = NewIn(s)
  <2>1. 1 \notin Behind(s)
    <3>1. PICK j \in 1 .. Len(s) : IsInit(s[j])
      BY <1>6 DEF HasInit
    <3>2. ~(j < 1)
      BY <1>1
    <3> QED  BY <3>1, <3>2 DEF Behind
  <2>2. Behind(s) \ {1} = Behind(s)
    BY <2>1
  <2> QED  BY <1>5, <2>2 DEF NewIn
<1>7. ASSUME ~HasInit(s) PROVE NewIn(t) = NewIn(s) - IsUserWrite(Head(s))
  <2>1. ~HasInit(t)
    BY <1>3, <1>7
  <2>2. NewIn(t) = UserWritesIn(t) /\ NewIn(s) = UserWritesIn(s)
    BY <1>7, <1>t, <2>1, NewType
  <2> QED  BY <2>2, Taken DEF t
<1> QED  BY <1>3, <1>6, <1>7 DEF t

(* A TLP that moves on keeps its place behind or before the last reset.    *)
LEMMA NewMoves ==
  ASSUME NEW s \in Seq(Tlp), s # <<>>, NEW r \in Seq(Tlp), NEW q, NEW k \in Nat,
         \/ q = Append(r, Head(s))
         \/ q = r /\ ~IsInit(Head(s)) /\ IsUserWrite(Head(s)) = 0
  PROVE  /\ NewOf(Tail(s), q, k) = NewOf(s, r, k)
         /\ HasInit(Tail(s)) \/ HasInit(q) <=> HasInit(s) \/ HasInit(r)
<1> DEFINE h == Head(s)
           t == Tail(s)
<1>1. h \in Tlp /\ t \in Seq(Tlp)
  BY QueueTypes
<1>2. IsUserWrite(h) \in Nat /\ NewIn(s) \in Nat /\ NewIn(t) \in Nat /\ NewIn(r) \in Nat
  BY <1>1, NewType DEF IsUserWrite
<1>3. /\ HasInit(s) => NewIn(t) = NewIn(s)
      /\ ~HasInit(s) => /\ ~HasInit(t) /\ ~IsInit(h)
                        /\ NewIn(t) = NewIn(s) - IsUserWrite(h)
      /\ ~IsInit(h) => (HasInit(t) <=> HasInit(s))
  BY NewTail
<1>4. /\ q = Append(r, h) /\ IsInit(h) => HasInit(q) /\ NewIn(q) = 0
      /\ ~IsInit(h) => (HasInit(q) <=> HasInit(r)) /\ NewIn(q) = NewIn(r) + IsUserWrite(h)
  <2>1. CASE q = Append(r, h)
    BY <1>1, <2>1, NewAppend
  <2>2. CASE q = r /\ ~IsInit(h) /\ IsUserWrite(h) = 0
    BY <1>2, <2>2
  <2> QED  BY <2>1, <2>2
<1>5. IsInit(h) => q = Append(r, h) /\ HasInit(s)
  BY <1>3
<1> HIDE DEF h, t
<1>6. HasInit(t) \/ HasInit(q) <=> HasInit(s) \/ HasInit(r)
  BY <1>3, <1>4, <1>5
<1>7. NewOf(t, q, k) = NewOf(s, r, k)
  <2>1. CASE HasInit(s) /\ HasInit(t)
    BY <1>3, <2>1 DEF NewOf
  <2>2. CASE HasInit(s) /\ ~HasInit(t)
    <3>1. HasInit(q) /\ NewIn(q) = 0 /\ NewIn(t) = NewIn(s)
      BY <1>3, <1>4, <1>5, <2>2
    <3>2. NewOf(t, q, k) = NewIn(t) + (0 + 0) /\ NewOf(s, r, k) = NewIn(s) + 0
      BY <2>2, <3>1 DEF NewOf
    <3> QED  BY <1>2, <3>1, <3>2
  <2>3. CASE ~HasInit(s)
    <3>1. /\ ~HasInit(t) /\ (HasInit(q) <=> HasInit(r))
          /\ NewIn(t) = NewIn(s) - IsUserWrite(h) /\ NewIn(q) = NewIn(r) + IsUserWrite(h)
      BY <1>3, <1>4, <2>3
    <3> DEFINE z == IF HasInit(r) THEN 0 ELSE k
    <3>2. z \in Nat
      OBVIOUS
    <3>3. NewOf(t, q, k) = NewIn(t) + (NewIn(q) + z) /\ NewOf(s, r, k) = NewIn(s) + (NewIn(r) + z)
      BY <2>3, <3>1 DEF NewOf
    <3> HIDE DEF z
    <3> QED  BY <1>2, <3>1, <3>2, <3>3
  <2> QED  BY <2>1, <2>2, <2>3
<1> QED  BY <1>6, <1>7 DEF t

(* The numbers of the ledger.                                              *)
LEMMA LedgerNumbers ==
  ASSUME TypeInv
  PROVE  /\ New \in Nat /\ Old \in Nat /\ New + UserWritesQueued <= UserWritesInFlight
         /\ UserWritesInFlight \in Nat /\ UserWritesQueued \in Nat
         /\ io_wbudget \in Nat /\ io_wreq \in 0 .. WordMod - 1
         /\ userWriteEmit \in 0 .. WordMod - 1 /\ Granted \in 0 .. WordMod - 1
         /\ Cap \in Nat /\ Before \in Nat /\ IO_QUEUE_SIZE \in Nat /\ WordMod \in Nat
         /\ Cap < WordMod
<1>1. /\ tlpQ \in Seq(Tlp) /\ tlp2Q \in Seq(Tlp) /\ tlp3Q \in Seq(Tlp) /\ restarts \in Nat
  BY DEF TypeInv, TypeOK, TlpTypeOK, HostTypeOK
<1> DEFINE a == UserWritesIn(tlpQ)   b == UserWritesIn(tlp2Q)   c == UserWritesIn(tlp3Q)
           x == NewIn(tlpQ)          y == NewIn(tlp2Q)          z == NewIn(tlp3Q)
<1>2. /\ x \in Nat /\ y \in Nat /\ z \in Nat /\ a \in Nat /\ b \in Nat /\ c \in Nat
      /\ x <= a /\ y <= b /\ z <= c
  BY <1>1, NewType
<1>3. /\ UserWritesQueued \in Nat /\ UserWritesInFlight \in Nat
      /\ io_wbudget \in Nat /\ io_wreq \in 0 .. WordMod - 1
      /\ userWriteEmit \in 0 .. WordMod - 1 /\ Granted \in 0 .. WordMod - 1
  BY Numbers
<1>4. New \in {x, x + y, x + y + z} /\ UserWritesInFlight = a + b + c + UserWritesQueued
  <2>1. New = x + 0 \/ New = x + (y + 0) \/ New = x + (y + z)
    BY DEF New, NewOf
  <2> HIDE DEF x, y, z
  <2>2. New \in {x, x + y, x + y + z}
    BY <1>2, <2>1
  <2> QED  BY <2>2 DEF UserWritesInFlight
<1> HIDE DEF a, b, c, x, y, z
<1>5. New \in Nat /\ New + UserWritesQueued <= UserWritesInFlight
  BY <1>2, <1>3, <1>4
<1>6. Old \in Nat
  BY <1>3, <1>5 DEF Old
<1>7. /\ Cap \in Nat /\ IO_QUEUE_SIZE \in Nat /\ WordMod \in Nat /\ Cap < WordMod
  BY ConstAssumption DEF Cap
<1>8. Before \in Nat
  BY <1>1, <1>7 DEF Before
<1> QED  BY <1>3, <1>5, <1>6, <1>7, <1>8

LEMMA LedgerNumbersNext ==
  TypeInv' => (New \in Nat /\ Old \in Nat /\ UserWritesInFlight \in Nat /\ io_wbudget \in Nat)'
<1>1. TypeInv => New \in Nat /\ Old \in Nat /\ UserWritesInFlight \in Nat /\ io_wbudget \in Nat
  BY LedgerNumbers
<1> QED  BY <1>1, PTL

(* The counter as it stands is a value that grants no more than is left.   *)
LEMMA FreshLow ==
  ASSUME TypeInv, NEW lead \in Int, Ledger(lead)
  PROVE  LoadedLow(userWriteEmit, lead) /\ lead <= Granted
<1> DEFINE f == UserWritesInFlight   b == io_wbudget   n == New   o == Old
           g == Granted
<1>1. /\ f \in Nat /\ b \in Nat /\ n \in Nat /\ o \in Nat /\ g \in Nat /\ o = f - n
      /\ Before \in Nat /\ io_wreq \in Nat
  BY LedgerNumbers, ConstAssumption DEF Old
<1>2. g - lead \in Nat
  BY WrapsAre DEF Ledger
<1>3. /\ Resetting => n + b <= io_wreq /\ io_wreq + o - Before <= lead
      /\ ~Resetting => f + b <= Before + lead
  BY DEF Ledger
<1>4. Minus(io_wreq, userWriteEmit, WordMod) = g
  BY DEF Granted
<1> HIDE DEF f, b, n, o, g
<1>5. lead <= g /\ f <= Before + g /\ (Resetting => io_wreq <= Before + g)
  BY <1>1, <1>2, <1>3
<1> QED  BY <1>4, <1>5 DEF LoadedLow, f, g

(* A step that only moves user writes, or spends budget on one.            *)
LEMMA LedgerQuiet ==
  ASSUME TypeInv, TypeInv', NEW lead \in Int, Ledger(lead),
         UNCHANGED <<restarts, io_wreq, userWriteEmit>>, Resetting' = Resetting,
         UserWritesInFlight' + io_wbudget' <= UserWritesInFlight + io_wbudget,
         Resetting => New' + io_wbudget' <= New + io_wbudget /\ Old' <= Old,
         \A v \in Values' : v = userWriteEmit \/ v \in Values,
         Values' = {} \/ UserWritesInFlight' <= UserWritesInFlight
  PROVE  Ledger(lead)'
<1> DEFINE f == UserWritesInFlight   b == io_wbudget   n == New   o == Old
           ff == UserWritesInFlight' bb == io_wbudget' nn == New' oo == Old'
<1>1. /\ f \in Nat /\ b \in Nat /\ n \in Nat /\ o \in Nat
      /\ Before \in Nat /\ io_wreq \in Nat /\ Cap \in Nat
  BY LedgerNumbers
<1>2. ff \in Nat /\ bb \in Nat /\ nn \in Nat /\ oo \in Nat
  BY LedgerNumbersNext
<1>3. /\ Before' = Before /\ Granted' = Granted /\ Cap' = Cap
  BY DEF Before, Granted, Cap
<1>4. /\ f + b <= Before + Cap
      /\ Resetting => n + b <= io_wreq /\ io_wreq <= Before + Cap
                      /\ io_wreq + o - Before <= lead /\ o <= Before
      /\ ~Resetting => f + b <= Before + lead
      /\ lead < WordMod /\ Granted - lead \in Wraps
  BY DEF Ledger
<1>5. ff + bb <= f + b /\ (Resetting => nn + bb <= n + b /\ oo <= o)
  OBVIOUS
<1> HIDE DEF f, b, n, o, ff, bb, nn, oo
<1>6. /\ ff + bb <= Before + Cap
      /\ Resetting => nn + bb <= io_wreq /\ io_wreq <= Before + Cap
                      /\ io_wreq + oo - Before <= lead /\ oo <= Before
      /\ ~Resetting => ff + bb <= Before + lead
  BY <1>1, <1>2, <1>4, <1>5
<1>7. ASSUME NEW v \in Values' PROVE LoadedLow(v, lead)'
  <2>1. LoadedLow(v, lead)
    BY <1>7, FreshLow DEF Ledger
  <2>2. UserWritesInFlight' <= UserWritesInFlight
    BY <1>7
  <2> DEFINE m == Minus(io_wreq, v, WordMod)
  <2>3. m \in Int
    <3>1. v \in Nat
      BY <1>7 DEF Values, TypeInv, TypeOK, HostTypeOK, Asks, Completion
    <3> QED  BY <1>1, <3>1, ConstAssumption DEF Minus
  <2>4. f <= Before + m /\ (Resetting => io_wreq <= Before + m)
        /\ (lead <= m \/ lead <= Before + Cap)
    BY <2>1 DEF LoadedLow, f
  <2> HIDE DEF m
  <2>5. ff <= Before + m
    BY <1>1, <1>2, <2>2, <2>3, <2>4 DEF f, ff
  <2>6. Minus(io_wreq', v, WordMod) = m
    BY DEF m
  <2> QED  BY <1>3, <2>4, <2>5, <2>6 DEF LoadedLow, ff
<1>8. /\ lead < WordMod /\ Granted' - lead \in Wraps
  BY <1>3, <1>4
<1> QED
  BY <1>3, <1>6, <1>7, <1>8 DEF Ledger, ff, bb, nn, oo, Wraps

(* What sending does to the words behind the last reset.                   *)
LEMMA SendNew ==
  ASSUME TypeInv, NEW x \in Tlp, ~IsInit(x), Send(x), UNCHANGED <<tlp2Q, tlp3Q>>
  PROVE  New' = New + IsUserWrite(x) /\ (Resetting' <=> Resetting)
<1>1. tlpQ \in Seq(Tlp) /\ tlpQ' = Append(tlpQ, x) /\ tlp2Q' = tlp2Q /\ tlp3Q' = tlp3Q
  BY DEF TypeInv, TypeOK, TlpTypeOK, Send
<1>2. (HasInit(tlpQ') <=> HasInit(tlpQ)) /\ NewIn(tlpQ') = NewIn(tlpQ) + IsUserWrite(x)
  BY <1>1, NewAppend
<1> DEFINE z == IF HasInit(tlpQ) THEN 0
                ELSE NewIn(tlp2Q) + (IF HasInit(tlp2Q) THEN 0 ELSE NewIn(tlp3Q))
<1>3. tlp2Q \in Seq(Tlp) /\ tlp3Q \in Seq(Tlp)
  BY DEF TypeInv, TypeOK, TlpTypeOK
<1>4. NewIn(tlpQ) \in Nat /\ NewIn(tlp2Q) \in Nat /\ NewIn(tlp3Q) \in Nat /\ IsUserWrite(x) \in Nat
  BY <1>1, <1>3, NewType DEF IsUserWrite
<1>5. z \in Nat
  BY <1>4
<1>6. New = NewIn(tlpQ) + z
  BY DEF New, NewOf
<1>7. New' = NewIn(tlpQ') + z
  BY <1>1, <1>2 DEF New, NewOf
<1> HIDE DEF z
<1>8. New' = New + IsUserWrite(x)
  BY <1>2, <1>4, <1>5, <1>6, <1>7
<1>9. Resetting' <=> Resetting
  BY <1>1, <1>2 DEF Resetting
<1> QED  BY <1>8, <1>9

(* Nothing is loaded while nobody loads.                                   *)
LEMMA NoValues ==
  ASSUME TypeInv, AskInv, \A u \in Threads : pc[u] \notin {"wLoad", "wTest"}
  PROVE  Values = {}
<1>1. Asks(cpl) = {}
  BY NobodyAsks
<1>2. {u \in Threads : pc[u] = "wTest"} = {}
  OBVIOUS
<1> QED  BY <1>1, <1>2 DEF Values

(* What stays when the queues of TLPs and of user writes do.               *)
LEMMA QueuesStill ==
  ASSUME UNCHANGED <<tlpQ, tlp2Q, tlp3Q, userWrite1Q, userWriteQ, userWrite2Q>>
  PROVE  /\ New' = New /\ Resetting' = Resetting /\ UserWritesInFlight' = UserWritesInFlight
         /\ Old' = Old
<1>1. UserWritesInFlight' = UserWritesInFlight
  BY DEF UserWritesInFlight, UserWritesIn, UserWritesQueued
<1>2. New' = New
  BY DEF New
<1> QED  BY <1>1, <1>2 DEF Old, Resetting

(* What writeWord and readWord do to the ledger, the refill apart.         *)
LEMMA HostLedger ==
  ASSUME TypeInv, TypeInv', AskInv, NEW lead \in Int, Ledger(lead),
         NEW t \in Threads, StartCall(t) \/ Continue(t), ~WriteRefill(t)
  PROVE  Ledger(lead)'
<1> USE ConstAssumption
<1>1. /\ DOMAIN pc = Threads /\ DOMAIN emit = Threads
      /\ io_wbudget \in Nat /\ cpl \in SUBSET Completion
      /\ addr[t] \in {"user", "config", "fixed"}
  BY DEF TypeInv, TypeOK, HostTypeOK
<1>2. UserWritesInFlight \in Nat /\ New \in Nat /\ Old \in Nat
  BY LedgerNumbers
<1>3. \A a : WriteTlp(a) \in Tlp /\ ~IsInit(WriteTlp(a)) /\ IsUserWrite(WriteTlp(a)) \in {0, 1}
  BY TlpTypes DEF IsUserWrite, IsInit, WriteTlp, Store
<1>4. ASSUME NEW x \in Tlp, ~IsInit(x), Send(x), UNCHANGED <<tlp2Q, tlp3Q, ioReadQ, writeVars>>
      PROVE  /\ UserWritesInFlight' = UserWritesInFlight + IsUserWrite(x)
             /\ New' = New + IsUserWrite(x) /\ Resetting' = Resetting /\ Old' = Old
  <2>1. UserWritesInFlight' = UserWritesInFlight + IsUserWrite(x)
    BY <1>4, SendCounts
  <2>2. New' = New + IsUserWrite(x) /\ (Resetting' <=> Resetting)
    BY <1>4, SendNew
  <2>3. IsUserWrite(x) \in Nat
    BY DEF IsUserWrite
  <2>4. Old' = UserWritesInFlight' - New' /\ Old = UserWritesInFlight - New
    BY DEF Old
  <2>5. Old' = Old
    BY <1>2, <2>1, <2>2, <2>3, <2>4
  <2>6. Resetting \in BOOLEAN /\ Resetting' \in BOOLEAN
    BY DEF Resetting, HasInit
  <2> QED  BY <2>1, <2>2, <2>5, <2>6
<1>5. ASSUME NEW x \in Tlp, ~IsInit(x), Send(x), IsUserWrite(x) = 0,
             UNCHANGED <<io_wreq, io_wbudget, restarts>>,
             UNCHANGED <<tlp2Q, tlp3Q, ioReadQ, writeVars, cpl>>,
             \A u \in Threads : pc'[u] = "wTest" => pc[u] = "wTest" /\ emit'[u] = emit[u]
      PROVE  Ledger(lead)'
  <2>1. /\ UserWritesInFlight' = UserWritesInFlight
        /\ New' = New /\ Resetting' = Resetting /\ Old' = Old
    BY <1>2, <1>4, <1>5
  <2>2. \A v \in Values' : v \in Values
    BY <1>5 DEF Values
  <2>3. /\ UNCHANGED <<restarts, io_wreq, userWriteEmit>>
        /\ UserWritesInFlight' + io_wbudget' <= UserWritesInFlight + io_wbudget
        /\ New' + io_wbudget' <= New + io_wbudget /\ Old' <= Old
        /\ UserWritesInFlight' <= UserWritesInFlight
    BY <1>1, <1>2, <1>5, <2>1 DEF writeVars
  <2> QED  BY <2>1, <2>2, <2>3, LedgerQuiet
<1>6. /\ Load("remit", t) \in Tlp /\ IsUserWrite(Load("remit", t)) = 0 /\ ~IsInit(Load("remit", t))
      /\ Load("wemit", t) \in Tlp /\ IsUserWrite(Load("wemit", t)) = 0 /\ ~IsInit(Load("wemit", t))
      /\ \A a \in {"user", "config", "fixed"} :
           /\ ReadTlp(a, t) \in Tlp /\ IsUserWrite(ReadTlp(a, t)) = 0
           /\ ~IsInit(ReadTlp(a, t))
  BY TlpTypes DEF ReadTlp, Load, IsUserWrite, IsInit
<1>7. ASSUME NEW a \in WriteKinds, WriteBudgeted(t, a) PROVE Ledger(lead)'
  <2>1. /\ UserWritesInFlight' = UserWritesInFlight + IsUserWrite(WriteTlp(a))
        /\ New' = New + IsUserWrite(WriteTlp(a)) /\ Resetting' = Resetting /\ Old' = Old
    BY <1>3, <1>4, <1>7 DEF WriteBudgeted
  <2>2. /\ UserWritesInFlight' + io_wbudget' <= UserWritesInFlight + io_wbudget
        /\ New' + io_wbudget' <= New + io_wbudget /\ Old' <= Old
    BY <1>1, <1>2, <1>3, <1>7, <2>1 DEF WriteBudgeted
  <2>3. UNCHANGED <<io_wreq, userWriteEmit, restarts, cpl, pc, emit>>
    BY <1>7 DEF WriteBudgeted, writeVars
  <2>4. Values = {}
    <3>1. \A u \in Threads : pc[u] \notin {"wLoad", "wTest"}
      BY <1>7 DEF WriteBudgeted, AskInv, Locked
    <3> QED  BY <3>1, NoValues
  <2>5. Values' = {}
    BY <2>3, <2>4 DEF Values
  <2> QED  BY <2>1, <2>2, <2>3, <2>5, LedgerQuiet
<1>8. ASSUME NEW a \in WriteKinds, WriteLoadEmit(t, a) PROVE Ledger(lead)'
  BY <1>1, <1>5, <1>6, <1>8 DEF WriteLoadEmit
<1>9. ASSUME NEW a \in ReadKinds, ReadBudgeted(t, a) PROVE Ledger(lead)'
  BY <1>1, <1>5, <1>6, <1>9 DEF ReadBudgeted, IssueRead
<1>10. ASSUME NEW a \in ReadKinds, ReadLoadEmit(t, a) PROVE Ledger(lead)'
  BY <1>1, <1>5, <1>6, <1>10 DEF ReadLoadEmit
<1>11. ASSUME WriteRetry(t) PROVE Ledger(lead)'
  BY <1>1, <1>5, <1>6, <1>11 DEF WriteRetry
<1>12. ASSUME ReadRetry(t) PROVE Ledger(lead)'
  BY <1>1, <1>5, <1>6, <1>12 DEF ReadRetry
<1>13. ASSUME ReadRefill(t) PROVE Ledger(lead)'
  BY <1>1, <1>5, <1>6, <1>13 DEF ReadRefill, IssueRead
<1>14. ASSUME LoadReturns(t) PROVE Ledger(lead)'
  <2>1. PICK c \in cpl : LoadReturns(t)!(c)
    BY <1>14 DEF LoadReturns
  <2>2. UNCHANGED <<io_wreq, io_wbudget, restarts, tlpVars, writeVars>>
    BY <2>1
  <2>3. /\ UserWritesInFlight' = UserWritesInFlight
        /\ New' = New /\ Resetting' = Resetting /\ Old' = Old
    BY <2>2, QueuesStill DEF tlpVars, writeVars
  <2>4. \A v \in Values' : v \in Values
    <3>1. Asks(cpl') \subseteq Asks(cpl)
      BY <2>1 DEF Asks
    <3>2. ASSUME NEW u \in Threads, pc'[u] = "wTest" PROVE emit'[u] \in Values
      <4>1. CASE pc[u] = "wTest"
        <5>1. emit'[u] = emit[u]
          BY <1>1, <2>1, <3>2, <4>1 DEF Return
        <5> QED  BY <4>1, <5>1 DEF Values
      <4>2. CASE pc[u] # "wTest"
        <5>1. u = t /\ pc[t] = "wLoad" /\ c.kind = "wemit" /\ emit'[u] = c.val
          BY <1>1, <2>1, <3>2, <4>2 DEF Return
        <5>2. c \in Asks(cpl)
          BY <5>1 DEF Asks, IsAsk
        <5> QED  BY <5>1, <5>2 DEF Values
      <4> QED  BY <4>1, <4>2
    <3>3. \A v \in Values' : \/ \E d \in Asks(cpl') : v = d.val
                             \/ \E u \in Threads : pc'[u] = "wTest" /\ v = emit'[u]
      BY DEF Values
    <3>4. \A d \in Asks(cpl) : d.val \in Values
      BY DEF Values
    <3> QED  BY <3>1, <3>2, <3>3, <3>4
  <2>5. /\ UNCHANGED <<restarts, io_wreq, userWriteEmit>>
        /\ UserWritesInFlight' + io_wbudget' <= UserWritesInFlight + io_wbudget
        /\ New' + io_wbudget' <= New + io_wbudget /\ Old' <= Old
        /\ UserWritesInFlight' <= UserWritesInFlight
    BY <1>1, <1>2, <2>2, <2>3 DEF writeVars
  <2> QED  BY <2>3, <2>4, <2>5, LedgerQuiet
<1> QED
  BY <1>7, <1>8, <1>9, <1>10, <1>11, <1>12, <1>13, <1>14 DEF StartCall, Continue

Roomy == (MaxRestarts + 2) * (IO_QUEUE_SIZE + 1) < WordMod

(* The counters do not overtake each other before the last start.          *)
LEMMA RoomNow ==
  ASSUME TypeInv, Roomy
  PROVE  /\ Before + Cap + Cap < WordMod
         /\ (restarts + 1) * Cap = Before + Cap
<1>1. Cap \in Nat /\ restarts \in Nat /\ MaxRestarts \in Nat /\ restarts <= MaxRestarts
  BY LedgerNumbers, ConstAssumption DEF TypeInv, TypeOK, HostTypeOK
<1>2. (MaxRestarts + 2) * Cap < WordMod /\ WordMod \in Nat
  BY ConstAssumption DEF Roomy, Cap
<1> HIDE DEF Cap
<1>3. PICK d \in Nat : MaxRestarts = restarts + d
  BY <1>1
<1>4. (MaxRestarts + 2) * Cap = restarts * Cap + Cap + Cap + d * Cap
  <2>1. MaxRestarts + 2 = restarts + 2 + d
    BY <1>1, <1>3
  <2>2. (restarts + 2 + d) * Cap = restarts * Cap + Cap + Cap + d * Cap
    BY <1>1, <1>3
  <2> QED  BY <2>1, <2>2
<1>5. restarts * Cap \in Nat /\ d * Cap \in Nat
  BY <1>1, <1>3
<1>6. (restarts + 1) * Cap = restarts * Cap + Cap
  BY <1>1
<1> DEFINE b == restarts * Cap
           e == d * Cap
<1>7. b \in Nat /\ e \in Nat /\ b + Cap + Cap + e < WordMod
  BY <1>2, <1>4, <1>5
<1> HIDE DEF b, e
<1>8. b + Cap + Cap < WordMod
  BY <1>1, <1>2, <1>7
<1> QED  BY <1>6, <1>8 DEF b, Before

(* The refill of the budget.                                               *)
LEMMA RefillLedger ==
  ASSUME TypeInv, TypeInv', AskInv, Roomy, NEW lead \in Int, Ledger(lead),
         NEW t \in Threads, WriteRefill(t)
  PROVE  \E l \in Int : Ledger(l)'
<1> DEFINE f == UserWritesInFlight   n == New   o == Old   g == Granted
           W == WordMod   Q == IO_QUEUE_SIZE   B == Before
           x == IsUserWrite(WriteTlp(addr[t]))
           m == Minus(io_wreq, emit[t], WordMod)
           d == (Q - m) + 1
           r == io_wreq
<1>1. /\ f \in Nat /\ n \in Nat /\ o \in Nat /\ o = f - n /\ B \in Nat
      /\ r \in 0 .. W - 1 /\ g \in 0 .. W - 1 /\ Q \in Nat /\ W \in Nat
      /\ userWriteEmit \in 0 .. W - 1 /\ Q + 1 < W
  BY LedgerNumbers DEF Old, Cap
<1>2. /\ pc[t] = "wTest" /\ io_wbudget = 0
      /\ \A u \in Threads : pc[u] # "wLoad" /\ (u # t => pc[u] # "wTest")
  BY DEF WriteRefill, AskInv, Locked
<1>3. emit[t] \in 0 .. W - 1
  BY <1>2, ConstAssumption DEF TypeInv, TypeOK, HostTypeOK, TestInRange
<1>4. m \in 0 .. W - 1 /\ m < Q
  <2>1. m \in 0 .. W - 1
    BY <1>1, <1>3, Differences
  <2>2. m < Q \div 2
    BY DEF WriteRefill, Outstanding
  <2> QED  BY <1>1, <2>1, <2>2
<1>5. /\ WriteTlp(addr[t]) \in Tlp /\ ~IsInit(WriteTlp(addr[t])) /\ x \in {0, 1}
  BY TlpTypes DEF IsUserWrite, IsInit, WriteTlp, Store
<1>6. /\ UNCHANGED <<tlp2Q, tlp3Q, ioReadQ, writeVars, cpl, restarts, userWriteEmit>>
      /\ Send(WriteTlp(addr[t]))
      /\ io_wbudget' = Q - m /\ io_wreq' = Plus(r, d, W)
      /\ pc' = [pc EXCEPT ![t] = "idle"]
  BY DEF WriteRefill, Outstanding, Charge, Return, writeVars
<1>7. UserWritesInFlight' = f + x /\ New' = n + x /\ (Resetting' <=> Resetting)
  BY <1>5, <1>6, SendCounts, SendNew
<1>8. Old' = UserWritesInFlight' - New'
  BY DEF Old
<1>9. Before' = B /\ Cap' = Cap /\ Cap = Q + 1 /\ Wraps' = Wraps
  BY <1>6 DEF Before, Cap, Wraps
<1>10. Values' = {}
  <2>1. \A u \in Threads : pc'[u] # "wTest"
    BY <1>2, <1>6 DEF TypeInv, TypeOK, HostTypeOK
  <2>2. Asks(cpl) = {}
    BY <1>2, NobodyAsks
  <2> QED  BY <1>6, <2>1, <2>2 DEF Values
<1>11. /\ lead <= m \/ lead <= B + Q + 1
       /\ f <= B + m
       /\ Resetting => r <= B + m
  <2>1. emit[t] \in Values
    BY <1>2 DEF Values
  <2> QED  BY <1>1, <1>9, <2>1 DEF Ledger, LoadedLow
<1>12. /\ lead < W /\ g - lead \in Wraps
       /\ Resetting => n <= r /\ r + o - B <= lead /\ o <= B
       /\ ~Resetting => f <= B + lead
  BY <1>1, <1>2 DEF Ledger
<1>13. B + Q + Q + 2 < W
  BY <1>1, <1>9, RoomNow
<1>14. Granted' = Minus(Plus(r, d, W), userWriteEmit, W) /\ g = Minus(r, userWriteEmit, W)
  BY <1>6 DEF Granted
<1>15. x \in Nat /\ m \in Nat /\ x <= 1
  BY <1>4, <1>5
<1> DEFINE e == userWriteEmit
<1>0. e \in 0 .. W - 1 /\ Granted' = Minus(Plus(r, d, W), e, W) /\ g = Minus(r, e, W)
  BY <1>1, <1>14
<1> HIDE DEF f, n, o, g, W, Q, B, x, m, r, e
<1>16. d \in Nat /\ d <= Q + 1 /\ d >= 1 /\ lead + d < W
  BY <1>1, <1>4, <1>11, <1>13
<1>17. \/ Granted' = g + d
       \/ Granted' = g + d - W /\ g + d >= W
  BY <1>0, <1>1, <1>16 DEF Minus, Plus
<1>18. Granted' - (lead + d) \in Wraps
  <2>1. CASE Granted' = g + d
    <3>1. Granted' - (lead + d) = g - lead
      BY <1>1, <1>16, <2>1
    <3> QED  BY <1>12, <3>1
  <2>2. CASE Granted' = g + d - W /\ g + d >= W
    <3>1. g - lead # 0 /\ Granted' - (lead + d) = (g - lead) - W
      BY <1>1, <1>16, <2>2
    <3> QED  BY <1>12, <3>1, WrapsAre DEF W
  <2> QED  BY <1>17, <2>1, <2>2
<1>19. (f + x) + (Q - m) <= B + (Q + 1)
  BY <1>1, <1>4, <1>11, <1>15
<1>20. ASSUME Resetting
       PROVE  /\ io_wreq' = r + d /\ (n + x) + (Q - m) <= r + d
              /\ r + d <= B + (Q + 1) /\ (r + d) + o - B <= lead + d /\ o <= B
  <2>1. r <= B + m /\ n <= r /\ r + o - B <= lead /\ o <= B
    BY <1>11, <1>12, <1>20
  <2>2. r + d <= B + (Q + 1) /\ r + d < W
    BY <1>1, <1>4, <1>13, <2>1
  <2>3. io_wreq' = r + d
    BY <1>1, <1>6, <1>16, <2>2 DEF Plus, m, Q, W, r
  <2>4. (n + x) + (Q - m) <= r + d /\ (r + d) + o - B <= lead + d
    BY <1>1, <1>4, <1>15, <1>16, <2>1
  <2> QED  BY <2>1, <2>2, <2>3, <2>4
<1>21. ~Resetting => (f + x) + (Q - m) <= B + (lead + d)
  BY <1>1, <1>4, <1>12, <1>15
<1>22. Old' = o
  <2>1. Old' = (f + x) - (n + x)
    BY <1>7, <1>8 DEF f, n, x
  <2> QED  BY <1>1, <1>15, <2>1
<1>23. /\ UserWritesInFlight' = f + x /\ New' = n + x /\ io_wbudget' = Q - m
  BY <1>6, <1>7 DEF f, n, x, Q, m
<1> HIDE DEF d
<1>24. lead + d \in Int
  BY <1>16
<1>25. PICK l \in Int : l = lead + d
  BY <1>24
<1>26. /\ l < WordMod' /\ Granted' - l \in Wraps'
       /\ UserWritesInFlight' + io_wbudget' <= Before' + Cap'
       /\ Resetting' => /\ New' + io_wbudget' <= io_wreq' /\ io_wreq' <= Before' + Cap'
                        /\ io_wreq' + Old' - Before' <= l /\ Old' <= Before'
       /\ ~Resetting' => UserWritesInFlight' + io_wbudget' <= Before' + l
       /\ \A v \in Values' : LoadedLow(v, l)'
  BY <1>7, <1>9, <1>10, <1>16, <1>18, <1>19, <1>20, <1>21, <1>22, <1>23, <1>25 DEF W
<1>27. Ledger(l)'
  BY <1>26 DEF Ledger
<1> QED  BY <1>27

(* The process is started again.                                           *)
LEMMA RestartLedger ==
  ASSUME TypeInv, TypeInv', AskInv, Roomy, NEW lead \in Int, Ledger(lead), Restart
  PROVE  AskInv' /\ \E l \in Int : Ledger(l)'
<1> DEFINE f == UserWritesInFlight   g == Minus(0, userWriteEmit, WordMod)
           x == Store("init")
<1>1. /\ tlpQ \in Seq(Tlp) /\ x \in Tlp /\ IsInit(x) /\ IsUserWrite(x) = 0 /\ ~IsAsk(x)
      /\ tlpQ' = Append(tlpQ, x) /\ Send(x) /\ io_wreq' = 0 /\ io_wbudget' = 0
      /\ pc' = [u \in Threads |-> "idle"] /\ restarts' = restarts + 1
      /\ UNCHANGED <<tlp2Q, tlp3Q, ioReadQ, writeVars, cpl, userWriteEmit>>
  BY DEF TypeInv, TypeOK, TlpTypeOK, Restart, Send, Store, Tlp, Stores, IsInit, IsUserWrite,
     IsAsk, writeVars
<1>2. NoAsk(tlpQ) /\ Asks(cpl) = {}
  BY NobodyAsks DEF Restart
<1>3. NoAsk(tlpQ') /\ Asks(cpl') = {}
  BY <1>1, <1>2, AskAppend DEF AskInv
<1>4. AskInv'
  <2>1. Locked'
    BY <1>1 DEF Locked
  <2> QED  BY <1>3, <2>1, AskSettled
<1>5. Values' = {}
  BY <1>1, <1>3 DEF Values
<1>6. Resetting' /\ New' = 0
  <2>1. HasInit(tlpQ') /\ NewIn(tlpQ') = 0
    BY <1>1, NewAppend
  <2> QED  BY <2>1 DEF Resetting, New, NewOf
<1>7. UserWritesInFlight' = f /\ f \in Nat
  <2>1. UserWritesInFlight' = f + 0 /\ f \in Nat
    BY <1>1, SendCounts, LedgerNumbers
  <2> HIDE DEF f
  <2> QED  BY <2>1
<1>8. /\ f <= Before + Cap /\ Before \in Nat /\ Cap \in Nat
      /\ userWriteEmit \in 0 .. WordMod - 1 /\ WordMod \in Nat
  <2>1. /\ f + io_wbudget <= Before + Cap /\ io_wbudget \in Nat
        /\ Before \in Nat /\ Cap \in Nat
        /\ userWriteEmit \in 0 .. WordMod - 1 /\ WordMod \in Nat
    BY LedgerNumbers DEF Ledger
  <2> HIDE DEF f
  <2> QED  BY <1>7, <2>1
<1>9. g \in 0 .. WordMod - 1
  <2>1. 0 \in 0 .. WordMod - 1
    BY ConstAssumption
  <2> QED  BY <1>8, <2>1, Differences
<1>10. Granted' = g
  BY <1>1 DEF Granted
<1>11. Before' = Before + Cap /\ Cap' = Cap /\ Wraps' = Wraps
  <2>1. Before' = (restarts + 1) * Cap
    BY <1>1 DEF Before, Cap
  <2> QED  BY <2>1, RoomNow DEF Cap, Wraps
<1>12. Old' = f
  <2>1. Old' = f - 0
    BY <1>6, <1>7 DEF Old
  <2> QED  BY <1>7, <2>1
<1> HIDE DEF f, g
<1>13. g < WordMod /\ Granted' - g \in Wraps
  <2>1. Granted' - g = 0 /\ g < WordMod
    BY <1>8, <1>9, <1>10
  <2> QED  BY <2>1, WrapsAre
<1> DEFINE C == Cap   B == Before
<1>14. C \in Nat /\ B \in Nat /\ f <= B + C /\ Before' = B + C /\ Cap' = C
  BY <1>8, <1>11
<1> HIDE DEF C, B
<1>15. /\ f + 0 <= (B + C) + C /\ 0 + 0 <= 0 /\ 0 <= (B + C) + C
       /\ 0 + f - (B + C) <= g /\ f <= B + C
  BY <1>7, <1>9, <1>14, <1>8
<1>16. g \in Int
  BY <1>8, <1>9
<1>17. PICK l \in Int : l = g
  BY <1>16
<1>18. Ledger(l)'
  BY <1>1, <1>5, <1>6, <1>7, <1>11, <1>12, <1>13, <1>14, <1>15, <1>17 DEF Ledger
<1> QED  BY <1>4, <1>18

(* A TLP moves from one queue to the next, or is used up.                  *)
LEMMA FilterLedger ==
  ASSUME TypeInv, TypeInv', NEW lead \in Int, Ledger(lead), filterStatReadTLP
  PROVE  Ledger(lead)'
<1> DEFINE h == Head(tlpQ)
<1>1. /\ tlpQ \in Seq(Tlp) /\ tlp2Q \in Seq(Tlp) /\ tlp3Q \in Seq(Tlp)
  BY DEF TypeInv, TypeOK, TlpTypeOK
<1>2. /\ tlpQ # <<>> /\ tlpQ' = Tail(tlpQ) /\ h \in Tlp
      /\ UNCHANGED <<tlp3Q, hostVars, writeVars>>
  BY <1>1, QueueTypes DEF filterStatReadTLP
<1>3. \/ tlp2Q' = Append(tlp2Q, h)
      \/ tlp2Q' = tlp2Q /\ ~IsInit(h) /\ IsUserWrite(h) = 0
  BY DEF filterStatReadTLP, IsInit, IsUserWrite
<1>4. NewIn(tlp3Q) \in Nat
  BY <1>1, NewType
<1>5. New' = New /\ Resetting' = Resetting
  <2>1. /\ NewOf(Tail(tlpQ), tlp2Q', NewIn(tlp3Q)) = NewOf(tlpQ, tlp2Q, NewIn(tlp3Q))
        /\ HasInit(Tail(tlpQ)) \/ HasInit(tlp2Q') <=> HasInit(tlpQ) \/ HasInit(tlp2Q)
    BY <1>1, <1>2, <1>3, <1>4, NewMoves
  <2>2. NewIn(tlp3Q') = NewIn(tlp3Q) /\ (HasInit(tlp3Q') <=> HasInit(tlp3Q))
    BY <1>2
  <2>3. Resetting' <=> Resetting
    BY <1>2, <2>1, <2>2 DEF Resetting
  <2>4. Resetting \in BOOLEAN /\ Resetting' \in BOOLEAN
    BY DEF Resetting, HasInit
  <2> QED  BY <1>2, <2>1, <2>2, <2>3, <2>4 DEF New
<1>6. UserWritesInFlight' = UserWritesInFlight
  <2> DEFINE x == IsUserWrite(h)
  <2>1. x \in Nat /\ UserWritesIn(tlpQ') = UserWritesIn(tlpQ) - x
    BY <1>1, <1>2, Taken DEF IsUserWrite
  <2>2. UserWritesIn(tlp2Q') = UserWritesIn(tlp2Q) + x
    <3>1. CASE tlp2Q' = Append(tlp2Q, h)
      BY <1>1, <1>2, <3>1, CountAppend
    <3>2. CASE tlp2Q' = tlp2Q /\ x = 0
      BY <1>1, <3>2, CountType
    <3> QED  BY <1>3, <3>1, <3>2
  <2>3. UserWritesIn(tlp3Q') = UserWritesIn(tlp3Q) /\ UserWritesQueued' = UserWritesQueued
    BY <1>2 DEF UserWritesIn, UserWritesQueued, writeVars
  <2> HIDE DEF x, h
  <2>4. /\ UserWritesIn(tlpQ) \in Nat /\ UserWritesIn(tlp2Q) \in Nat
        /\ UserWritesIn(tlp3Q) \in Nat /\ UserWritesQueued \in Nat /\ UserWritesInFlight \in Nat
    BY Numbers
  <2>5. /\ UserWritesIn(tlpQ') = UserWritesIn(tlpQ) + (-x)
        /\ UserWritesIn(tlp3Q') = UserWritesIn(tlp3Q) + 0
        /\ UserWritesQueued' = UserWritesQueued + 0
        /\ x \in Int /\ -x \in Int /\ 0 \in Int /\ (-x) + x + 0 + 0 = 0
    BY <2>1, <2>3, <2>4
  <2>6. UserWritesInFlight' = UserWritesInFlight + ((-x) + x + 0 + 0)
    BY <2>2, <2>5, FlightChange
  <2> QED  BY <2>4, <2>5, <2>6
<1>7. Old' = Old
  BY <1>5, <1>6 DEF Old
<1>8. \A v \in Values' : v = userWriteEmit \/ v \in Values
  <2>1. UNCHANGED <<pc, emit>>
    BY <1>2 DEF hostVars
  <2>2. \A c \in Asks(cpl') : c \in Asks(cpl) \/ c.val = userWriteEmit
    BY DEF filterStatReadTLP, Answer, Asks, IsAsk
  <2> QED  BY <2>1, <2>2 DEF Values
<1>9. /\ UNCHANGED <<restarts, io_wreq, io_wbudget, userWriteEmit>>
      /\ UserWritesInFlight \in Nat /\ New \in Nat /\ Old \in Nat /\ io_wbudget \in Nat
  BY <1>2, LedgerNumbers DEF hostVars, writeVars
<1>10. /\ UserWritesInFlight' + io_wbudget' <= UserWritesInFlight + io_wbudget
       /\ New' + io_wbudget' <= New + io_wbudget /\ Old' <= Old
       /\ UserWritesInFlight' <= UserWritesInFlight
  BY <1>5, <1>6, <1>7, <1>9
<1> QED  BY <1>5, <1>8, <1>9, <1>10, LedgerQuiet

LEMMA ProcLedger ==
  ASSUME TypeInv, TypeInv', NEW lead \in Int, Ledger(lead), procTLP
  PROVE  Ledger(lead)'
<1> DEFINE h == Head(tlp2Q)
<1>1. /\ tlpQ \in Seq(Tlp) /\ tlp2Q \in Seq(Tlp) /\ tlp3Q \in Seq(Tlp)
  BY DEF TypeInv, TypeOK, TlpTypeOK
<1>2. /\ tlp2Q # <<>> /\ tlp2Q' = Tail(tlp2Q) /\ h \in Tlp
      /\ UNCHANGED <<tlpQ, hostVars, writeVars, cpl>>
  BY <1>1, QueueTypes DEF procTLP
<1>3. \/ tlp3Q' = Append(tlp3Q, h)
      \/ tlp3Q' = tlp3Q /\ ~IsInit(h) /\ IsUserWrite(h) = 0
  BY DEF procTLP, IsInit, IsUserWrite
<1>5. New' = New /\ Resetting' = Resetting
  <2>1. /\ NewOf(Tail(tlp2Q), tlp3Q', 0) = NewOf(tlp2Q, tlp3Q, 0)
        /\ HasInit(Tail(tlp2Q)) \/ HasInit(tlp3Q') <=> HasInit(tlp2Q) \/ HasInit(tlp3Q)
    BY <1>1, <1>2, <1>3, NewMoves
  <2>2. Resetting' <=> Resetting
    BY <1>2, <2>1 DEF Resetting
  <2>3. Resetting \in BOOLEAN /\ Resetting' \in BOOLEAN
    BY DEF Resetting, HasInit
  <2>4. New = NewIn(tlpQ) + (IF HasInit(tlpQ) THEN 0
                             ELSE NewIn(tlp2Q) + (IF HasInit(tlp2Q) THEN 0 ELSE NewIn(tlp3Q)))
    BY DEF New, NewOf
  <2>5. New' = NewIn(tlpQ) + (IF HasInit(tlpQ) THEN 0
                  ELSE NewIn(tlp2Q') + (IF HasInit(tlp2Q') THEN 0 ELSE NewIn(tlp3Q')))
    BY <1>2 DEF New, NewOf
  <2>6. /\ NewIn(tlp2Q) \in Nat /\ NewIn(tlp3Q) \in Nat
        /\ NewIn(tlp2Q') \in Nat /\ NewIn(tlp3Q') \in Nat
    <3>1. tlp2Q' \in Seq(Tlp) /\ tlp3Q' \in Seq(Tlp)
      BY <1>1, <1>2, <1>3, QueueTypes
    <3> QED  BY <1>1, <3>1, NewType
  <2>7. NewIn(tlp2Q') + (IF HasInit(tlp2Q') THEN 0 ELSE NewIn(tlp3Q'))
          = NewIn(tlp2Q) + (IF HasInit(tlp2Q) THEN 0 ELSE NewIn(tlp3Q))
    <3>1. \A s, r : NewOf(s, r, 0) = NewIn(s) + (IF HasInit(s) THEN 0 ELSE NewIn(r) + 0)
      BY DEF NewOf
    <3>2. NewIn(tlp3Q) + 0 = NewIn(tlp3Q) /\ NewIn(tlp3Q') + 0 = NewIn(tlp3Q')
      BY <2>6
    <3> QED  BY <1>2, <2>1, <3>1, <3>2
  <2> QED  BY <2>2, <2>3, <2>4, <2>5, <2>7
<1>6. UserWritesInFlight' = UserWritesInFlight
  <2> DEFINE x == IsUserWrite(h)
  <2>1. x \in Nat /\ UserWritesIn(tlp2Q') = UserWritesIn(tlp2Q) - x
    BY <1>1, <1>2, Taken DEF IsUserWrite
  <2>2. UserWritesIn(tlp3Q') = UserWritesIn(tlp3Q) + x
    <3>1. CASE tlp3Q' = Append(tlp3Q, h)
      BY <1>1, <1>2, <3>1, CountAppend
    <3>2. CASE tlp3Q' = tlp3Q /\ x = 0
      BY <1>1, <3>2, CountType
    <3> QED  BY <1>3, <3>1, <3>2
  <2>3. UserWritesIn(tlpQ') = UserWritesIn(tlpQ) /\ UserWritesQueued' = UserWritesQueued
    BY <1>2 DEF UserWritesIn, UserWritesQueued, writeVars
  <2> HIDE DEF x, h
  <2>4. /\ UserWritesIn(tlpQ) \in Nat /\ UserWritesIn(tlp2Q) \in Nat
        /\ UserWritesIn(tlp3Q) \in Nat /\ UserWritesQueued \in Nat /\ UserWritesInFlight \in Nat
    BY Numbers
  <2>5. /\ UserWritesIn(tlp2Q') = UserWritesIn(tlp2Q) + (-x)
        /\ UserWritesIn(tlpQ') = UserWritesIn(tlpQ) + 0
        /\ UserWritesQueued' = UserWritesQueued + 0
        /\ x \in Int /\ -x \in Int /\ 0 \in Int /\ 0 + (-x) + x + 0 = 0
    BY <2>1, <2>3, <2>4
  <2>6. UserWritesInFlight' = UserWritesInFlight + (0 + (-x) + x + 0)
    BY <2>2, <2>5, FlightChange
  <2> QED  BY <2>4, <2>5, <2>6
<1>7. Old' = Old
  BY <1>5, <1>6 DEF Old
<1>8. \A v \in Values' : v = userWriteEmit \/ v \in Values
  BY <1>2 DEF hostVars, Values
<1>9. /\ UNCHANGED <<restarts, io_wreq, io_wbudget, userWriteEmit>>
      /\ UserWritesInFlight \in Nat /\ New \in Nat /\ Old \in Nat /\ io_wbudget \in Nat
  BY <1>2, LedgerNumbers DEF hostVars, writeVars
<1>10. /\ UserWritesInFlight' + io_wbudget' <= UserWritesInFlight + io_wbudget
       /\ New' + io_wbudget' <= New + io_wbudget /\ Old' <= Old
       /\ UserWritesInFlight' <= UserWritesInFlight
  BY <1>5, <1>6, <1>7, <1>9
<1> QED  BY <1>5, <1>8, <1>9, <1>10, LedgerQuiet

(* A store is carried out; a reset write sets the counter to 0, after      *)
(* which the two counters differ by what the host has counted.             *)
LEMMA StoreLedger ==
  ASSUME TypeInv, TypeInv', NEW lead \in Int, Ledger(lead), procIOWrite
  PROVE  \E l \in Int : Ledger(l)'
<1> DEFINE h == Head(tlp3Q)
<1>1. /\ tlpQ \in Seq(Tlp) /\ tlp2Q \in Seq(Tlp) /\ tlp3Q \in Seq(Tlp)
  BY DEF TypeInv, TypeOK, TlpTypeOK
<1>2. /\ tlp3Q # <<>> /\ tlp3Q' = Tail(tlp3Q) /\ h \in Tlp
      /\ UNCHANGED <<tlpQ, tlp2Q, hostVars, userWriteQ, userWrite2Q, cpl>>
  BY <1>1, QueueTypes DEF procIOWrite
<1>3. /\ userWrite1Q' = userWrite1Q + IsUserWrite(h)
      /\ IsInit(h) => userWriteEmit' = 0
      /\ ~IsInit(h) => userWriteEmit' = userWriteEmit
  BY Numbers DEF procIOWrite, IsInit, IsUserWrite
<1>4. Resetting => New' = New
  <2>1. CASE HasInit(tlpQ) \/ HasInit(tlp2Q)
    BY <1>2, <2>1 DEF New, NewOf
  <2>2. CASE HasInit(tlp3Q)
    <3>1. NewIn(tlp3Q') = NewIn(tlp3Q)
      BY <1>1, <1>2, <2>2, NewTail
    <3> QED  BY <1>2, <3>1 DEF New
  <2> QED  BY <2>1, <2>2 DEF Resetting
<1>5. /\ ~IsInit(h) => (Resetting' <=> Resetting)
      /\ IsInit(h) => Resetting
  BY <1>1, <1>2, NewTail DEF Resetting
<1>6. UserWritesInFlight' = UserWritesInFlight
  <2> DEFINE x == IsUserWrite(h)
  <2>1. x \in Nat /\ UserWritesIn(tlp3Q') = UserWritesIn(tlp3Q) - x
    BY <1>1, <1>2, Taken DEF IsUserWrite
  <2>3. /\ UserWritesIn(tlpQ') = UserWritesIn(tlpQ) /\ UserWritesIn(tlp2Q') = UserWritesIn(tlp2Q)
    BY <1>2 DEF UserWritesIn
  <2>7. userWrite1Q' = userWrite1Q + x
    BY <1>3
  <2> HIDE DEF x, h
  <2>4. /\ UserWritesIn(tlpQ) \in Nat /\ UserWritesIn(tlp2Q) \in Nat
        /\ UserWritesIn(tlp3Q) \in Nat /\ UserWritesQueued \in Nat /\ UserWritesInFlight \in Nat
        /\ userWrite1Q \in Nat /\ userWriteQ \in Nat /\ userWrite2Q \in Nat
    BY Numbers
  <2>2. UserWritesQueued' = UserWritesQueued + x
    BY <1>2, <2>1, <2>4, <2>7 DEF UserWritesQueued
  <2>5. /\ UserWritesIn(tlp3Q') = UserWritesIn(tlp3Q) + (-x)
        /\ UserWritesIn(tlpQ') = UserWritesIn(tlpQ) + 0
        /\ UserWritesIn(tlp2Q') = UserWritesIn(tlp2Q) + 0
        /\ x \in Int /\ -x \in Int /\ 0 \in Int /\ 0 + 0 + (-x) + x = 0
    BY <2>1, <2>3, <2>4
  <2>6. UserWritesInFlight' = UserWritesInFlight + (0 + 0 + (-x) + x)
    BY <2>2, <2>5, FlightChange
  <2> QED  BY <2>4, <2>5, <2>6
<1>7. Resetting => Old' = Old
  BY <1>4, <1>6 DEF Old
<1>8. Values' = Values /\ UNCHANGED <<restarts, io_wreq, io_wbudget>>
  BY <1>2 DEF hostVars, Values
<1>9. /\ UserWritesInFlight \in Nat /\ New \in Nat /\ Old \in Nat /\ io_wbudget \in Nat
      /\ Before \in Nat /\ Cap \in Nat /\ io_wreq \in Nat /\ io_wreq < WordMod
      /\ New + Old = UserWritesInFlight /\ WordMod \in Nat
  <2>1. /\ UserWritesInFlight \in Nat /\ New \in Nat /\ Old \in Nat /\ io_wbudget \in Nat
        /\ Before \in Nat /\ Cap \in Nat /\ io_wreq \in 0 .. WordMod - 1 /\ WordMod \in Nat
    BY LedgerNumbers
  <2>2. Old = UserWritesInFlight - New
    BY DEF Old
  <2> QED  BY <2>1, <2>2
<1>10. CASE ~IsInit(h)
  <2>1. Resetting' = Resetting
    <3>1. Resetting \in BOOLEAN /\ Resetting' \in BOOLEAN
      BY DEF Resetting, HasInit
    <3> QED  BY <1>5, <1>10, <3>1
  <2>2. /\ UNCHANGED <<restarts, io_wreq, userWriteEmit>>
        /\ \A v \in Values' : v = userWriteEmit \/ v \in Values
    BY <1>3, <1>8, <1>10
  <2>3. /\ UserWritesInFlight' + io_wbudget' <= UserWritesInFlight + io_wbudget
        /\ Resetting => New' + io_wbudget' <= New + io_wbudget /\ Old' <= Old
        /\ UserWritesInFlight' <= UserWritesInFlight
    BY <1>4, <1>6, <1>7, <1>8, <1>9
  <2>4. Ledger(lead)'
    BY <2>1, <2>2, <2>3, LedgerQuiet
  <2> QED  BY <2>4
<1>11. CASE IsInit(h)
  <2>1. Resetting /\ userWriteEmit' = 0
    BY <1>3, <1>5, <1>11
  <2>2. Granted' = io_wreq
    <3>1. Granted' = Minus(io_wreq, 0, WordMod)
      BY <1>8, <2>1 DEF Granted
    <3> QED  BY <1>9, <3>1 DEF Minus
  <2>3. Before' = Before /\ Cap' = Cap /\ Wraps' = Wraps
    BY <1>8 DEF Before, Cap, Wraps
  <2>4. PICK l \in Int : l = io_wreq
    BY <1>9
  <2>5. /\ UserWritesInFlight + io_wbudget <= Before + Cap
        /\ New + io_wbudget <= io_wreq /\ io_wreq <= Before + Cap
        /\ Old <= Before
    BY <2>1 DEF Ledger
  <2>6. l < WordMod /\ Granted' - l \in Wraps'
    <3>1. Granted' - l = 0
      BY <1>9, <2>2, <2>4
    <3> QED  BY <1>9, <2>3, <2>4, <3>1, WrapsAre
  <2>7. /\ UserWritesInFlight' + io_wbudget' <= Before' + Cap'
        /\ New' + io_wbudget' <= io_wreq' /\ io_wreq' <= Before' + Cap'
        /\ Old' <= Before'
    BY <1>4, <1>6, <1>7, <1>8, <2>1, <2>3, <2>5
  <2>8. io_wreq' + Old' - Before' <= l
    <3>1. io_wreq + Old - Before <= io_wreq
      BY <1>9, <2>5
    <3> QED  BY <1>7, <1>8, <2>1, <2>3, <2>4, <3>1
  <2>9. UserWritesInFlight' + io_wbudget' <= Before' + l
    <3>1. UserWritesInFlight + io_wbudget <= Before + io_wreq
      BY <1>9, <2>5
    <3> QED  BY <1>6, <1>8, <2>3, <2>4, <3>1
  <2>10. ASSUME NEW v \in Values' PROVE LoadedLow(v, l)'
    <3>1. LoadedLow(v, lead)
      BY <1>8, <2>10 DEF Ledger
    <3>2. l <= Before' + Cap'
      BY <2>3, <2>4, <2>5
    <3>3. /\ UserWritesInFlight' = UserWritesInFlight /\ io_wreq' = io_wreq /\ Before' = Before
      BY <1>6, <1>8, <2>3
    <3> QED  BY <2>1, <3>1, <3>2, <3>3 DEF LoadedLow
  <2>11. Ledger(l)'
    BY <2>6, <2>7, <2>8, <2>9, <2>10 DEF Ledger
  <2> QED  BY <2>11
<1> QED  BY <1>10, <1>11

(* The user logic takes a word, one that an earlier process may have left. *)
LEMMA ReceiveLedger ==
  ASSUME TypeInv, TypeInv', NEW lead \in Int, Ledger(lead), dataReceive
  PROVE  \E l \in Int : Ledger(l)'
<1> DEFINE f == UserWritesInFlight   n == New   o == Old   g == Granted
           b == io_wbudget           W == WordMod          r == io_wreq
           e == userWriteEmit        B == Before           C == Cap
<1>1. /\ f \in Nat /\ n \in Nat /\ o \in Nat /\ b \in Nat /\ W \in Nat /\ r \in 0 .. W - 1
      /\ e \in 0 .. W - 1 /\ g \in 0 .. W - 1 /\ o = f - n /\ B \in Nat /\ C \in Nat
      /\ n + UserWritesQueued <= f
  BY LedgerNumbers DEF Old
<1>2. /\ userWriteEmit' = Plus(e, 1, W)
      /\ UNCHANGED <<tlpQ, tlp2Q, tlp3Q, userWrite1Q, userWriteQ, cpl, hostVars>>
      /\ userWrite2Q > 0 /\ userWrite2Q' = userWrite2Q - 1
  BY DEF dataReceive, tlpVars
<1>3. UserWritesInFlight' = f - 1 /\ UserWritesQueued >= 1
  <2>0. /\ userWrite1Q \in Nat /\ userWriteQ \in Nat /\ userWrite2Q \in Nat
        /\ UserWritesIn(tlpQ) \in Nat /\ UserWritesIn(tlp2Q) \in Nat
        /\ UserWritesIn(tlp3Q) \in Nat /\ UserWritesQueued \in Nat
    BY Numbers
  <2>1. UserWritesQueued' = UserWritesQueued - 1 /\ UserWritesQueued >= 1
    BY <1>2, <2>0 DEF UserWritesQueued
  <2>2. /\ UserWritesIn(tlpQ') = UserWritesIn(tlpQ)
        /\ UserWritesIn(tlp2Q') = UserWritesIn(tlp2Q)
        /\ UserWritesIn(tlp3Q') = UserWritesIn(tlp3Q)
    BY <1>2 DEF UserWritesIn
  <2>3. /\ UserWritesIn(tlpQ') = UserWritesIn(tlpQ) + 0
        /\ UserWritesIn(tlp2Q') = UserWritesIn(tlp2Q) + 0
        /\ UserWritesIn(tlp3Q') = UserWritesIn(tlp3Q) + 0
        /\ UserWritesQueued' = UserWritesQueued + (-1)
    BY <2>0, <2>1, <2>2
  <2>4. UserWritesInFlight' = UserWritesInFlight + (0 + 0 + 0 + (-1))
    BY <2>3, FlightChange
  <2>5. f \in Nat /\ UserWritesInFlight' = f + (0 + 0 + 0 + (-1))
    BY <1>1, <2>4
  <2> HIDE DEF f
  <2> QED  BY <2>1, <2>5
<1>4. New' = n /\ Resetting' = Resetting
  BY <1>2 DEF New, Resetting
<1>5. /\ io_wbudget' = b /\ io_wreq' = r /\ Before' = B /\ Cap' = C /\ Wraps' = Wraps
      /\ Values' = Values
  BY <1>2 DEF hostVars, Before, Cap, Wraps, Values
<1>6. Granted' = Minus(r, Plus(e, 1, W), W) /\ g = Minus(r, e, W)
  BY <1>2, <1>5 DEF Granted
<1>7. /\ lead < W /\ g - lead \in Wraps /\ f + b <= B + C
      /\ Resetting => n + b <= r /\ r <= B + C /\ r + o - B <= lead /\ o <= B
      /\ ~Resetting => f + b <= B + lead
  BY DEF Ledger
<1>8. Old' = UserWritesInFlight' - New'
  BY DEF Old
<1>9. o >= 1
  <2>1. UserWritesQueued \in Nat
    BY Numbers
  <2> HIDE DEF f, n, o
  <2> QED  BY <1>1, <1>3, <2>1
<1>10. \A v \in Values : /\ lead <= Minus(r, v, W) \/ lead <= B + C
                         /\ f <= B + Minus(r, v, W)
                         /\ Resetting => r <= B + Minus(r, v, W)
  BY DEF Ledger, LoadedLow
<1>11. \A v \in Values : Minus(r, v, W) \in Int
  <2>1. \A v \in Values : v \in Nat
    BY DEF Values, TypeInv, TypeOK, HostTypeOK, Asks, Completion
  <2> QED  BY <1>1, <2>1 DEF Minus
<1>12. PICK l \in Int : l = lead - 1
  OBVIOUS
<1> HIDE DEF f, n, o, g, b, W, r, e, B, C
<1>13. Old' = o - 1
  BY <1>1, <1>3, <1>4, <1>8
<1>14. l < W /\ Granted' - l \in Wraps
  <2>1. CASE g >= 1
    <3>1. Granted' = g - 1
      BY <1>1, <1>6, <2>1, Differences
    <3>2. Granted' - l = g - lead
      BY <1>1, <1>12, <3>1
    <3> QED  BY <1>1, <1>7, <1>12, <3>2
  <2>2. CASE g = 0
    <3>1. r = e
      BY <1>1, <1>6, <2>2 DEF Minus
    <3>2. Granted' = W - 1
      BY <1>1, <1>6, <3>1 DEF Minus, Plus
    <3>3. Granted' - l = (g - lead) + W
      BY <1>1, <1>12, <2>2, <3>2
    <3>4. (g - lead) + W \in Wraps
      BY <1>7, WrapsAre DEF W
    <3> QED  BY <1>1, <1>7, <1>12, <3>3, <3>4
  <2> QED  BY <1>1, <2>1, <2>2
<1>15. /\ (f - 1) + b <= B + C
       /\ Resetting => n + b <= r /\ r <= B + C /\ r + (o - 1) - B <= l /\ o - 1 <= B
       /\ ~Resetting => (f - 1) + b <= B + l
  BY <1>1, <1>7, <1>12
<1>16. ASSUME NEW v \in Values'
       PROVE  LoadedLow(v, l)'
  <2> DEFINE m == Minus(r, v, W)
  <2>1. /\ m \in Int /\ (lead <= m \/ lead <= B + C) /\ f <= B + m
        /\ Resetting => r <= B + m
    BY <1>5, <1>10, <1>11, <1>16
  <2>2. Minus(io_wreq', v, WordMod) = m
    BY <1>5 DEF W
  <2> HIDE DEF m
  <2>3. (l <= m \/ l <= B + C) /\ f - 1 <= B + m
    BY <1>1, <1>12, <2>1
  <2>4. UserWritesInFlight' = f - 1 /\ Before' = B /\ Cap' = C /\ io_wreq' = r
        /\ Resetting' = Resetting
    BY <1>3, <1>4, <1>5
  <2> QED  BY <2>1, <2>2, <2>3, <2>4 DEF LoadedLow
<1>17. Ledger(l)'
  BY <1>3, <1>4, <1>5, <1>13, <1>14, <1>15, <1>16 DEF Ledger, W
<1> QED  BY <1>17

(* What the rules of PcieCtrl and the user logic do to the ledger.         *)
LEMMA HardwareLedger ==
  ASSUME TypeInv, TypeInv', NEW lead \in Int, Ledger(lead), Hardware \/ UserLogic
  PROVE  \E l \in Int : Ledger(l)'
<1>1. ASSUME UNCHANGED <<tlpQ, tlp2Q, tlp3Q, hostVars, userWriteEmit>>,
             UserWritesQueued' = UserWritesQueued, Asks(cpl') \subseteq Asks(cpl)
      PROVE  Ledger(lead)'
  <2>1. /\ New' = New /\ Resetting' = Resetting
        /\ UserWritesInFlight' = UserWritesInFlight
    BY <1>1 DEF New, Resetting, UserWritesInFlight, UserWritesIn
  <2>2. Old' = Old
    BY <2>1 DEF Old
  <2>3. UNCHANGED <<restarts, io_wreq, io_wbudget, pc, emit>>
    BY <1>1 DEF hostVars
  <2>4. \A v \in Values' : v \in Values
    BY <1>1, <2>3 DEF Values
  <2>5. /\ UserWritesInFlight \in Nat /\ New \in Nat /\ Old \in Nat /\ io_wbudget \in Nat
    BY LedgerNumbers
  <2>6. /\ UserWritesInFlight' + io_wbudget' <= UserWritesInFlight + io_wbudget
        /\ New' + io_wbudget' <= New + io_wbudget /\ Old' <= Old
        /\ UserWritesInFlight' <= UserWritesInFlight
    BY <2>1, <2>2, <2>3, <2>5
  <2> QED  BY <1>1, <2>1, <2>3, <2>4, <2>6, LedgerQuiet
<1>2. ASSUME relayUserWriteQ \/ relayUserWrite2Q PROVE Ledger(lead)'
  <2>0. userWrite1Q \in Nat /\ userWriteQ \in Nat /\ userWrite2Q \in Nat
    BY Numbers
  <2>1. UserWritesQueued' = UserWritesQueued
    BY <1>2, <2>0 DEF relayUserWriteQ, relayUserWrite2Q, UserWritesQueued
  <2>2. UNCHANGED <<tlpQ, tlp2Q, tlp3Q, hostVars, userWriteEmit, cpl>>
    BY <1>2 DEF relayUserWriteQ, relayUserWrite2Q, tlpVars
  <2> QED  BY <1>1, <2>1, <2>2 DEF Asks
<1>3. ASSUME \/ completeIORead \/ relayUserReadQ0 \/ relayUserReadQ1 \/ dataReq
             \/ dataSend
      PROVE  Ledger(lead)'
  <2>1. UNCHANGED <<tlpQ, tlp2Q, tlp3Q, hostVars, writeVars>>
    BY <1>3 DEF completeIORead, relayUserReadQ0, relayUserReadQ1, dataReq, dataSend, tlpVars
  <2>2. Asks(cpl') \subseteq Asks(cpl)
    BY <1>3 DEF completeIORead, relayUserReadQ0, relayUserReadQ1, dataReq, dataSend,
       Answer, Asks, IsAsk
  <2> QED  BY <1>1, <2>1, <2>2 DEF writeVars, UserWritesQueued
<1>4. filterStatReadTLP \/ procTLP => Ledger(lead)'
  BY FilterLedger, ProcLedger
<1>5. procIOWrite \/ dataReceive => \E l \in Int : Ledger(l)'
  BY StoreLedger, ReceiveLedger
<1>6. Ledger(lead)' => \E l \in Int : Ledger(l)'
  OBVIOUS
<1> QED  BY <1>2, <1>3, <1>4, <1>5, <1>6 DEF Hardware, UserLogic

(* Every step keeps the ledger.                                            *)
LEMMA BacklogStep == Roomy /\ BacklogInv /\ [Next]_vars => BacklogInv'
<1> SUFFICES ASSUME Roomy, BacklogInv, [Next]_vars PROVE BacklogInv'
  OBVIOUS
<1>1. TypeInv /\ AskInv /\ TypeInv'
  BY TypeStep DEF BacklogInv
<1>2. PICK lead \in Int : Ledger(lead)
  BY DEF BacklogInv
<1>3. ASSUME NEW t \in Threads, StartCall(t) \/ Continue(t) PROVE BacklogInv'
  <2>1. AskInv'
    BY <1>1, <1>3, HostAsks
  <2>2. CASE WriteRefill(t)
    BY <1>1, <1>2, <2>1, <2>2, RefillLedger DEF BacklogInv
  <2>3. CASE ~WriteRefill(t)
    <3>1. Ledger(lead)'
      BY <1>1, <1>2, <1>3, <2>3, HostLedger
    <3> QED  BY <1>1, <2>1, <3>1 DEF BacklogInv
  <2> QED  BY <2>2, <2>3
<1>4. ASSUME Restart PROVE BacklogInv'
  BY <1>1, <1>2, <1>4, RestartLedger DEF BacklogInv
<1>5. ASSUME Hardware \/ UserLogic PROVE BacklogInv'
  BY <1>1, <1>2, <1>5, HardwareAsks, HardwareLedger DEF BacklogInv
<1>6. ASSUME UNCHANGED vars PROVE BacklogInv'
  <2>1. UNCHANGED <<pc, emit, writeLock, io_wbudget, io_wreq, userWriteEmit, tlpQ, tlp2Q,
                    tlp3Q, userWrite1Q, userWriteQ, userWrite2Q, cpl, restarts>>
    BY <1>6 DEF vars, hostVars, tlpVars, writeVars
  <2>2. AskInv'
    BY <1>1, <2>1 DEF AskInv, Locked, OneAsk, AskersWait, AnsweredOnce, Asks, NoAsk
  <2>3. /\ New' = New /\ Resetting' = Resetting /\ UserWritesInFlight' = UserWritesInFlight
        /\ Old' = Old
    BY <2>1, QueuesStill
  <2>4. Granted' = Granted /\ Values' = Values /\ Before' = Before /\ Cap' = Cap
    BY <2>1 DEF Granted, Values, Before, Cap, Asks
  <2>5. Ledger(lead)'
    BY <1>2, <2>1, <2>3, <2>4 DEF Ledger, LoadedLow
  <2> QED  BY <1>1, <2>2, <2>5 DEF BacklogInv
<1> QED  BY <1>3, <1>4, <1>5, <1>6 DEF Next

(* It holds when the process has started.                                  *)
LEMMA BacklogInit == Init => BacklogInv
<1> SUFFICES ASSUME Init PROVE BacklogInv
  OBVIOUS
<1>1. TypeInv /\ AskInv /\ UserWritesInFlight = 0 /\ Granted = 0
  <2>1. CreditInv
    BY CreditInit
  <2>2. UserWritesInFlight = 0
    BY CountEmpty DEF Init, UserWritesInFlight, UserWritesQueued
  <2>3. Granted = 0
    BY DEF Init, Granted, Minus
  <2> QED  BY <2>1, <2>2, <2>3 DEF CreditInv
<1>2. New \in Nat /\ Cap \in Nat /\ Before \in Nat /\ Old \in Nat /\ WordMod \in Nat /\ 0 < WordMod
  BY <1>1, LedgerNumbers, ConstAssumption
<1>3. ~Resetting
  <2>1. Len(<<>>) = 0 /\ 1 .. 0 = {}
    OBVIOUS
  <2> QED  BY <2>1 DEF Init, Resetting, HasInit
<1>4. Values = {}
  BY DEF Init, Values, Asks
<1>5. io_wbudget = 0
  BY DEF Init
<1>6. Granted - 0 = 0 /\ 0 + 0 <= Before + Cap /\ 0 + 0 <= Before + 0
  BY <1>1, <1>2
<1>7. Ledger(0)
  BY <1>1, <1>2, <1>3, <1>4, <1>5, <1>6, WrapsAre DEF Ledger
<1> QED  BY <1>1, <1>7 DEF BacklogInv

(* However often the process is restarted, and whatever it sends before    *)
(* its reset write takes effect, the words in flight stay within what the  *)
(* starts together were granted: one queue and one word for each.  The     *)
(* assumption keeps all that below the width of the counters.              *)
THEOREM BacklogBounded ==
  ASSUME (MaxRestarts + 2) * (IO_QUEUE_SIZE + 1) < WordMod
  PROVE  Spec => []RestartBacklog
<1>0. Roomy
  BY DEF Roomy
<1>1. BacklogInv => RestartBacklog
  <2> SUFFICES ASSUME BacklogInv PROVE RestartBacklog
    OBVIOUS
  <2>1. TypeInv /\ UserWritesInFlight + io_wbudget <= Before + Cap
    BY DEF BacklogInv, Ledger
  <2>2. /\ UserWritesInFlight \in Nat /\ io_wbudget \in Nat /\ Before \in Nat /\ Cap \in Nat
        /\ (restarts + 1) * Cap = Before + Cap
    BY <1>0, <2>1, LedgerNumbers, RoomNow
  <2>3. UserWritesInFlight <= Before + Cap
    BY <2>1, <2>2
  <2> QED  BY <2>2, <2>3 DEF RestartBacklog, Cap
<1>2. BacklogInv /\ [Next]_vars => BacklogInv'
  BY <1>0, BacklogStep
<1> QED  BY <1>1, <1>2, BacklogInit, PTL DEF Spec
=============================================================================
