-------------------------- MODULE EventFifoProofs --------------------------
(***************************************************************************)
(* Theorems about EventFifo for every array size, counter width and set of *)
(* events allowed by FifoAssumption.                                       *)
(***************************************************************************)
EXTENDS EventFifo, CountingLemmas, TLAPS

(* FMaxValue leaves room for two laps and fits the counter. *)
LEMMA FMaxValueBounds ==
  /\ FMaxValue \in Nat
  /\ 2 * FArraySize <= FMaxValue
  /\ FMaxValue <= UintMax
<1> DEFINE q == UintMax \div FArraySize
           r == UintMax % FArraySize
<1>1. /\ q \in Int /\ r \in Int
      /\ UintMax = FArraySize * q + r
      /\ 0 <= r /\ r < FArraySize
  BY FifoAssumption
<1> HIDE DEF q, r
<1>2. q >= 2
  <2>1. CASE q <= 0
    <3>1. FArraySize * q <= 0
      BY <2>1, <1>1, FifoAssumption
    <3>2. QED
      BY <3>1, <1>1, FifoAssumption
  <2>2. CASE q = 1
    BY <2>2, <1>1, FifoAssumption
  <2>3. QED
    BY <2>1, <2>2, <1>1
<1>3. FMaxValue = q * FArraySize
  BY DEF FMaxValue, q
<1>4. q * FArraySize \in Nat /\ q * FArraySize >= 2 * FArraySize
  BY <1>1, <1>2, FifoAssumption
<1>5. q * FArraySize = FArraySize * q
  BY <1>1, FifoAssumption
<1>6. QED
  BY <1>1, <1>3, <1>4, <1>5, FifoAssumption

(* MInc is the successor modulo FMaxValue: the wrap of uint16_t itself is  *)
(* never met, because FMaxValue <= UintMax.                                *)
LEMMA MIncIsSuccessor ==
  ASSUME NEW c \in Counters
  PROVE  /\ MInc(c) \in Counters
         /\ MInc(c) = IF c = FMaxValue - 1 THEN 0 ELSE c + 1
<1>1. c + 1 \in Nat /\ c + 1 <= UintMax
  BY FMaxValueBounds, FifoAssumption DEF Counters
<1>2. (c + 1) % (UintMax + 1) = c + 1
  BY <1>1, FifoAssumption
<1>3. CASE c = FMaxValue - 1
  BY <1>2, <1>3, FMaxValueBounds, FifoAssumption DEF Counters, MInc
<1>4. CASE c # FMaxValue - 1
  <2>1. c + 1 \in 0 .. FMaxValue - 1
    BY <1>4, FMaxValueBounds DEF Counters
  <2>2. (c + 1) % FMaxValue = c + 1
    BY <2>1, FMaxValueBounds
  <2>3. QED
    BY <1>2, <1>4, <2>1, <2>2 DEF Counters, MInc
<1>5. QED
  BY <1>3, <1>4

LEMMA SlotInSlots ==
  ASSUME NEW c \in Nat
  PROVE  Slot(c) \in Slots
BY FifoAssumption DEF Slot, Slots

(* The inductive invariant: the types alone are not preserved by MPut,     *)
(* whose full test is an equality, unless the distance is bounded too.     *)
IInv == TypeOK /\ CountWithinArray

LEMMA FMaxCountType == FMaxCountRecvEvent \in Nat
BY FifoAssumption DEF FMaxCountRecvEvent

LEMMA PutPopKeepsIInv == IInv /\ [PutPop]_vars => IInv'
<1> SUFFICES ASSUME IInv, [PutPop]_vars
             PROVE  IInv'
  OBVIOUS
<1>0. /\ FRead \in Counters /\ FWrite \in Counters
      /\ FInfo \in [Slots -> Events \cup {NoEvent}]
      /\ FCountRecvEvent \in 0 .. FMaxCountRecvEvent
      /\ MCount <= FArraySize
  BY DEF IInv, TypeOK, CountWithinArray
<1>1. ASSUME NEW e \in Events, MPut(e)
      PROVE  IInv'
  <2>1. /\ FRead' = FRead
        /\ FWrite' = MInc(FWrite)
        /\ FInfo' = [FInfo EXCEPT ![Slot(FWrite)] = e]
        /\ MCount # FArraySize
    BY <1>1 DEF MPut, CanPut
  <2>2. FWrite' \in Counters /\ FRead' \in Counters
    BY <2>1, <1>0, MIncIsSuccessor
  <2>3. FInfo' \in [Slots -> Events \cup {NoEvent}]
    BY <2>1, <1>0
  <2>4. FCountRecvEvent' \in 0 .. FMaxCountRecvEvent
    BY <1>0, <1>1, FMaxCountType DEF MPut, CanPut
  <2>5. MCount' <= FArraySize
    <3>1. FWrite' = IF FWrite = FMaxValue - 1 THEN 0 ELSE FWrite + 1
      BY <2>1, <1>0, MIncIsSuccessor
    <3>2. QED
      BY <3>1, <2>1, <1>0, FMaxValueBounds, FifoAssumption DEF MCount, Counters
  <2>6. QED
    BY <2>2, <2>3, <2>4, <2>5 DEF IInv, TypeOK, CountWithinArray
<1>2. CASE MPop
  <2>1. /\ FWrite' = FWrite
        /\ FRead' = MInc(FRead)
        /\ FInfo' = FInfo
        /\ FRead # FWrite
    BY <1>2 DEF MPop, MEmpty
  <2>2. FWrite' \in Counters /\ FRead' \in Counters
    BY <2>1, <1>0, MIncIsSuccessor
  <2>4. FCountRecvEvent' \in 0 .. FMaxCountRecvEvent
    BY <1>0, <1>2, FMaxCountType DEF MPop
  <2>5. MCount' <= FArraySize
    <3>1. FRead' = IF FRead = FMaxValue - 1 THEN 0 ELSE FRead + 1
      BY <2>1, <1>0, MIncIsSuccessor
    <3>2. QED
      BY <3>1, <2>1, <1>0, FMaxValueBounds, FifoAssumption DEF MCount, Counters
  <2>6. QED
    BY <2>1, <2>2, <2>4, <2>5, <1>0 DEF IInv, TypeOK, CountWithinArray
<1>3. CASE UNCHANGED vars
  BY <1>3, <1>0 DEF vars, IInv, TypeOK, CountWithinArray, MCount
<1>4. QED
  BY <1>1, <1>2, <1>3 DEF PutPop

-----------------------------------------------------------------------------
(* The ring as a queue.  FMaxValue is a multiple of FArraySize, so that    *)
(* the slots go on where the counters wrap.                                *)

LEMMA RemainderIsUnique ==
  ASSUME NEW b \in Nat \ {0}, NEW a \in Int, NEW q \in Int, NEW r \in 0 .. b - 1,
         a = b * q + r
  PROVE  a % b = r
<1> DEFINE p == a \div b
           m == a % b
<1>1. p \in Int /\ m \in 0 .. b - 1 /\ a = b * p + m
  OBVIOUS
<1> HIDE DEF p, m
<1>2. CASE q >= p + 1
  <2>1. b * q >= b * (p + 1) /\ b * (p + 1) = b * p + b
    BY <1>1, <1>2
  <2>2. b * q \in Int /\ b * p \in Int
    BY <1>1
  <2>3. QED
    BY <1>1, <2>1, <2>2
<1>3. CASE q <= p - 1
  <2>1. b * p >= b * (q + 1) /\ b * (q + 1) = b * q + b
    BY <1>1, <1>3
  <2>2. b * q \in Int /\ b * p \in Int
    BY <1>1
  <2>3. QED
    BY <1>1, <2>1, <2>2
<1>4. CASE q = p
  BY <1>1, <1>4 DEF m
<1>5. QED
  BY <1>1, <1>2, <1>3, <1>4

LEMMA SlotIsPeriodic ==
  ASSUME NEW c \in Nat
  PROVE  Slot(c + FMaxValue) = Slot(c)
<1> DEFINE u == UintMax \div FArraySize
           q == c \div FArraySize
<1>1. u \in Int /\ q \in Int /\ Slot(c) \in 0 .. FArraySize - 1
      /\ c = FArraySize * q + Slot(c)
  BY FifoAssumption DEF Slot
<1>2. FMaxValue = u * FArraySize
  BY DEF FMaxValue
<1> HIDE DEF u, q
<1>3. c + FMaxValue = FArraySize * (q + u) + Slot(c)
  BY <1>1, <1>2, FifoAssumption
<1>4. (c + FMaxValue) % FArraySize = Slot(c)
  <2> DEFINE a == c + FMaxValue
             k == q + u
             r == Slot(c)
  <2>1. /\ FArraySize \in Nat \ {0} /\ a \in Int /\ k \in Int
        /\ r \in 0 .. FArraySize - 1 /\ a = FArraySize * k + r
    BY <1>1, <1>3, FMaxValueBounds, FifoAssumption
  <2> HIDE DEF a, k, r
  <2>2. a % FArraySize = r
    BY <2>1, RemainderIsUnique
  <2>3. QED
    BY <2>2 DEF a, r
<1>5. QED
  BY <1>4 DEF Slot

LEMMA SlotsDiffer ==
  ASSUME NEW c \in Nat, NEW k \in 1 .. FArraySize - 1
  PROVE  Slot(c + k) # Slot(c)
<1> DEFINE q == c \div FArraySize
           p == (c + k) \div FArraySize
<1>1. /\ q \in Int /\ Slot(c) \in Int /\ c = FArraySize * q + Slot(c)
      /\ p \in Int /\ Slot(c + k) \in Int /\ c + k = FArraySize * p + Slot(c + k)
  BY FifoAssumption DEF Slot
<1> HIDE DEF q, p
<1> SUFFICES ASSUME Slot(c + k) = Slot(c) PROVE FALSE
  OBVIOUS
<1>2. FArraySize * p \in Int /\ FArraySize * q \in Int /\ FArraySize * p = FArraySize * q + k
  BY <1>1, FifoAssumption
<1>3. CASE p <= q
  <2>1. FArraySize * p <= FArraySize * q
    BY <1>1, <1>3, FifoAssumption
  <2>2. QED
    BY <1>2, <2>1, FifoAssumption
<1>4. CASE p >= q + 1
  <2>1. FArraySize * p >= FArraySize * (q + 1) /\ FArraySize * (q + 1) = FArraySize * q + FArraySize
    BY <1>1, <1>4, FifoAssumption
  <2>2. QED
    BY <1>2, <2>1, FifoAssumption
<1>5. QED
  BY <1>1, <1>3, <1>4

(* FWrite is the counter MCount places behind FRead.                       *)
LEMMA WriteSlot ==
  ASSUME IInv
  PROVE  MCount \in 0 .. FArraySize /\ Slot(FWrite) = Slot(FRead + MCount)
<1>1. FRead \in Counters /\ FWrite \in Counters /\ MCount <= FArraySize
  BY DEF IInv, TypeOK, CountWithinArray
<1>2. MCount \in 0 .. FArraySize
  BY <1>1, FMaxValueBounds, FifoAssumption DEF MCount, Counters
<1>3. CASE FWrite >= FRead
  BY <1>1, <1>2, <1>3, FMaxValueBounds DEF MCount, Counters
<1>4. CASE ~ (FWrite >= FRead)
  <2>1. FRead + MCount = FWrite + FMaxValue /\ FWrite \in Nat
    BY <1>1, <1>4, FMaxValueBounds DEF MCount, Counters
  <2>2. QED
    BY <1>2, <2>1, SlotIsPeriodic
<1>5. QED
  BY <1>2, <1>3, <1>4

Content == Events \cup {NoEvent}
Contents == [Slots -> Content]

(* n slots of f from counter r on.                                         *)
Slice(f, r, n) == [i \in 1 .. n |-> f[Slot(r + i - 1)]]

LEMMA SliceIsSeq ==
  ASSUME NEW f \in Contents, NEW r \in Nat, NEW n \in Nat
  PROVE  /\ Slice(f, r, n) \in Seq(Content) /\ Len(Slice(f, r, n)) = n
         /\ \A i \in 1 .. n : Slice(f, r, n)[i] = f[Slot(r + i - 1)]
<1>1. \A i \in 1 .. n : f[Slot(r + i - 1)] \in Content
  <2> SUFFICES ASSUME NEW i \in 1 .. n PROVE f[Slot(r + i - 1)] \in Content
    OBVIOUS
  <2>1. r + i - 1 \in Nat
    OBVIOUS
  <2>2. Slot(r + i - 1) \in Slots
    BY <2>1, SlotInSlots
  <2>3. QED
    BY <2>2 DEF Contents
<1>2. QED
  BY <1>1 DEF Slice

LEMMA QueuedIsSeq ==
  ASSUME IInv
  PROVE  /\ Queued \in Seq(Content) /\ Len(Queued) = MCount
         /\ \A i \in 1 .. MCount : Queued[i] = FInfo[Slot(FRead + i - 1)]
<1>1. MCount \in Nat /\ FRead \in Nat /\ FInfo \in Contents
  BY WriteSlot, FMaxValueBounds, FifoAssumption
     DEF IInv, TypeOK, Counters, Contents, Content
<1>2. Queued = Slice(FInfo, FRead, MCount)
  BY DEF Queued, Slice
<1>3. QED
  BY <1>1, <1>2, SliceIsSeq

LEMMA PutAppends ==
  ASSUME IInv, IInv', NEW e \in Events, MPut(e)
  PROVE  MCount' = MCount + 1 /\ Queued' = Append(Queued, e)
<1>1. /\ FRead' = FRead /\ FWrite' = MInc(FWrite) /\ MCount # FArraySize
      /\ FInfo' = [FInfo EXCEPT ![Slot(FWrite)] = e]
  BY DEF MPut, CanPut
<1>2. FRead \in Counters /\ FWrite \in Counters /\ FInfo \in [Slots -> Events \cup {NoEvent}]
  BY DEF IInv, TypeOK
<1>3. MCount \in 0 .. FArraySize - 1
  BY <1>1, WriteSlot, FifoAssumption
<1>4. FWrite' = IF FWrite = FMaxValue - 1 THEN 0 ELSE FWrite + 1
  BY <1>1, <1>2, MIncIsSuccessor
<1>5. MCount' = MCount + 1
  BY <1>1, <1>2, <1>3, <1>4, FMaxValueBounds, FifoAssumption DEF MCount, Counters
<1>6. /\ Queued \in Seq(Content) /\ Len(Queued) = MCount
      /\ \A i \in 1 .. MCount : Queued[i] = FInfo[Slot(FRead + i - 1)]
  BY QueuedIsSeq
<1>7. /\ Queued' \in Seq(Content) /\ Len(Queued') = MCount + 1
      /\ \A i \in 1 .. MCount + 1 : Queued'[i] = FInfo'[Slot(FRead + i - 1)]
  <2>1. /\ Queued' \in Seq(Content) /\ Len(Queued') = MCount'
        /\ \A i \in 1 .. MCount' : Queued'[i] = FInfo'[Slot(FRead' + i - 1)]
    <3>1. MCount' \in Nat /\ FRead' \in Nat /\ FInfo' \in Contents
      BY <1>3, <1>5, FMaxValueBounds DEF IInv, TypeOK, Counters, Contents, Content
    <3>2. Queued' = Slice(FInfo', FRead', MCount')
      BY DEF Queued, Slice
    <3>3. QED
      BY <3>1, <3>2, SliceIsSeq
  <2>2. QED
    BY <1>1, <1>5, <2>1
<1>8. /\ Append(Queued, e) \in Seq(Content)
      /\ Len(Append(Queued, e)) = MCount + 1
      /\ \A i \in 1 .. MCount : Append(Queued, e)[i] = Queued[i]
      /\ Append(Queued, e)[MCount + 1] = e
  <2>1. e \in Content
    BY DEF Content
  <2>2. QED
    BY <1>6, <2>1, AppendProperties
<1>9. ASSUME NEW i \in 1 .. MCount + 1 PROVE Queued'[i] = Append(Queued, e)[i]
  <2>1. Slot(FWrite) = Slot(FRead + MCount) /\ Slot(FWrite) \in Slots
    BY <1>2, WriteSlot, SlotInSlots, FMaxValueBounds DEF Counters
  <2>2. CASE i = MCount + 1
    <3>1. FRead + i - 1 = FRead + MCount
      BY <1>2, <1>3, <2>2, FMaxValueBounds DEF Counters
    <3>2. FInfo'[Slot(FRead + i - 1)] = e
      BY <1>1, <1>2, <2>1, <3>1
    <3>3. QED
      BY <1>7, <1>8, <2>2, <3>2
  <2>3. CASE i # MCount + 1
    <3>1. i \in 1 .. MCount
      BY <1>3, <2>3
    <3>2. Slot(FRead + i - 1) # Slot(FRead + MCount) /\ Slot(FRead + i - 1) \in Slots
      <4> DEFINE c == FRead + i - 1
                 k == MCount - i + 1
      <4>1. c \in Nat /\ k \in 1 .. FArraySize - 1 /\ c + k = FRead + MCount
        BY <1>2, <1>3, <3>1, FMaxValueBounds, FifoAssumption DEF Counters
      <4> HIDE DEF c, k
      <4>2. Slot(c + k) # Slot(c) /\ Slot(c) \in Slots
        BY <4>1, SlotsDiffer, SlotInSlots
      <4>3. QED
        BY <4>1, <4>2 DEF c
    <3>3. FInfo'[Slot(FRead + i - 1)] = FInfo[Slot(FRead + i - 1)]
      BY <1>1, <1>2, <2>1, <3>2
    <3>4. QED
      BY <1>6, <1>7, <1>8, <3>1, <3>3
  <2>4. QED
    BY <2>2, <2>3
<1>10. Queued' = Append(Queued, e)
  BY <1>3, <1>7, <1>8, <1>9, SeqEqual
<1>11. QED
  BY <1>5, <1>10

LEMMA PopTakesHead ==
  ASSUME IInv, IInv', MPop
  PROVE  /\ MCount > 0 /\ MCount' = MCount - 1
         /\ Queued # <<>> /\ Queued' = Tail(Queued) /\ Head(Queued) = FInfo[Slot(FRead)]
<1>1. FWrite' = FWrite /\ FRead' = MInc(FRead) /\ FInfo' = FInfo /\ FRead # FWrite
  BY DEF MPop, MEmpty
<1>2. FRead \in Counters /\ FWrite \in Counters /\ MCount \in 0 .. FArraySize
  BY WriteSlot DEF IInv, TypeOK
<1>3. FRead' = IF FRead = FMaxValue - 1 THEN 0 ELSE FRead + 1
  BY <1>1, <1>2, MIncIsSuccessor
<1>4. MCount \in 1 .. FArraySize /\ MCount' = MCount - 1
  BY <1>1, <1>2, <1>3, FMaxValueBounds, FifoAssumption DEF MCount, Counters
<1>5. /\ Queued \in Seq(Content) /\ Len(Queued) = MCount
      /\ \A i \in 1 .. MCount : Queued[i] = FInfo[Slot(FRead + i - 1)]
  BY QueuedIsSeq
<1>6. /\ Queued' \in Seq(Content) /\ Len(Queued') = MCount - 1
      /\ \A i \in 1 .. MCount - 1 : Queued'[i] = FInfo[Slot(FRead' + i - 1)]
  <2>1. /\ Queued' \in Seq(Content) /\ Len(Queued') = MCount'
        /\ \A i \in 1 .. MCount' : Queued'[i] = FInfo'[Slot(FRead' + i - 1)]
    <3>1. MCount' \in Nat /\ FRead' \in Nat /\ FInfo' \in Contents
      BY <1>4, FMaxValueBounds DEF IInv, TypeOK, Counters, Contents, Content
    <3>2. Queued' = Slice(FInfo', FRead', MCount')
      BY DEF Queued, Slice
    <3>3. QED
      BY <3>1, <3>2, SliceIsSeq
  <2>2. QED
    BY <1>1, <1>4, <2>1
<1>7. Queued # <<>> /\ Head(Queued) = Queued[1]
  BY <1>4, <1>5, EmptySeq
<1>8. /\ Tail(Queued) \in Seq(Content) /\ Len(Tail(Queued)) = MCount - 1
      /\ \A i \in 1 .. MCount - 1 : Tail(Queued)[i] = Queued[i + 1]
  BY <1>5, <1>7, HeadTailProperties
<1>9. ASSUME NEW i \in 1 .. MCount - 1 PROVE Queued'[i] = Tail(Queued)[i]
  <2>1. Slot(FRead' + i - 1) = Slot(FRead + i)
    <3>1. CASE FRead = FMaxValue - 1
      <4>1. FRead + i = (FRead' + i - 1) + FMaxValue /\ FRead' + i - 1 \in Nat
        BY <1>2, <1>3, <1>4, <3>1, FMaxValueBounds, FifoAssumption DEF Counters
      <4>2. QED
        BY <4>1, SlotIsPeriodic
    <3>2. CASE FRead # FMaxValue - 1
      <4>1. FRead' + i - 1 = FRead + i
        BY <1>2, <1>3, <1>4, <3>2, FMaxValueBounds DEF Counters
      <4>2. QED
        BY <4>1
    <3>3. QED
      BY <3>1, <3>2
  <2>2. i + 1 \in 1 .. MCount /\ FRead + (i + 1) - 1 = FRead + i
    BY <1>2, <1>4, FMaxValueBounds DEF Counters
  <2>3. QED
    BY <1>5, <1>6, <1>8, <2>1, <2>2
<1>10. Queued' = Tail(Queued)
  BY <1>4, <1>6, <1>8, <1>9, SeqEqual
<1>11. Queued[1] = FInfo[Slot(FRead)]
  <2>1. 1 \in 1 .. MCount /\ FRead + 1 - 1 = FRead
    BY <1>2, <1>4, FMaxValueBounds DEF Counters
  <2>2. QED
    BY <1>5, <2>1
<1>12. QED
  BY <1>4, <1>7, <1>10, <1>11
-----------------------------------------------------------------------------
(* Withdrawing an event.  The recursive functions of the model, Back and   *)
(* the copy loop of ShiftDown, are given their closed form by induction.   *)

LEMMA WalkExists ==
  ASSUME NEW w, NEW m \in Nat
  PROVE  \E f : f = [k \in 0 .. m |-> IF k = 0 THEN w ELSE MDec(f[k - 1])]
<1> DEFINE S == {n \in Nat : \E f : f = [k \in 0 .. n |-> IF k = 0 THEN w ELSE MDec(f[k - 1])]}
<1>1. 0 \in S
  <2> DEFINE f == [k \in 0 .. 0 |-> w]
  <2>1. f = [k \in 0 .. 0 |-> IF k = 0 THEN w ELSE MDec(f[k - 1])]
    OBVIOUS
  <2>2. QED
    BY <2>1
<1>2. ASSUME NEW n \in Nat, n \in S PROVE n + 1 \in S
  <2>1. PICK f : f = [k \in 0 .. n |-> IF k = 0 THEN w ELSE MDec(f[k - 1])]
    BY <1>2
  <2> DEFINE g == [k \in 0 .. n + 1 |-> IF k = n + 1 THEN MDec(f[n]) ELSE f[k]]
  <2>2. ASSUME NEW k \in 0 .. n + 1
        PROVE  g[k] = IF k = 0 THEN w ELSE MDec(g[k - 1])
    <3>1. CASE k = n + 1
      BY <3>1
    <3>2. CASE k \in 0 .. n /\ k # 0
      <4>1. k - 1 \in 0 .. n /\ f[k] = MDec(f[k - 1])
        BY <2>1, <3>2
      <4>2. g[k] = f[k] /\ g[k - 1] = f[k - 1]
        BY <3>2, <4>1
      <4>3. QED
        BY <3>2, <4>1, <4>2
    <3>3. CASE k = 0
      <4>1. f[0] = w
        BY <2>1
      <4>2. QED
        BY <3>3, <4>1
    <3>4. QED
      BY <3>1, <3>2, <3>3
  <2>3. g = [k \in 0 .. n + 1 |-> g[k]]
    OBVIOUS
  <2> HIDE DEF g
  <2>4. g = [k \in 0 .. n + 1 |-> IF k = 0 THEN w ELSE MDec(g[k - 1])]
    BY <2>2, <2>3
  <2>5. QED
    BY <2>4
<1> HIDE DEF S
<1>3. m \in S
  BY <1>1, <1>2, InductionOverNat
<1>4. QED
  BY <1>3 DEF S

(* Inside a lap the search of MEraseFromFifo looks at the counters before  *)
(* FWrite one by one.                                                      *)
LEMMA BackInLap ==
  ASSUME IInv
  PROVE  \A k \in 0 .. FWrite : Back[k] = FWrite - k
<1>1. FMaxValue \in Nat /\ FWrite \in 0 .. FMaxValue - 1
  BY FMaxValueBounds DEF IInv, TypeOK, Counters
<1>2. Back = [k \in 0 .. FMaxValue |-> IF k = 0 THEN FWrite ELSE MDec(Back[k - 1])]
  <2>1. \E f : f = [k \in 0 .. FMaxValue |-> IF k = 0 THEN FWrite ELSE MDec(f[k - 1])]
    BY <1>1, WalkExists
  <2>2. QED
    BY <2>1, Zenon DEF Back
<1> DEFINE S == {k \in Nat : k <= FWrite => Back[k] = FWrite - k}
<1>3. 0 \in S
  BY <1>1, <1>2
<1>4. ASSUME NEW k \in Nat, k \in S PROVE k + 1 \in S
  <2> SUFFICES ASSUME k + 1 <= FWrite PROVE Back[k + 1] = FWrite - (k + 1)
    OBVIOUS
  <2>1. Back[k] = FWrite - k
    BY <1>1, <1>4
  <2>2. k + 1 \in 0 .. FMaxValue /\ k + 1 # 0 /\ (k + 1) - 1 = k
    BY <1>1
  <2>3. Back[k + 1] = MDec(FWrite - k)
    BY <1>2, <2>1, <2>2
  <2>4. MDec(FWrite - k) = FWrite - k - 1
    <3>1. FWrite - k # 0 /\ FWrite - k - 1 \in 0 .. FMaxValue - 1 /\ FMaxValue \in Nat \ {0}
      BY <1>1
    <3>2. QED
      BY <3>1 DEF MDec
  <2>5. QED
    BY <1>1, <2>3, <2>4
<1> HIDE DEF S
<1>5. \A k \in Nat : k \in S
  BY <1>3, <1>4, InductionOverNat
<1>6. QED
  BY <1>1, <1>5 DEF S

(* h is the copy loop of ShiftDown, n steps from counter c on.             *)
Loop(h, g, c, n) ==
  h = [k \in 0 .. n |->
         IF k = 0 THEN g
         ELSE [h[k - 1] EXCEPT ![Slot((c + (k - 1)) % FMaxValue)] =
                                 h[k - 1][Slot((c + k) % FMaxValue)]]]

LEMMA LoopExists ==
  ASSUME NEW g, NEW c, NEW m \in Nat
  PROVE  \E h : Loop(h, g, c, m)
<1> DEFINE S == {n \in Nat : \E h : Loop(h, g, c, n)}
<1> DEFINE Step(v, k) == [v EXCEPT ![Slot((c + (k - 1)) % FMaxValue)] =
                                     v[Slot((c + k) % FMaxValue)]]
<1>0. ASSUME NEW h, NEW n
      PROVE  Loop(h, g, c, n) <=> h = [k \in 0 .. n |-> IF k = 0 THEN g ELSE Step(h[k - 1], k)]
  BY DEF Loop
<1> HIDE DEF Step
<1>1. 0 \in S
  <2> DEFINE h == [k \in 0 .. 0 |-> g]
  <2>1. h = [k \in 0 .. 0 |-> IF k = 0 THEN g ELSE Step(h[k - 1], k)]
    OBVIOUS
  <2>2. Loop(h, g, c, 0)
    BY <1>0, <2>1
  <2>3. QED
    BY <2>2
<1>2. ASSUME NEW n \in Nat, n \in S PROVE n + 1 \in S
  <2>0. PICK f : Loop(f, g, c, n)
    BY <1>2
  <2>1. f = [k \in 0 .. n |-> IF k = 0 THEN g ELSE Step(f[k - 1], k)]
    BY <1>0, <2>0
  <2> DEFINE h == [k \in 0 .. n + 1 |-> IF k = n + 1 THEN Step(f[n], n + 1) ELSE f[k]]
  <2>2. ASSUME NEW k \in 0 .. n + 1
        PROVE  h[k] = IF k = 0 THEN g ELSE Step(h[k - 1], k)
    <3>1. CASE k = n + 1
      BY <3>1
    <3>2. CASE k \in 0 .. n /\ k # 0
      <4>1. k - 1 \in 0 .. n /\ f[k] = Step(f[k - 1], k)
        BY <2>1, <3>2
      <4>2. h[k] = f[k] /\ h[k - 1] = f[k - 1]
        BY <3>2, <4>1
      <4>3. QED
        BY <3>2, <4>1, <4>2
    <3>3. CASE k = 0
      <4>1. f[0] = g
        BY <2>1
      <4>2. QED
        BY <3>3, <4>1
    <3>4. QED
      BY <3>1, <3>2, <3>3
  <2>3. h = [k \in 0 .. n + 1 |-> h[k]]
    OBVIOUS
  <2> HIDE DEF h
  <2>4. h = [k \in 0 .. n + 1 |-> IF k = 0 THEN g ELSE Step(h[k - 1], k)]
    BY <2>2, <2>3
  <2>5. Loop(h, g, c, n + 1)
    BY <1>0, <2>4
  <2>6. QED
    BY <2>5
<1> HIDE DEF S
<1>3. m \in S
  BY <1>1, <1>2, InductionOverNat
<1>4. QED
  BY <1>3 DEF S

(* g with the slots of counters c to c + n - 1 moved down by one.          *)
Shifted(h, g, c, n) ==
  /\ h \in Contents
  /\ \A j \in 0 .. n - 1 : h[Slot(c + j)] = g[Slot(c + j + 1)]
  /\ \A s \in Slots : (\A j \in 0 .. n - 1 : s # Slot(c + j)) => h[s] = g[s]

LEMMA LoopShifts ==
  ASSUME NEW h, NEW g \in Contents, NEW c \in Nat, NEW n \in Nat,
         n < FArraySize, c + n < FMaxValue, Loop(h, g, c, n)
  PROVE  Shifted(h[n], g, c, n)
<1> DEFINE S == {m \in Nat : m <= n => Shifted(h[m], g, c, m)}
<1>0. FMaxValue \in Nat \ {0} /\ FArraySize \in Nat
  BY FMaxValueBounds, FifoAssumption
<1>1. 0 \in S
  <2>1. h[0] = g
    BY DEF Loop
  <2>2. QED
    BY <2>1 DEF Shifted
<1>2. ASSUME NEW m \in Nat, m \in S PROVE m + 1 \in S
  <2> SUFFICES ASSUME m + 1 <= n PROVE Shifted(h[m + 1], g, c, m + 1)
    OBVIOUS
  <2>1. Shifted(h[m], g, c, m)
    BY <1>2
  <2>2. h[m + 1] = [h[m] EXCEPT ![Slot(c + m)] = h[m][Slot(c + m + 1)]]
    <3>1. (c + m) % FMaxValue = c + m /\ (c + (m + 1)) % FMaxValue = c + m + 1
      BY <1>0
    <3>2. m + 1 \in 0 .. n /\ m + 1 # 0 /\ (m + 1) - 1 = m
      OBVIOUS
    <3>3. h[m + 1] = [h[(m + 1) - 1] EXCEPT ![Slot((c + ((m + 1) - 1)) % FMaxValue)] =
                                              h[(m + 1) - 1][Slot((c + (m + 1)) % FMaxValue)]]
      BY <3>2 DEF Loop
    <3>4. QED
      BY <3>1, <3>2, <3>3
  <2>3. Slot(c + m) \in Slots /\ Slot(c + m + 1) \in Slots
    BY SlotInSlots
  <2>4. ASSUME NEW i \in 0 .. m, NEW k \in i + 1 .. m + 1 PROVE Slot(c + k) # Slot(c + i)
    <3> DEFINE a == c + i
               d == k - i
    <3>1. a \in Nat /\ d \in 1 .. FArraySize - 1 /\ a + d = c + k
      BY <1>0
    <3> HIDE DEF a, d
    <3>2. Slot(a + d) # Slot(a)
      BY <3>1, SlotsDiffer
    <3>3. QED
      BY <3>1, <3>2 DEF a
  <2>5. h[m][Slot(c + m + 1)] = g[Slot(c + m + 1)]
    <3>1. \A j \in 0 .. m - 1 : Slot(c + m + 1) # Slot(c + j)
      <4> SUFFICES ASSUME NEW j \in 0 .. m - 1 PROVE Slot(c + m + 1) # Slot(c + j)
        OBVIOUS
      <4>1. j \in 0 .. m /\ m + 1 \in j + 1 .. m + 1 /\ c + (m + 1) = c + m + 1
        OBVIOUS
      <4>2. Slot(c + (m + 1)) # Slot(c + j)
        BY <2>4, <4>1
      <4>3. QED
        BY <4>1, <4>2
    <3>2. QED
      BY <2>1, <2>3, <3>1 DEF Shifted
  <2>6. h[m] \in Contents /\ h[m + 1] \in Contents
    BY <2>1, <2>2, <2>3 DEF Shifted, Contents
  <2>7. ASSUME NEW j \in 0 .. m PROVE h[m + 1][Slot(c + j)] = g[Slot(c + j + 1)]
    <3>0. Slot(c + j) \in Slots
      BY SlotInSlots
    <3>1. CASE j = m
      BY <2>2, <2>3, <2>5, <2>6, <3>1 DEF Contents
    <3>2. CASE j # m
      <4>1. j \in 0 .. m - 1 /\ m \in j + 1 .. m + 1
        BY <3>2
      <4>2. Slot(c + m) # Slot(c + j)
        BY <2>4, <4>1
      <4>3. h[m + 1][Slot(c + j)] = h[m][Slot(c + j)]
        BY <2>2, <2>6, <3>0, <4>2 DEF Contents
      <4>4. QED
        BY <2>1, <4>1, <4>3 DEF Shifted
    <3>3. QED
      BY <3>1, <3>2
  <2>8. ASSUME NEW s \in Slots, \A j \in 0 .. m : s # Slot(c + j)
        PROVE  h[m + 1][s] = g[s]
    <3>1. s # Slot(c + m) /\ \A j \in 0 .. m - 1 : s # Slot(c + j)
      BY <2>8
    <3>2. h[m + 1][s] = h[m][s]
      BY <2>2, <2>6, <3>1 DEF Contents
    <3>3. QED
      BY <2>1, <3>1, <3>2 DEF Shifted
  <2>9. (m + 1) - 1 = m
    OBVIOUS
  <2>10. QED
    BY <2>6, <2>7, <2>8, <2>9 DEF Shifted
<1> HIDE DEF S
<1>3. n \in S
  BY <1>1, <1>2, InductionOverNat
<1>4. QED
  BY <1>3 DEF S

LEMMA ShiftDownShifts ==
  ASSUME IInv, NEW c \in Nat, c < FWrite, FWrite - c <= FArraySize
  PROVE  Shifted(ShiftDown(c), FInfo, c, FWrite - c - 1)
<1> DEFINE n == FWrite - c - 1
<1>1. /\ FMaxValue \in Nat \ {0} /\ FWrite \in 0 .. FMaxValue - 1
      /\ FInfo \in Contents /\ FArraySize \in Nat
  BY FMaxValueBounds, FifoAssumption DEF IInv, TypeOK, Counters, Contents, Content
<1>2. n \in Nat /\ n < FArraySize /\ c + n < FMaxValue /\ n % FMaxValue = n
  BY <1>1
<1> DEFINE h == CHOOSE f : Loop(f, FInfo, c, n % FMaxValue)
<1>3. ShiftDown(c) = h[n % FMaxValue]
  BY Zenon DEF ShiftDown, Loop
<1>4. Loop(h, FInfo, c, n)
  BY <1>2, LoopExists
<1> HIDE DEF h, n
<1>5. Shifted(h[n], FInfo, c, n)
  BY <1>1, <1>2, <1>4, LoopShifts
<1>6. QED
  BY <1>2, <1>3, <1>5 DEF n

(* An erase takes the newest occurrence out of the queue.                  *)
LEMMA EraseTakesNewest ==
  ASSUME IInv, NEW e \in Events, FRead < FWrite, MEraseFromFifo(e)
  PROVE  /\ IInv'
         /\ \E p \in 1 .. MCount :
              /\ Queued[p] = e
              /\ \A i \in 1 .. MCount : i > p => Queued[i] # e
              /\ Queued' = DropAt(Queued, p)
<1>0. /\ FMaxValue \in Nat /\ FRead \in 0 .. FMaxValue - 1 /\ FWrite \in 1 .. FMaxValue - 1
      /\ FInfo \in Contents /\ FArraySize \in Nat
      /\ MCount = FWrite - FRead /\ MCount <= FArraySize
  BY FMaxValueBounds, FifoAssumption
     DEF IInv, TypeOK, CountWithinArray, Counters, Contents, Content, MCount
<1>1. PICK k \in Matches(e) : (\A j \in Matches(e) : k <= j) /\ FInfo' = ShiftDown(Back[k])
  BY DEF MEraseFromFifo
<1>2. FRead' = FRead /\ FCountRecvEvent' = FCountRecvEvent /\ FWrite' = FWrite - 1
  <2>1. FRead' = FRead /\ FCountRecvEvent' = FCountRecvEvent /\ FWrite' = MDec(FWrite)
    BY DEF MEraseFromFifo
  <2>2. MDec(FWrite) = FWrite - 1
    BY <1>0 DEF MDec
  <2>3. QED
    BY <2>1, <2>2
<1>3. \A j \in 1 .. FWrite : Back[j] = FWrite - j
  BY <1>0, BackInLap
<1>4. k \in 1 .. MCount
  <2>1. k \in 1 .. FMaxValue /\ \A j \in 1 .. k - 1 : Back[j] # FRead
    BY <1>1 DEF Matches
  <2>2. MCount \in 1 .. FWrite /\ Back[MCount] = FRead
    BY <1>0, <1>3
  <2>3. QED
    BY <1>0, <2>1, <2>2
<1> DEFINE c == FWrite - k
           p == MCount - k + 1
<1>5. c \in Nat /\ c < FWrite /\ FWrite - c <= FArraySize /\ FWrite - c - 1 = k - 1 /\ Back[k] = c
  BY <1>0, <1>3, <1>4
<1>6. Shifted(FInfo', FInfo, c, k - 1)
  <2> HIDE DEF c
  <2>1. Shifted(ShiftDown(c), FInfo, c, FWrite - c - 1)
    BY <1>5, ShiftDownShifts
  <2>2. QED
    BY <1>1, <1>5, <2>1
<1>7. FInfo' \in Contents
  BY <1>6 DEF Shifted
<1>8. MCount' = MCount - 1 /\ MCount' \in Nat
  BY <1>0, <1>2, <1>4 DEF MCount
<1>9. IInv'
  <2>1. FWrite' \in Counters /\ FRead' \in Counters
    BY <1>0, <1>2 DEF Counters
  <2>2. FCountRecvEvent' \in 0 .. FMaxCountRecvEvent
    BY <1>2 DEF IInv, TypeOK
  <2>3. MCount' <= FArraySize
    BY <1>0, <1>4, <1>8
  <2>4. QED
    BY <1>7, <2>1, <2>2, <2>3 DEF IInv, TypeOK, CountWithinArray, Contents, Content
<1>10. /\ Queued \in Seq(Content) /\ Len(Queued) = MCount
       /\ \A i \in 1 .. MCount : Queued[i] = FInfo[Slot(FRead + i - 1)]
  BY QueuedIsSeq
<1>11. /\ Queued' \in Seq(Content) /\ Len(Queued') = MCount - 1
       /\ \A i \in 1 .. MCount - 1 : Queued'[i] = FInfo'[Slot(FRead + i - 1)]
  <2>1. MCount' \in Nat /\ FRead' \in Nat /\ FInfo' \in Contents
    BY <1>0, <1>2, <1>7, <1>8
  <2>2. Queued' = Slice(FInfo', FRead', MCount')
    BY DEF Queued, Slice
  <2>3. /\ Queued' \in Seq(Content) /\ Len(Queued') = MCount'
        /\ \A i \in 1 .. MCount' : Queued'[i] = FInfo'[Slot(FRead' + i - 1)]
    BY <2>1, <2>2, SliceIsSeq
  <2>4. QED
    BY <1>2, <1>8, <2>3
<1>12. p \in 1 .. MCount /\ FRead + p - 1 = c
  BY <1>0, <1>4
<1>13. Queued[p] = e
  <2>1. FInfo[Slot(c)] = e
    BY <1>1, <1>5 DEF Matches
  <2>2. QED
    BY <1>10, <1>12, <2>1
<1>14. ASSUME NEW i \in 1 .. MCount, i > p PROVE Queued[i] # e
  <2> DEFINE j == MCount - i + 1
  <2>1. j \in 1 .. k - 1 /\ j \in 1 .. FMaxValue /\ j \in 1 .. FWrite
        /\ FWrite - j = FRead + i - 1
    BY <1>0, <1>4, <1>14
  <2>2. j \notin Matches(e)
    BY <1>1, <1>4, <2>1
  <2>3. \A m \in 1 .. j - 1 : Back[m] # FRead
    BY <1>1, <1>4, <2>1 DEF Matches
  <2>4. FInfo[Slot(Back[j])] # e
    BY <2>1, <2>2, <2>3 DEF Matches
  <2>5. Back[j] = FRead + i - 1
    BY <1>3, <2>1
  <2>6. QED
    BY <1>10, <2>4, <2>5
<1>15. /\ DropAt(Queued, p) \in Seq(Content) /\ Len(DropAt(Queued, p)) = MCount - 1
       /\ \A i \in 1 .. MCount - 1 :
            DropAt(Queued, p)[i] = IF i < p THEN Queued[i] ELSE Queued[i + 1]
  <2> HIDE DEF p
  <2>1. p \in 1 .. Len(Queued)
    BY <1>10, <1>12
  <2>2. QED
    BY <1>10, <2>1, DropAtProperties
<1>16. ASSUME NEW i \in 1 .. MCount - 1 PROVE Queued'[i] = DropAt(Queued, p)[i]
  <2>1. CASE i < p
    <3>1. \A j \in 0 .. (k - 1) - 1 : Slot(FRead + i - 1) # Slot(c + j)
      <4> SUFFICES ASSUME NEW j \in 0 .. (k - 1) - 1
                   PROVE  Slot(FRead + i - 1) # Slot(c + j)
        OBVIOUS
      <4> DEFINE a == FRead + i - 1
                 d == p - i + j
      <4>1. a \in Nat /\ d \in 1 .. FArraySize - 1 /\ a + d = c + j
        BY <1>0, <1>4, <1>12, <2>1
      <4> HIDE DEF a, d, c, p
      <4>2. Slot(a + d) # Slot(a)
        BY <4>1, SlotsDiffer
      <4>3. QED
        BY <4>1, <4>2 DEF a
    <3>2. FRead + i - 1 \in Nat
      BY <1>0
    <3>3. Slot(FRead + i - 1) \in Slots
      BY <3>2, SlotInSlots
    <3>4. FInfo'[Slot(FRead + i - 1)] = FInfo[Slot(FRead + i - 1)]
      BY <1>6, <3>1, <3>3 DEF Shifted
    <3>5. i \in 1 .. MCount
      BY <1>0, <1>4
    <3>6. QED
      BY <1>10, <1>11, <1>15, <2>1, <3>4, <3>5
  <2>2. CASE ~ (i < p)
    <3> DEFINE j == i - p
    <3>1. j \in 0 .. (k - 1) - 1 /\ c + j = FRead + i - 1 /\ c + j + 1 = FRead + (i + 1) - 1
      BY <1>0, <1>4, <1>12, <2>2
    <3> HIDE DEF j
    <3>2. FInfo'[Slot(c + j)] = FInfo[Slot(c + j + 1)]
      BY <1>6, <3>1 DEF Shifted
    <3>3. i + 1 \in 1 .. MCount
      BY <1>0, <1>4
    <3>4. QED
      BY <1>10, <1>11, <1>15, <2>2, <3>1, <3>2, <3>3
  <2>3. QED
    BY <2>1, <2>2
<1>17. Queued' = DropAt(Queued, p)
  <2> HIDE DEF p
  <2>1. QED
    BY <1>11, <1>15, <1>16, SeqEqual
<1>18. QED
  BY <1>9, <1>12, <1>13, <1>14, <1>17

-----------------------------------------------------------------------------
(* The steps of a ring with erases, and what follows from them.            *)

LEMMA StepKeepsIInv == IInv /\ [NextEraseInLap]_vars => IInv'
BY PutPopKeepsIInv, EraseTakesNewest DEF NextEraseInLap

(* The CHECKs of MCount hold in every reachable state, whatever the size   *)
(* of the ring and however often the counters wrap: the two counters are   *)
(* never further apart than there are slots.                               *)
THEOREM CountWithinArrayHolds == SpecEraseInLap => [](TypeOK /\ CountWithinArray)
<1>1. Init => IInv
  BY FMaxValueBounds, FMaxCountType, FifoAssumption
     DEF Init, IInv, TypeOK, CountWithinArray, MCount, Counters
<1>2. IInv => TypeOK /\ CountWithinArray
  BY DEF IInv
<1>3. QED
  BY <1>1, <1>2, StepKeepsIInv, PTL DEF SpecEraseInLap

(* Queued holds events only, never a slot that was not written, and no     *)
(* more E_DATA events than are counted.                                    *)
Counted == Queued \in Seq(Events) /\ CountIn(Queued, Data) <= FCountRecvEvent

LEMMA InitCounted == Init => IInv /\ Counted /\ Queued = <<>>
<1> SUFFICES ASSUME Init PROVE IInv /\ Counted /\ Queued = <<>>
  OBVIOUS
<1>1. IInv
  BY FMaxValueBounds, FMaxCountType, FifoAssumption
     DEF Init, IInv, TypeOK, CountWithinArray, MCount, Counters
<1>2. MCount = 0
  BY DEF Init, MCount
<1>3. Queued = <<>>
  BY <1>2 DEF Queued
<1>4. QED
  BY <1>1, <1>3, EmptyCount DEF Counted, Init

LEMMA StepKeepsCounted ==
  ASSUME IInv, Counted, [NextEraseInLap]_vars
  PROVE  Counted'
<1>0. /\ Queued \in Seq(Events) /\ CountIn(Queued, Data) <= FCountRecvEvent
      /\ CountIn(Queued, Data) \in Nat /\ FCountRecvEvent \in Nat /\ IInv'
  BY PositionsAreFinite, StepKeepsIInv, FMaxCountType DEF Counted, IInv, TypeOK
<1>1. ASSUME NEW e \in Events, MPut(e) PROVE Counted'
  <2>1. Queued' = Append(Queued, e)
    BY <1>0, <1>1, PutAppends
  <2>2. Queued' \in Seq(Events)
    BY <1>0, <2>1, AppendProperties
  <2>3. CountIn(Queued', Data) = CountIn(Queued, Data) + (IF e \in Data THEN 1 ELSE 0)
    BY <1>0, <2>1, AppendCount
  <2>4. FCountRecvEvent' = FCountRecvEvent + (IF e \in Data THEN 1 ELSE 0)
    BY <1>1 DEF MPut
  <2>5. QED
    BY <1>0, <2>2, <2>3, <2>4 DEF Counted
<1>2. CASE MPop
  <2>1. Queued # <<>> /\ Queued' = Tail(Queued) /\ Head(Queued) = FInfo[Slot(FRead)]
    BY <1>0, <1>2, PopTakesHead
  <2>2. Queued' \in Seq(Events)
    BY <1>0, <2>1, HeadTailProperties
  <2>3. CountIn(Queued, Data) = CountIn(Queued', Data) + (IF Head(Queued) \in Data THEN 1 ELSE 0)
    BY <1>0, <2>1, TailCount
  <2>4. CountIn(Queued', Data) \in Nat
    BY <2>2, PositionsAreFinite
  <2>5. FCountRecvEvent' = FCountRecvEvent - (IF Head(Queued) \in Data THEN 1 ELSE 0)
    BY <1>2, <2>1 DEF MPop
  <2>6. QED
    BY <1>0, <2>2, <2>3, <2>4, <2>5 DEF Counted
<1>3. ASSUME NEW e \in Events, FRead < FWrite, MEraseFromFifo(e) PROVE Counted'
  <2>1. PICK p \in 1 .. MCount : Queued' = DropAt(Queued, p)
    BY <1>3, EraseTakesNewest
  <2>2. p \in 1 .. Len(Queued)
    BY QueuedIsSeq
  <2>3. Queued' \in Seq(Events) /\ CountIn(Queued', Data) <= CountIn(Queued, Data)
    BY <1>0, <2>1, <2>2, DropAtProperties, DropAtCount
  <2>4. CountIn(Queued', Data) \in Nat
    BY <2>3, PositionsAreFinite
  <2>5. FCountRecvEvent' = FCountRecvEvent
    BY <1>3 DEF MEraseFromFifo
  <2>6. QED
    BY <1>0, <2>3, <2>4, <2>5 DEF Counted
<1>4. CASE UNCHANGED vars
  BY <1>4 DEF vars, Counted, Queued, MCount
<1>5. QED
  BY <1>1, <1>2, <1>3, <1>4 DEF NextEraseInLap, PutPop

LEMMA DataIsCovered == IInv /\ Counted => CountCoversData
<1> SUFFICES ASSUME IInv, Counted PROVE CountCoversData
  OBVIOUS
<1>1. DOMAIN Queued = 1 .. MCount
  BY QueuedIsSeq, LenProperties
<1>2. QueuedOf(Data) = PositionsIn(Queued, Data)
  BY <1>1 DEF QueuedOf, PositionsIn
<1>3. QED
  BY <1>2 DEF Counted, CountIn, CountCoversData

(* FCountRecvEvent is never less than the number of E_DATA events in the   *)
(* ring: the CHECK_NE of MPop never fails.                                 *)
THEOREM CountCoversDataHolds == SpecEraseInLap => []CountCoversData
BY InitCounted, StepKeepsIInv, StepKeepsCounted, DataIsCovered, PTL DEF SpecEraseInLap

(* A protocol event is refused only behind EVENT_RESERV protocol events:   *)
(* the slots reserved for them are never taken by data.                    *)
THEOREM ControlIsNotStarvedHolds == SpecEraseInLap => []ControlIsNotStarved
<1>1. IInv /\ Counted => ControlIsNotStarved
  <2> SUFFICES ASSUME IInv, Counted, NEW e \in Control, FArraySize > EVENT_RESERV, ~CanPut(e)
               PROVE  Cardinality(QueuedOf(Control)) >= EVENT_RESERV
    BY DEF ControlIsNotStarved
  <2> DEFINE D == QueuedOf(Data)
             C == QueuedOf(Control)
  <2>1. MCount = FArraySize /\ FArraySize \in Nat /\ EVENT_RESERV \in Nat
    BY FifoAssumption DEF CanPut
  <2>2. DOMAIN Queued = 1 .. FArraySize /\ \A i \in 1 .. FArraySize : Queued[i] \in Data \cup Control
    <3>1. Len(Queued) = FArraySize
      BY <2>1, QueuedIsSeq
    <3>2. QED
      BY <3>1, LenProperties, ElementOfSeq DEF Counted, Events
  <2>3. 1 .. FArraySize = D \cup C /\ D \cap C = {}
    BY <2>1, <2>2, FifoAssumption DEF QueuedOf
  <2>4. IsFiniteSet(1 .. FArraySize) /\ Cardinality(1 .. FArraySize) = FArraySize
    BY <2>1, FS_Interval
  <2>5. Cardinality(D) <= FArraySize - EVENT_RESERV
    <3>1. Cardinality(D) <= FCountRecvEvent
      BY DataIsCovered DEF CountCoversData
    <3>2. FCountRecvEvent \in 0 .. FArraySize - EVENT_RESERV
      BY DEF IInv, TypeOK, FMaxCountRecvEvent
    <3>3. D \in SUBSET (1 .. FArraySize)
      BY <2>3
    <3>4. IsFiniteSet(D) /\ Cardinality(D) \in Nat
      BY <2>4, <3>3, FS_Subset, FS_CardinalityType
    <3>5. QED
      BY <2>1, <3>1, <3>2, <3>4
  <2> HIDE DEF D, C
  <2>6. IsFiniteSet(D) /\ IsFiniteSet(C)
    <3>1. D \in SUBSET (1 .. FArraySize) /\ C \in SUBSET (1 .. FArraySize)
      BY <2>3
    <3>2. QED
      BY <2>4, <3>1, FS_Subset
  <2>7. Cardinality(D \cup C) = Cardinality(D) + Cardinality(C) - Cardinality(D \cap C)
    BY <2>6, FS_Union
  <2>8. Cardinality(D \cap C) = 0
    BY <2>3, FS_EmptySet
  <2>9. Cardinality(D) \in Nat /\ Cardinality(C) \in Nat
    BY <2>6, FS_CardinalityType
  <2>10. FArraySize = Cardinality(D) + Cardinality(C)
    <3>1. Cardinality(D \cup C) = FArraySize
      BY <2>3, <2>4, Zenon
    <3>2. QED
      BY <2>7, <2>8, <2>9, <3>1
  <2>11. Cardinality(C) >= EVENT_RESERV
    BY <2>1, <2>5, <2>9, <2>10
  <2>12. QED
    BY <2>11 DEF C
<1>2. QED
  BY <1>1, InitCounted, StepKeepsIInv, StepKeepsCounted, PTL DEF SpecEraseInLap

LEMMA EraseImplementsErase ==
  ASSUME IInv, NEW e \in Events, FRead < FWrite, MEraseFromFifo(e)
  PROVE  Fifo!Erase(e)
<1>1. PICK p \in 1 .. MCount :
        /\ Queued[p] = e
        /\ \A i \in 1 .. MCount : i > p => Queued[i] # e
        /\ Queued' = DropAt(Queued, p)
  BY EraseTakesNewest
<1>2. DOMAIN Queued = 1 .. MCount
  BY QueuedIsSeq, LenProperties
<1>3. DropAt(Queued, p) = Fifo!RemoveAt(Queued, p)
  BY DEF DropAt, Fifo!RemoveAt
<1>4. QED
  BY <1>1, <1>2, <1>3 DEF Fifo!Erase

(* The ring implements the bounded queue: a put appends, a pop takes the   *)
(* oldest event, an erase withdraws the newest occurrence of its event.    *)
THEOREM RingIsFifoHolds == SpecEraseInLap => RingIsFifo
<1>1. Init => Fifo!Init
  BY InitCounted DEF Fifo!Init
<1>2. IInv /\ [NextEraseInLap]_vars => [Fifo!Next]_Queued
  <2> SUFFICES ASSUME IInv, [NextEraseInLap]_vars PROVE [Fifo!Next]_Queued
    OBVIOUS
  <2>0. IInv' /\ Len(Queued) = MCount /\ MCount \in 0 .. FArraySize
    BY StepKeepsIInv, QueuedIsSeq, WriteSlot
  <2>1. ASSUME NEW e \in Events, MPut(e) PROVE Fifo!Next
    <3>1. Queued' = Append(Queued, e)
      BY <2>0, <2>1, PutAppends
    <3>2. MCount # FArraySize
      BY <2>1 DEF MPut, CanPut
    <3>3. Len(Queued) < FArraySize
      BY <2>0, <3>2, FifoAssumption
    <3>4. QED
      BY <3>1, <3>3 DEF Fifo!Next, Fifo!Put
  <2>2. CASE MPop
    <3>1. Queued # <<>> /\ Queued' = Tail(Queued)
      BY <2>0, <2>2, PopTakesHead
    <3>2. QED
      BY <3>1 DEF Fifo!Next, Fifo!Pop
  <2>3. ASSUME NEW e \in Events, FRead < FWrite, MEraseFromFifo(e) PROVE Fifo!Next
    BY <2>3, EraseImplementsErase DEF Fifo!Next
  <2>4. CASE UNCHANGED vars
    <3>1. Queued' = Queued
      BY <2>4 DEF vars, Queued, MCount
    <3>2. QED
      BY <3>1
  <2>5. QED
    BY <2>1, <2>2, <2>3, <2>4 DEF NextEraseInLap, PutPop
<1>3. QED
  BY <1>1, <1>2, InitCounted, StepKeepsIInv, PTL DEF SpecEraseInLap, RingIsFifo, Fifo!Spec

(* Every erase withdraws the newest occurrence of its event and leaves the *)
(* other events in their order, at whatever position it finds it.          *)
THEOREM EraseIsExactHolds == SpecEraseInLap => EraseIsExact
<1>1. IInv => (\A e \in Events : FRead < FWrite /\ MEraseFromFifo(e) => Fifo!Erase(e))
  BY EraseImplementsErase
<1>2. QED
  BY <1>1, InitCounted, StepKeepsIInv, PTL DEF SpecEraseInLap, EraseIsExact
=============================================================================
