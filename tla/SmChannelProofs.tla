-------------------------- MODULE SmChannelProofs --------------------------
(***************************************************************************)
(* Proofs about SmChannel.  The use counts of the data buffers are exact   *)
(* for any number of sending threads.  The sequence of parts, the joining  *)
(* of info and data and the order of delivery are right as long as one     *)
(* thread sends: Alone, the default num_of_thread of the customer.         *)
(***************************************************************************)
EXTENDS SmChannel, CountingLemmas, TLAPS

Infos == 0 .. MaxMessages

CustomerTypes ==
  /\ FOutUserDataFIFO \in Seq(Messages) /\ pushed \in Infos
  /\ pc \in [Workers -> {"idle", "read", "check", "put", "sent"}]
  /\ part \in [Workers -> Parts]
  /\ msg \in [Workers -> Infos]
  /\ offset \in [Workers -> Offsets \cup {None}]
  /\ mask \in [Workers -> Counters] /\ FTo \in Counters
  /\ failed \subseteq Messages
  /\ \A w \in Workers : pc[w] # "idle" => msg[w] \in Messages /\ offset[w] \in Offsets

(* hand holds an event exactly while the handler has one to store.         *)
HandlerTypes ==
  /\ ring \in Seq(Events) /\ Len(ring) <= RingSize
  /\ handler \in {"pop", "asleep", "push", "signal"}
  /\ IF handler = "push" THEN hand \in Events ELSE hand = None
  /\ FBuffers \in Seq(Events)
  /\ overload \in BOOLEAN /\ FCondVar \in BOOLEAN

ReceiverTypes ==
  /\ receiver \in {"awake", "asleep", "woken"}
  /\ FFrom \in Counters
  /\ FRecv \in [Offsets -> Infos]
  /\ delivered \in Seq(Infos \X Messages)

(* The counts of refs are shown to be naturals by what they count.         *)
Types ==
  /\ CustomerTypes
  /\ HandlerTypes
  /\ ReceiverTypes
  /\ refs \in [Offsets -> Int]

LEMMA InitTypes == Init => Types
<1> SUFFICES ASSUME Init PROVE Types
  OBVIOUS
<1>1. CustomerTypes
  BY SmChannelAssumption DEF Init, CustomerTypes, Infos, Parts, Counters
<1>2. HandlerTypes
  <2>1. ring = <<>> /\ FBuffers = <<>> /\ handler = "pop" /\ hand = None
    BY DEF Init
  <2>2. <<>> \in Seq(Events) /\ Len(<<>>) <= RingSize
    BY EmptySeq, SmChannelAssumption
  <2>3. overload \in BOOLEAN /\ FCondVar \in BOOLEAN
    BY DEF Init
  <2>4. QED
    BY <2>1, <2>2, <2>3 DEF HandlerTypes
<1>3. ReceiverTypes
  BY SmChannelAssumption DEF Init, ReceiverTypes, Infos, Counters
<1>4. refs \in [Offsets -> Int]
  BY DEF Init
<1>5. QED
  BY <1>1, <1>2, <1>3, <1>4 DEF Types

LEMMA NextCounterType == \A c \in Counters : NextCounter(c) \in Counters
BY SmChannelAssumption DEF NextCounter, Counters

(* The event a sender puts into the ring.                                  *)
EventOf(w) == [part |-> part[w], msg |-> msg[w], counter |-> mask[w], offset |-> offset[w]]

LEMMA EventOfType ==
  ASSUME CustomerTypes, NEW w \in Workers, pc[w] # "idle"
  PROVE  EventOf(w) \in Events
BY DEF CustomerTypes, EventOf, Events

LEMMA WorkKeepsCustomerTypes ==
  ASSUME CustomerTypes, NEW w \in Workers, Work(w)
  PROVE  CustomerTypes'
<1> USE DEF CustomerTypes
<1>1. CASE BeginSend(w)
  <2>1. /\ Head(FOutUserDataFIFO) \in Messages /\ Tail(FOutUserDataFIFO) \in Seq(Messages)
        /\ \A m \in Messages : m \in Infos
    BY <1>1, SmChannelAssumption DEF BeginSend, Messages, Infos
  <2>2. /\ FOutUserDataFIFO' = Tail(FOutUserDataFIFO)
        /\ msg' = [msg EXCEPT ![w] = Head(FOutUserDataFIFO)]
        /\ UNCHANGED <<pushed, mask, FTo>>
    BY <1>1 DEF BeginSend
  <2>3. CASE UNCHANGED <<pc, part, offset>> /\ failed' = failed \cup {Head(FOutUserDataFIFO)}
    BY <1>1, <2>1, <2>2, <2>3 DEF BeginSend
  <2>4. ASSUME NEW o \in Offsets, NEW p \in {"E_SM_INFO", "E_SM_DATA_INFO"},
               /\ offset' = [offset EXCEPT ![w] = o]
               /\ part' = [part EXCEPT ![w] = p]
               /\ pc' = [pc EXCEPT ![w] = "read"]
               /\ UNCHANGED failed
        PROVE  CustomerTypes'
    BY <2>1, <2>2, <2>4 DEF Parts
  <2>5. QED
    BY <1>1, <2>3, <2>4 DEF BeginSend
<1>2. CASE ReadCounter(w)
  BY <1>2 DEF ReadCounter
<1>3. CASE CheckOverload(w)
  BY <1>3 DEF CheckOverload, Again, Error
<1>4. CASE MInvokeEventTo(w)
  BY <1>4 DEF MInvokeEventTo, PutEvent, Again, Error
<1>5. CASE BumpCounter(w)
  BY <1>5, NextCounterType DEF BumpCounter, Parts
<1>6. QED
  BY <1>1, <1>2, <1>3, <1>4, <1>5 DEF Work

LEMMA WorkKeepsHandlerTypes ==
  ASSUME CustomerTypes, HandlerTypes, NEW w \in Workers, Work(w)
  PROVE  HandlerTypes'
<1>1. CASE pc[w] = "put" /\ PutEvent(w) /\ UNCHANGED <<hand, FBuffers, overload, FCondVar>>
  <2>1. ring' = Append(ring, EventOf(w)) /\ EventOf(w) \in Events
    BY <1>1, EventOfType DEF PutEvent, EventOf
  <2>2. ring \in Seq(Events) /\ Len(ring) < RingSize
    BY <1>1 DEF PutEvent, HandlerTypes
  <2>3. ring' \in Seq(Events) /\ Len(ring') <= RingSize
    BY <2>1, <2>2, AppendProperties, SmChannelAssumption
  <2>4. /\ handler' \in {"pop", "asleep", "push", "signal"}
        /\ handler' = "push" <=> handler = "push"
    BY <1>1 DEF PutEvent, HandlerTypes
  <2>5. QED
    BY <1>1, <2>3, <2>4 DEF HandlerTypes
<1>2. CASE UNCHANGED <<ring, handler, hand, FBuffers, overload, FCondVar>>
  BY <1>2 DEF HandlerTypes
<1>3. QED
  BY <1>1, <1>2 DEF Work, BeginSend, ReadCounter, CheckOverload, MInvokeEventTo, BumpCounter

LEMMA HandleEventKeepsHandlerTypes ==
  ASSUME HandlerTypes, HandleEvent
  PROVE  HandlerTypes'
<1> USE DEF HandlerTypes
<1>1. CASE SleepOnRing
  BY <1>1 DEF SleepOnRing
<1>2. CASE PopEvent
  <2>1. /\ Head(ring) \in Events /\ Tail(ring) \in Seq(Events)
        /\ Len(Tail(ring)) = Len(ring) - 1 /\ Len(ring) \in Nat
    BY <1>2, HeadTailProperties DEF PopEvent
  <2>2. QED
    BY <1>2, <2>1, SmChannelAssumption DEF PopEvent
<1>3. CASE StoreEvent
  <2>1. hand \in Events /\ Append(FBuffers, hand) \in Seq(Events)
    BY <1>3, AppendProperties DEF StoreEvent
  <2>2. overload' \in BOOLEAN
    BY <1>3 DEF StoreEvent
  <2>3. QED
    BY <1>3, <2>1, <2>2 DEF StoreEvent
<1>4. CASE Signal
  BY <1>4 DEF Signal
<1>5. QED
  BY <1>1, <1>2, <1>3, <1>4 DEF HandleEvent

(* The part of an event decides what MReceiveImpl does with it.            *)
LEMMA ReceiveKeepsTypes ==
  ASSUME HandlerTypes, ReceiverTypes, refs \in [Offsets -> Int], Receive
  PROVE  HandlerTypes' /\ ReceiverTypes' /\ refs' \in [Offsets -> Int]
<1> DEFINE e == Head(FBuffers)
<1>1. e \in Events /\ Tail(FBuffers) \in Seq(Events)
  BY HeadTailProperties DEF Receive, HandlerTypes
<1>2. HandlerTypes'
  BY <1>1 DEF Receive, HandlerTypes, StillOverloaded
<1>3. /\ e.part \in Parts /\ e.msg \in Messages /\ e.counter \in Counters /\ e.offset \in Offsets
      /\ \A m \in Messages : m \in Infos
  BY <1>1, SmChannelAssumption DEF Events, Messages, Infos
<1> HIDE DEF e
<1>4. MReceiveImpl(e) /\ FFrom' = e.counter /\ UNCHANGED receiver
  BY DEF Receive, e
<1>5. FRecv' \in [Offsets -> Infos]
  BY <1>3, <1>4, SmChannelAssumption DEF MReceiveImpl, NoteInfo, ReceiverTypes, Infos
<1>6. delivered' \in Seq(Infos \X Messages)
  <2>1. <<FRecv[e.offset], e.msg>> \in Infos \X Messages /\ <<e.msg, e.msg>> \in Infos \X Messages
    BY <1>3 DEF ReceiverTypes
  <2>2. \/ delivered' = delivered
        \/ \E p \in Infos \X Messages : delivered' = Append(delivered, p)
    BY <1>4, <2>1, Zenon DEF MReceiveImpl
  <2> DEFINE D == Infos \X Messages
  <2>3. delivered \in Seq(D) /\ (delivered' = delivered \/ \E p \in D : delivered' = Append(delivered, p))
    BY <2>2 DEF ReceiverTypes
  <2> HIDE DEF D
  <2>4. delivered' \in Seq(D)
    BY <2>3, AppendProperties
  <2>5. QED
    BY <2>4 DEF D
<1>7. refs' \in [Offsets -> Int]
  BY <1>3, <1>4 DEF MReceiveImpl
<1>8. QED
  BY <1>2, <1>3, <1>4, <1>5, <1>6, <1>7 DEF ReceiverTypes

LEMMA NextTypes == Types /\ [Next]_vars => Types'
<1> SUFFICES ASSUME Types, [Next]_vars PROVE Types'
  OBVIOUS
<1>0. CustomerTypes /\ HandlerTypes /\ ReceiverTypes /\ refs \in [Offsets -> Int]
  BY DEF Types
<1>1. CASE MPush
  <2>1. pushed + 1 \in Messages
    BY <1>0, <1>1, SmChannelAssumption DEF MPush, CustomerTypes, Messages, Infos
  <2>2. Append(FOutUserDataFIFO, pushed + 1) \in Seq(Messages)
    BY <1>0, <2>1, AppendProperties DEF CustomerTypes
  <2>3. CustomerTypes'
    BY <1>0, <1>1, <2>1, <2>2, SmChannelAssumption DEF MPush, CustomerTypes, Messages, Infos
  <2>4. HandlerTypes' /\ ReceiverTypes' /\ refs' \in [Offsets -> Int]
    BY <1>0, <1>1 DEF MPush, HandlerTypes, ReceiverTypes, receiverVars
  <2>5. QED
    BY <2>3, <2>4 DEF Types
<1>2. ASSUME NEW w \in Workers, Work(w) PROVE Types'
  <2>1. CustomerTypes' /\ HandlerTypes'
    BY <1>0, <1>2, WorkKeepsCustomerTypes, WorkKeepsHandlerTypes
  <2>2. UNCHANGED receiverVars
    BY <1>2 DEF Work, BeginSend, ReadCounter, CheckOverload, MInvokeEventTo, BumpCounter
  <2>3. ReceiverTypes'
    BY <1>0, <2>2 DEF ReceiverTypes, receiverVars
  <2>4. refs' \in [Offsets -> Int]
    <3>1. CASE BeginSend(w)
      BY <1>0, <3>1 DEF BeginSend
    <3>2. CASE ReadCounter(w)
      BY <1>0, <3>2 DEF ReadCounter
    <3>3. CASE CheckOverload(w) \/ MInvokeEventTo(w) \/ BumpCounter(w)
      <4>1. offset[w] \in Offsets
        BY <1>0, <3>3 DEF CheckOverload, MInvokeEventTo, BumpCounter, CustomerTypes
      <4>2. \/ refs' = refs
            \/ refs' = [refs EXCEPT ![offset[w]] = @ - 1]
            \/ refs' = [refs EXCEPT ![offset[w]] = @ + 1]
        BY <3>3 DEF CheckOverload, MInvokeEventTo, BumpCounter, PutEvent, Again, Error
      <4>3. QED
        BY <1>0, <4>1, <4>2
    <3>4. QED
      BY <1>2, <3>1, <3>2, <3>3 DEF Work
  <2>5. QED
    BY <2>1, <2>3, <2>4 DEF Types
<1>3. CASE HandleEvent
  <2>1. HandlerTypes'
    BY <1>0, <1>3, HandleEventKeepsHandlerTypes
  <2>2. UNCHANGED <<customerVars, refs, FFrom, FRecv, delivered>>
        /\ receiver' \in {"awake", "asleep", "woken"}
    BY <1>0, <1>3 DEF HandleEvent, SleepOnRing, PopEvent, StoreEvent, Signal, receiverVars,
       ReceiverTypes
  <2>3. QED
    BY <1>0, <2>1, <2>2 DEF Types, CustomerTypes, customerVars, ReceiverTypes
<1>4. CASE MReceiver
  <2>1. CustomerTypes'
    BY <1>0, <1>4 DEF MReceiver, WaitForData, WakeUp, Receive, CustomerTypes, customerVars
  <2>2. CASE Receive
    BY <1>0, <2>1, <2>2, ReceiveKeepsTypes DEF Types
  <2>3. CASE WaitForData \/ WakeUp
    BY <1>0, <2>1, <2>3 DEF WaitForData, WakeUp, Types, HandlerTypes, ReceiverTypes
  <2>4. QED
    BY <1>4, <2>2, <2>3 DEF MReceiver
<1>5. CASE UNCHANGED vars
  BY <1>0, <1>5 DEF vars, customerVars, receiverVars, Types, CustomerTypes, HandlerTypes,
     ReceiverTypes
<1>6. QED
  BY <1>1, <1>2, <1>3, <1>4, <1>5 DEF Next

-----------------------------------------------------------------------------
(* The use counts.  Every holder of a buffer is a sender, an event of the  *)
(* ring, the event in the hand of the handler or an event of FBuffers.     *)
Holders(o) == {w \in Workers : pc[w] # "idle" /\ offset[w] = o}
Holding(o) == {e \in Events : Holds(e, o)}
InHand(o) == IF Holds(hand, o) THEN 1 ELSE 0
Uses(o) == Cardinality(Holders(o)) + CountIn(ring, Holding(o)) + InHand(o)
             + CountIn(FBuffers, Holding(o))
Counted == \A o \in Offsets : refs[o] = Uses(o)

LEMMA UsesTypes ==
  ASSUME HandlerTypes, NEW o
  PROVE  /\ IsFiniteSet(Holders(o)) /\ Cardinality(Holders(o)) \in Nat
         /\ CountIn(ring, Holding(o)) \in Nat /\ CountIn(FBuffers, Holding(o)) \in Nat
         /\ InHand(o) \in {0, 1} /\ Uses(o) \in Nat
<1>1. Holders(o) \in SUBSET Workers
  BY DEF Holders
<1>2. IsFiniteSet(Holders(o)) /\ Cardinality(Holders(o)) \in Nat
  BY <1>1, SmChannelAssumption, FS_Subset, FS_CardinalityType
<1>3. ring \in Seq(Events) /\ FBuffers \in Seq(Events)
  BY DEF HandlerTypes
<1>4. CountIn(ring, Holding(o)) \in Nat /\ CountIn(FBuffers, Holding(o)) \in Nat
  BY <1>3, PositionsAreFinite
<1>5. InHand(o) \in {0, 1}
  BY DEF InHand
<1>6. QED
  BY <1>2, <1>4, <1>5 DEF Uses

LEMMA HeldIsCount ==
  ASSUME NEW s \in Seq(Events), NEW o
  PROVE  Held(s, o) = CountIn(s, Holding(o))
<1>1. \A i \in DOMAIN s : s[i] \in Events
  BY ElementOfSeq, LenProperties
<1>2. {i \in DOMAIN s : Holds(s[i], o)} = PositionsIn(s, Holding(o))
  BY <1>1 DEF PositionsIn, Holding
<1>3. QED
  BY <1>2 DEF Held, CountIn

LEMMA HeldInHand == \A x, o : Held(<<x>>, o) = IF Holds(x, o) THEN 1 ELSE 0
<1> SUFFICES ASSUME NEW x, NEW o PROVE Held(<<x>>, o) = IF Holds(x, o) THEN 1 ELSE 0
  OBVIOUS
<1> DEFINE P == {i \in DOMAIN <<x>> : Holds(<<x>>[i], o)}
<1>1. CASE Holds(x, o)
  <2>1. P = {1}
    BY <1>1
  <2>2. QED
    BY <1>1, <2>1, FS_Singleton DEF Held
<1>2. CASE ~Holds(x, o)
  <2>1. P = {}
    BY <1>2
  <2>2. QED
    BY <1>2, <2>1, FS_EmptySet DEF Held
<1>3. QED
  BY <1>1, <1>2

LEMMA CountedIsCounted == Types /\ Counted => TypeOK /\ BuffersAreCounted
<1> SUFFICES ASSUME Types, Counted PROVE TypeOK /\ BuffersAreCounted
  OBVIOUS
<1>1. ASSUME NEW o \in Offsets
      PROVE  /\ refs[o] \in Nat
             /\ refs[o] = Cardinality({w \in Workers : pc[w] # "idle" /\ offset[w] = o})
                          + Held(ring, o) + Held(<<hand>>, o) + Held(FBuffers, o)
  <2>1. refs[o] = Uses(o) /\ Uses(o) \in Nat
    BY UsesTypes DEF Counted, Types
  <2>2. Held(ring, o) = CountIn(ring, Holding(o)) /\ Held(FBuffers, o) = CountIn(FBuffers, Holding(o))
    BY HeldIsCount DEF Types, HandlerTypes
  <2>3. Held(<<hand>>, o) = InHand(o)
    BY HeldInHand DEF InHand
  <2>4. QED
    BY <2>1, <2>2, <2>3 DEF Uses, Holders
<1>2. BuffersAreCounted
  BY <1>1 DEF BuffersAreCounted
<1>3. refs \in [Offsets -> Nat]
  BY <1>1 DEF Types
<1>4. QED
  BY <1>2, <1>3 DEF TypeOK, Types, CustomerTypes, HandlerTypes, ReceiverTypes, Infos

LEMMA InitCounted == Init => Counted
<1> SUFFICES ASSUME Init, NEW o \in Offsets PROVE refs[o] = Uses(o)
  BY DEF Counted
<1>1. Holders(o) = {}
  BY DEF Init, Holders
<1>2. Cardinality(Holders(o)) = 0
  BY <1>1, FS_EmptySet
<1>3. ring = <<>> /\ FBuffers = <<>> /\ ~Holds(hand, o) /\ refs[o] = 0
  BY DEF Init, Holds
<1>4. CountIn(ring, Holding(o)) = 0 /\ CountIn(FBuffers, Holding(o)) = 0
  BY <1>3, EmptyCount
<1>5. QED
  BY <1>2, <1>3, <1>4 DEF Uses, InHand

(* Steps that change no holder.                                            *)
LEMMA QuietKeepsCounted ==
  ASSUME Counted, UNCHANGED <<ring, hand, FBuffers, refs>>,
         \A w \in Workers : /\ pc'[w] = "idle" <=> pc[w] = "idle"
                            /\ pc[w] # "idle" => offset'[w] = offset[w]
  PROVE  Counted'
<1> SUFFICES ASSUME NEW o \in Offsets PROVE refs'[o] = Uses(o)'
  BY DEF Counted
<1>1. Holders(o)' = Holders(o)
  BY DEF Holders
<1>2. QED
  BY <1>1 DEF Uses, InHand, Counted

(* A sender lets go of its buffer.                                         *)
LEMMA LeaveKeepsCounted ==
  ASSUME Types, Counted, NEW w \in Workers, pc[w] # "idle",
         refs' = [refs EXCEPT ![offset[w]] = @ - 1], pc' = [pc EXCEPT ![w] = "idle"],
         UNCHANGED <<offset, ring, hand, FBuffers>>
  PROVE  Counted'
<1> SUFFICES ASSUME NEW o \in Offsets PROVE refs'[o] = Uses(o)'
  BY DEF Counted
<1>1. offset[w] \in Offsets /\ refs \in [Offsets -> Int] /\ refs[o] = Uses(o)
  BY DEF Types, CustomerTypes, Counted
<1>2. Holders(o)' = IF o = offset[w] THEN Holders(o) \ {w} ELSE Holders(o)
  BY DEF Holders, Types, CustomerTypes
<1>3. o = offset[w] => w \in Holders(o)
  BY DEF Holders
<1>4. /\ IsFiniteSet(Holders(o)) /\ Cardinality(Holders(o)) \in Nat
      /\ CountIn(ring, Holding(o)) \in Nat /\ CountIn(FBuffers, Holding(o)) \in Nat
      /\ InHand(o) \in {0, 1}
  BY UsesTypes DEF Types
<1>5. Cardinality(Holders(o)') = IF o = offset[w] THEN Cardinality(Holders(o)) - 1
                                ELSE Cardinality(Holders(o))
  BY <1>2, <1>3, <1>4, FS_RemoveElement
<1>6. refs'[o] = IF o = offset[w] THEN refs[o] - 1 ELSE refs[o]
  BY <1>1
<1>7. Uses(o)' = Cardinality(Holders(o)') + CountIn(ring, Holding(o)) + InHand(o)
                   + CountIn(FBuffers, Holding(o))
  BY DEF Uses, InHand
<1>8. QED
  BY <1>1, <1>4, <1>5, <1>6, <1>7 DEF Uses

LEMMA BeginKeepsCounted ==
  ASSUME Types, Counted, NEW w \in Workers, pc[w] = "idle",
         NEW b \in Offsets, refs[b] = 0, refs' = [refs EXCEPT ![b] = 1],
         offset' = [offset EXCEPT ![w] = b], pc' = [pc EXCEPT ![w] = "read"],
         UNCHANGED <<ring, hand, FBuffers>>
  PROVE  Counted'
<1> SUFFICES ASSUME NEW o \in Offsets PROVE refs'[o] = Uses(o)'
  BY DEF Counted
<1>1. refs \in [Offsets -> Int] /\ refs[o] = Uses(o)
  BY DEF Types, Counted
<1>2. Holders(o)' = IF o = b THEN Holders(o) \cup {w} ELSE Holders(o)
  BY DEF Holders, Types, CustomerTypes
<1>3. w \notin Holders(o)
  BY DEF Holders
<1>4. /\ IsFiniteSet(Holders(o)) /\ Cardinality(Holders(o)) \in Nat
      /\ CountIn(ring, Holding(o)) \in Nat /\ CountIn(FBuffers, Holding(o)) \in Nat
      /\ InHand(o) \in {0, 1}
  BY UsesTypes DEF Types
<1>5. Cardinality(Holders(o)') = IF o = b THEN Cardinality(Holders(o)) + 1
                                ELSE Cardinality(Holders(o))
  BY <1>2, <1>3, <1>4, FS_AddElement
<1>6. refs'[o] = IF o = b THEN refs[o] + 1 ELSE refs[o]
  BY <1>1
<1>7. Uses(o)' = Cardinality(Holders(o)') + CountIn(ring, Holding(o)) + InHand(o)
                   + CountIn(FBuffers, Holding(o))
  BY DEF Uses, InHand
<1>8. QED
  BY <1>1, <1>4, <1>5, <1>6, <1>7 DEF Uses

(* The event takes a reference along, unless it is an E_SM_INFO.           *)
LEMMA PutKeepsCounted ==
  ASSUME Types, Counted, NEW w \in Workers, pc[w] = "put", PutEvent(w),
         UNCHANGED <<offset, hand, FBuffers>>
  PROVE  Counted'
<1> SUFFICES ASSUME NEW o \in Offsets PROVE refs'[o] = Uses(o)'
  BY DEF Counted
<1> DEFINE e == EventOf(w)
<1>1. e \in Events /\ ring \in Seq(Events) /\ ring' = Append(ring, e)
  BY EventOfType DEF Types, HandlerTypes, PutEvent, EventOf
<1>2. e \in Holding(o) <=> (part[w] # "E_SM_INFO" /\ o = offset[w])
  BY <1>1, NoneIsNoEvent DEF Holding, Holds, EventOf
<1> HIDE DEF e
<1>3. CountIn(ring', Holding(o)) =
        CountIn(ring, Holding(o)) + (IF e \in Holding(o) THEN 1 ELSE 0)
  BY <1>1, AppendCount
<1>4. Holders(o)' = Holders(o)
  BY DEF Holders, PutEvent, Types, CustomerTypes
<1>5. refs[o] = Uses(o) /\ refs \in [Offsets -> Int] /\ offset[w] \in Offsets
  BY DEF Counted, Types, CustomerTypes
<1>6. refs'[o] = IF e \in Holding(o) THEN refs[o] + 1 ELSE refs[o]
  BY <1>2, <1>5 DEF PutEvent
<1>7. /\ Cardinality(Holders(o)) \in Nat /\ CountIn(ring, Holding(o)) \in Nat
      /\ CountIn(FBuffers, Holding(o)) \in Nat /\ InHand(o) \in {0, 1}
  BY UsesTypes DEF Types
<1>8. Uses(o)' = Cardinality(Holders(o)) + CountIn(ring', Holding(o)) + InHand(o)
                   + CountIn(FBuffers, Holding(o))
  BY <1>4 DEF Uses, InHand
<1>9. QED
  BY <1>3, <1>5, <1>6, <1>7, <1>8 DEF Uses

(* The reference travels with the event, from the ring to FBuffers.        *)
LEMMA PopKeepsCounted ==
  ASSUME Types, Counted, PopEvent
  PROVE  Counted'
<1> SUFFICES ASSUME NEW o \in Offsets PROVE refs'[o] = Uses(o)'
  BY DEF Counted
<1>1. /\ ring \in Seq(Events) /\ ring # <<>> /\ ring' = Tail(ring) /\ hand' = Head(ring)
      /\ hand = None
  BY DEF Types, HandlerTypes, PopEvent
<1>2. CountIn(ring, Holding(o)) =
        CountIn(ring', Holding(o)) + (IF Head(ring) \in Holding(o) THEN 1 ELSE 0)
  BY <1>1, TailCount
<1>3. CountIn(ring', Holding(o)) \in Nat /\ Head(ring) \in Events
  <2>1. ring' \in Seq(Events) /\ Head(ring) \in Events
    BY <1>1, HeadTailProperties
  <2>2. QED
    BY <2>1, PositionsAreFinite
<1>4. InHand(o) = 0 /\ InHand(o)' = IF Head(ring) \in Holding(o) THEN 1 ELSE 0
  BY <1>1, <1>3 DEF InHand, Holds, Holding
<1>5. Holders(o)' = Holders(o)
  BY DEF Holders, PopEvent, customerVars
<1>6. refs'[o] = Uses(o)
  BY DEF Counted, PopEvent
<1>7. /\ Cardinality(Holders(o)) \in Nat /\ CountIn(ring, Holding(o)) \in Nat
      /\ CountIn(FBuffers, Holding(o)) \in Nat
  BY UsesTypes DEF Types
<1>8. Uses(o)' = Cardinality(Holders(o)) + CountIn(ring', Holding(o)) + InHand(o)'
                   + CountIn(FBuffers, Holding(o))
  BY <1>5 DEF Uses, PopEvent
<1>9. QED
  BY <1>2, <1>3, <1>4, <1>6, <1>7, <1>8 DEF Uses

LEMMA StoreKeepsCounted ==
  ASSUME Types, Counted, StoreEvent
  PROVE  Counted'
<1> SUFFICES ASSUME NEW o \in Offsets PROVE refs'[o] = Uses(o)'
  BY DEF Counted
<1>1. /\ FBuffers \in Seq(Events) /\ hand \in Events /\ FBuffers' = Append(FBuffers, hand)
      /\ hand' = None
  BY DEF Types, HandlerTypes, StoreEvent
<1>2. CountIn(FBuffers', Holding(o)) =
        CountIn(FBuffers, Holding(o)) + (IF hand \in Holding(o) THEN 1 ELSE 0)
  BY <1>1, AppendCount
<1>3. InHand(o)' = 0 /\ InHand(o) = IF hand \in Holding(o) THEN 1 ELSE 0
  BY <1>1 DEF InHand, Holds, Holding
<1>4. Holders(o)' = Holders(o)
  BY DEF Holders, StoreEvent, customerVars
<1>5. refs'[o] = Uses(o)
  BY DEF Counted, StoreEvent
<1>6. /\ Cardinality(Holders(o)) \in Nat /\ CountIn(ring, Holding(o)) \in Nat
      /\ CountIn(FBuffers, Holding(o)) \in Nat
  BY UsesTypes DEF Types
<1>7. Uses(o)' = Cardinality(Holders(o)) + CountIn(ring, Holding(o)) + InHand(o)'
                   + CountIn(FBuffers', Holding(o))
  BY <1>4 DEF Uses, StoreEvent
<1>8. QED
  BY <1>2, <1>3, <1>5, <1>6, <1>7 DEF Uses

(* MReceiveImpl lets go of the buffer of every part but E_SM_INFO.         *)
LEMMA ReceiveKeepsCounted ==
  ASSUME Types, Counted, Receive
  PROVE  Counted'
<1> SUFFICES ASSUME NEW o \in Offsets PROVE refs'[o] = Uses(o)'
  BY DEF Counted
<1> DEFINE e == Head(FBuffers)
<1>1. /\ FBuffers \in Seq(Events) /\ FBuffers # <<>> /\ FBuffers' = Tail(FBuffers)
      /\ MReceiveImpl(e)
  BY DEF Types, HandlerTypes, Receive
<1>2. /\ CountIn(FBuffers, Holding(o)) =
            CountIn(FBuffers', Holding(o)) + (IF e \in Holding(o) THEN 1 ELSE 0)
      /\ CountIn(FBuffers', Holding(o)) \in Nat /\ e \in Events
  <2>1. FBuffers' \in Seq(Events) /\ e \in Events
    BY <1>1, HeadTailProperties
  <2>2. QED
    BY <1>1, <2>1, TailCount, PositionsAreFinite
<1> HIDE DEF e
<1>3. e \in Holding(o) <=> (e.part # "E_SM_INFO" /\ o = e.offset)
  BY <1>2, NoneIsNoEvent DEF Holding, Holds
<1>4. e.part \in Parts /\ e.offset \in Offsets
  BY <1>2 DEF Events
<1>5. refs[o] = Uses(o) /\ refs \in [Offsets -> Int]
  BY DEF Counted, Types
<1>6. refs'[o] = IF e \in Holding(o) THEN refs[o] - 1 ELSE refs[o]
  BY <1>1, <1>3, <1>4, <1>5 DEF MReceiveImpl
<1>7. Holders(o)' = Holders(o)
  BY DEF Holders, Receive, customerVars
<1>8. /\ Cardinality(Holders(o)) \in Nat /\ CountIn(ring, Holding(o)) \in Nat
      /\ CountIn(FBuffers, Holding(o)) \in Nat /\ InHand(o) \in {0, 1}
  BY UsesTypes DEF Types
<1>9. Uses(o)' = Cardinality(Holders(o)) + CountIn(ring, Holding(o)) + InHand(o)
                   + CountIn(FBuffers', Holding(o))
  BY <1>7 DEF Uses, InHand, Receive
<1>10. QED
  BY <1>2, <1>5, <1>6, <1>8, <1>9 DEF Uses

LEMMA NextCounted == Types /\ Counted /\ [Next]_vars => Counted'
<1> SUFFICES ASSUME Types, Counted, [Next]_vars PROVE Counted'
  OBVIOUS
<1>0. pc \in [Workers -> {"idle", "read", "check", "put", "sent"}]
      /\ offset \in [Workers -> Offsets \cup {None}]
  BY DEF Types, CustomerTypes
<1>1. CASE MPush
  BY <1>1, QuietKeepsCounted DEF MPush
<1>2. ASSUME NEW w \in Workers, BeginSend(w) PROVE Counted'
  <2>1. pc[w] = "idle" /\ UNCHANGED <<ring, hand, FBuffers>>
    BY <1>2 DEF BeginSend
  <2>2. CASE UNCHANGED <<pc, part, offset, refs>>
    BY <2>1, <2>2, QuietKeepsCounted
  <2>3. ASSUME NEW o \in Offsets, refs[o] = 0, refs' = [refs EXCEPT ![o] = 1],
               offset' = [offset EXCEPT ![w] = o], pc' = [pc EXCEPT ![w] = "read"]
        PROVE  Counted'
    BY <2>1, <2>3, BeginKeepsCounted
  <2>4. QED
    BY <1>2, <2>2, <2>3 DEF BeginSend
<1>3. ASSUME NEW w \in Workers, ReadCounter(w) PROVE Counted'
  BY <1>0, <1>3, QuietKeepsCounted DEF ReadCounter
<1>4. ASSUME NEW w \in Workers, CheckOverload(w) \/ MInvokeEventTo(w) \/ BumpCounter(w)
      PROVE  Counted'
  <2>1. pc[w] # "idle" /\ UNCHANGED <<offset, hand, FBuffers>>
    BY <1>4 DEF CheckOverload, MInvokeEventTo, BumpCounter
  <2>2. CASE pc[w] = "put" /\ PutEvent(w)
    BY <2>1, <2>2, PutKeepsCounted
  <2>3. CASE refs' = [refs EXCEPT ![offset[w]] = @ - 1] /\ pc' = [pc EXCEPT ![w] = "idle"]
             /\ UNCHANGED ring
    BY <2>1, <2>3, LeaveKeepsCounted
  <2>4. CASE UNCHANGED <<refs, ring>> /\ \E l \in {"read", "put"} : pc' = [pc EXCEPT ![w] = l]
    BY <1>0, <2>1, <2>4, QuietKeepsCounted
  <2>5. QED
    BY <1>4, <2>2, <2>3, <2>4 DEF CheckOverload, MInvokeEventTo, BumpCounter, Again, Error
<1>5. CASE SleepOnRing \/ Signal \/ WaitForData \/ WakeUp
  BY <1>5, QuietKeepsCounted DEF SleepOnRing, Signal, WaitForData, WakeUp, customerVars
<1>6. CASE UNCHANGED vars
  BY <1>6, QuietKeepsCounted DEF vars, customerVars
<1>7. QED
  BY <1>1, <1>2, <1>3, <1>4, <1>5, <1>6, PopKeepsCounted, StoreKeepsCounted,
     ReceiveKeepsCounted
  DEF Next, Work, HandleEvent, MReceiver

(* The use count of a data buffer is the number of its holders, for any    *)
(* number of senders: no buffer is reused while a part of a message is on  *)
(* its way in it, none is leaked by a refused, repeated or given up send,  *)
(* and no count drops below zero.                                          *)
THEOREM BuffersAreCountedHolds == Spec => [](TypeOK /\ BuffersAreCounted)
BY InitTypes, NextTypes, InitCounted, NextCounted, CountedIsCounted, PTL DEF Spec

-----------------------------------------------------------------------------
(* The parts on their way to the receiver, oldest first: FBuffers, the     *)
(* event in the hand of the handler, the ring.                             *)
Stored == IF handler = "push" THEN Append(FBuffers, hand) ELSE FBuffers
Path == Stored \o ring

LEMMA PathType ==
  ASSUME HandlerTypes
  PROVE  /\ Stored \in Seq(Events) /\ Path \in Seq(Events)
         /\ Len(Path) \in Nat /\ \A i \in 1 .. Len(Path) : Path[i] \in Events
<1>1. Stored \in Seq(Events) /\ ring \in Seq(Events)
  BY AppendProperties DEF HandlerTypes, Stored
<1>2. Path \in Seq(Events)
  BY <1>1, ConcatProperties DEF Path
<1>3. QED
  BY <1>1, <1>2, ElementOfSeq, LenProperties

LEMMA FirstOfPath ==
  ASSUME HandlerTypes, FBuffers # <<>>
  PROVE  Path # <<>> /\ Head(Path) = Head(FBuffers)
<1>1. Stored \in Seq(Events) /\ ring \in Seq(Events) /\ FBuffers \in Seq(Events)
  BY PathType DEF HandlerTypes
<1>2. Stored # <<>> /\ Head(Stored) = Head(FBuffers)
  <2>1. CASE handler = "push"
    <3>1. hand \in Events
      BY <2>1 DEF HandlerTypes
    <3>2. QED
      BY <1>1, <2>1, <3>1, AppendProperties, HeadTailAppend DEF Stored
  <2>2. CASE handler # "push"
    BY <2>2 DEF Stored
  <2>3. QED
    BY <2>1, <2>2
<1>3. QED
  BY <1>1, <1>2, TakeFromRow DEF Path

(* What a step does to the path.                                           *)
LEMMA PutPath ==
  ASSUME Types, NEW w \in Workers, pc[w] = "put", PutEvent(w), UNCHANGED <<hand, FBuffers>>
  PROVE  EventOf(w) \in Events /\ Path' = Append(Path, EventOf(w))
<1>1. EventOf(w) \in Events /\ ring' = Append(ring, EventOf(w))
  BY EventOfType DEF Types, PutEvent, EventOf
<1>2. Stored' = Stored
  BY DEF PutEvent, Stored, Types, HandlerTypes
<1>3. Stored \in Seq(Events) /\ ring \in Seq(Events)
  BY PathType DEF Types, HandlerTypes
<1>4. Stored \o Append(ring, EventOf(w)) = Append(Stored \o ring, EventOf(w))
  BY <1>1, <1>3, AppendToRow
<1>5. QED
  BY <1>1, <1>2, <1>4 DEF Path

LEMMA HandlePath ==
  ASSUME Types, HandleEvent
  PROVE  Path' = Path
<1>1. CASE PopEvent
  <2>1. /\ Stored = FBuffers /\ Stored' = Append(FBuffers, Head(ring))
        /\ FBuffers \in Seq(Events) /\ ring \in Seq(Events) /\ ring # <<>> /\ ring' = Tail(ring)
    BY <1>1 DEF PopEvent, Stored, Types, HandlerTypes
  <2>2. Append(FBuffers, Head(ring)) \o Tail(ring) = FBuffers \o ring
    BY <2>1, MoveAlongRow
  <2>3. QED
    BY <2>1, <2>2 DEF Path
<1>2. CASE StoreEvent
  BY <1>2 DEF StoreEvent, Stored, Path
<1>3. CASE SleepOnRing \/ Signal
  BY <1>3 DEF SleepOnRing, Signal, Stored, Path
<1>4. QED
  BY <1>1, <1>2, <1>3 DEF HandleEvent

LEMMA ReceivePath ==
  ASSUME Types, Receive
  PROVE  /\ Path # <<>> /\ Path' = Tail(Path) /\ Head(Path) \in Events
         /\ FFrom' = Head(Path).counter /\ MReceiveImpl(Head(Path))
<1>1. FBuffers # <<>> /\ FBuffers' = Tail(FBuffers) /\ UNCHANGED <<handler, hand, ring>>
  BY DEF Receive
<1>2. /\ Stored \in Seq(Events) /\ ring \in Seq(Events) /\ FBuffers \in Seq(Events)
      /\ Path \in Seq(Events) /\ HandlerTypes
  BY PathType DEF Types, HandlerTypes
<1>3. Stored # <<>> /\ Stored' = Tail(Stored)
  <2>1. CASE handler = "push"
    <3>1. hand \in Events
      BY <2>1 DEF Types, HandlerTypes
    <3>2. Stored = Append(FBuffers, hand) /\ Stored' = Append(Tail(FBuffers), hand)
      BY <1>1, <2>1 DEF Stored
    <3>3. QED
      BY <1>1, <1>2, <3>1, <3>2, AppendProperties, HeadTailAppend
  <2>2. CASE handler # "push"
    BY <1>1, <2>2 DEF Stored
  <2>3. QED
    BY <2>1, <2>2
<1>4. Path' = Tail(Path)
  BY <1>1, <1>2, <1>3, TakeFromRow DEF Path
<1>5. Path # <<>> /\ Head(Path) = Head(FBuffers)
  BY <1>1, <1>2, FirstOfPath
<1>6. Head(Path) \in Events
  BY <1>2, <1>5, HeadTailProperties
<1>7. QED
  BY <1>4, <1>5, <1>6 DEF Receive

LEMMA QuietPath == UNCHANGED <<FBuffers, ring, hand, handler>> => Path' = Path
BY DEF Path, Stored

(* The positions of a path that grows or shrinks.                          *)
LEMMA GrownPath ==
  ASSUME NEW s \in Seq(Events), NEW e \in Events, NEW t, t = Append(s, e)
  PROVE  /\ Len(s) \in Nat /\ Len(t) = Len(s) + 1 /\ t # <<>> /\ t[Len(s) + 1] = e
         /\ \A i \in 1 .. Len(s) : t[i] = s[i]
         /\ s = <<>> <=> Len(s) = 0
BY AppendProperties, LenProperties, EmptySeq

LEMMA ShrunkPath ==
  ASSUME NEW s \in Seq(Events), s # <<>>, NEW t, t = Tail(s)
  PROVE  /\ Len(s) \in Nat \ {0} /\ Len(t) = Len(s) - 1 /\ Head(s) = s[1]
         /\ \A i \in 1 .. Len(s) - 1 : t[i] = s[i + 1]
         /\ t = <<>> <=> Len(s) = 1
<1>1. /\ Len(s) \in Nat \ {0} /\ Len(t) = Len(s) - 1 /\ Head(s) = s[1]
      /\ \A i \in 1 .. Len(s) - 1 : t[i] = s[i + 1]
      /\ t \in Seq(Events)
  BY HeadTailProperties, EmptySeq
<1>2. t = <<>> <=> Len(t) = 0
  BY <1>1, EmptySeq
<1>3. QED
  BY <1>1, <1>2

-----------------------------------------------------------------------------
(* One sender.  The parts on the path carry consecutive counters, FFrom is *)
(* the one before them and FTo the one behind.                             *)
Alone == \A v, w \in Workers : v = w

Before(i) == IF i = 1 THEN FFrom ELSE Path[i - 1].counter
LastSent == IF Path = <<>> THEN FFrom ELSE Path[Len(Path)].counter

Consecutive == \A i \in 1 .. Len(Path) : Path[i].counter = NextCounter(Before(i))

NextToSend ==
  \A w \in Workers :
    /\ pc[w] \in {"check", "put", "sent"} => mask[w] = FTo
    /\ FTo = IF pc[w] = "sent" THEN LastSent ELSE NextCounter(LastSent)

Chain == Consecutive /\ NextToSend

LEMMA InitPath == Init => Path = <<>>
<1> SUFFICES ASSUME Init PROVE Path = <<>>
  OBVIOUS
<1>1. Stored = <<>> /\ ring = <<>>
  BY DEF Init, Stored
<1>2. QED
  BY <1>1, ConcatEmptySeq, EmptySeq DEF Path

LEMMA InitChain == Init => Chain
<1> SUFFICES ASSUME Init PROVE Chain
  OBVIOUS
<1>1. Path = <<>>
  BY InitPath
<1>2. NextCounter(0) = 1
  BY SmChannelAssumption DEF NextCounter
<1>3. QED
  BY <1>1, <1>2 DEF Chain, Consecutive, NextToSend, LastSent, Init

(* Steps that neither put nor receive, of a sender that has not just sent. *)
LEMMA QuietKeepsChain ==
  ASSUME Chain, Path' = Path, UNCHANGED <<FFrom, FTo>>,
         \A w \in Workers : /\ pc'[w] = "sent" <=> pc[w] = "sent"
                            /\ pc'[w] \in {"check", "put", "sent"} => mask'[w] = FTo
  PROVE  Chain'
BY DEF Chain, Consecutive, NextToSend, LastSent, Before

LEMMA PutKeepsChain ==
  ASSUME Alone, Types, Chain, NEW w \in Workers, pc[w] = "put", PutEvent(w),
         UNCHANGED <<hand, FBuffers, FFrom, FTo, mask>>
  PROVE  Chain'
<1> DEFINE n == Len(Path)
<1>1. EventOf(w) \in Events /\ Path' = Append(Path, EventOf(w)) /\ Path \in Seq(Events)
  BY PutPath, PathType DEF Types
<1>2. /\ n \in Nat /\ Len(Path') = n + 1 /\ Path' # <<>> /\ Path'[n + 1] = EventOf(w)
      /\ \A i \in 1 .. n : Path'[i] = Path[i]
      /\ Path = <<>> <=> n = 0
  BY <1>1, GrownPath
<1>3. EventOf(w).counter = FTo /\ FTo = NextCounter(LastSent) /\ mask[w] = FTo
  BY DEF Chain, NextToSend, EventOf
<1>4. Consecutive'
  <2> SUFFICES ASSUME NEW i \in 1 .. n + 1
               PROVE  Path'[i].counter = NextCounter(Before(i)')
    BY <1>2 DEF Consecutive
  <2>1. CASE i = n + 1
    <3>1. Before(i)' = LastSent
      BY <1>2, <2>1 DEF Before, LastSent
    <3>2. QED
      BY <1>2, <1>3, <2>1, <3>1
  <2>2. CASE i # n + 1
    <3>1. i \in 1 .. n /\ (i # 1 => i - 1 \in 1 .. n)
      BY <1>2, <2>2
    <3>2. Before(i)' = Before(i)
      BY <1>2, <3>1 DEF Before
    <3>3. QED
      BY <1>2, <3>1, <3>2 DEF Chain, Consecutive
  <2>3. QED
    BY <2>1, <2>2
<1>5. LastSent' = FTo
  BY <1>2, <1>3 DEF LastSent
<1>6. \A v \in Workers : v = w /\ pc'[v] = "sent" /\ mask'[v] = FTo
  BY <1>3 DEF Alone, PutEvent, Types, CustomerTypes
<1>7. NextToSend'
  BY <1>5, <1>6 DEF NextToSend
<1>8. QED
  BY <1>4, <1>7 DEF Chain

LEMMA ReceiveKeepsChain ==
  ASSUME Types, Chain, Receive
  PROVE  Chain'
<1> DEFINE n == Len(Path)
<1>1. /\ Path # <<>> /\ Path' = Tail(Path) /\ FFrom' = Head(Path).counter
      /\ Path \in Seq(Events)
  BY ReceivePath, PathType DEF Types
<1>2. /\ n \in Nat \ {0} /\ Len(Path') = n - 1 /\ Head(Path) = Path[1]
      /\ \A i \in 1 .. n - 1 : Path'[i] = Path[i + 1]
      /\ Path' = <<>> <=> n = 1
  BY <1>1, ShrunkPath
<1>3. Consecutive'
  <2> SUFFICES ASSUME NEW i \in 1 .. n - 1
               PROVE  Path'[i].counter = NextCounter(Before(i)')
    BY <1>2 DEF Consecutive
  <2>1. i + 1 \in 1 .. n /\ i + 1 # 1 /\ (i + 1) - 1 = i
    BY <1>2
  <2>2. Before(i)' = Path[i].counter
    <3>1. CASE i = 1
      BY <1>1, <1>2, <3>1 DEF Before
    <3>2. CASE i # 1
      <4>1. i - 1 \in 1 .. n - 1 /\ (i - 1) + 1 = i
        BY <1>2, <3>2
      <4>2. QED
        BY <1>2, <3>2, <4>1 DEF Before
    <3>3. QED
      BY <3>1, <3>2
  <2>3. Before(i + 1) = Path[i].counter
    BY <2>1 DEF Before
  <2>4. QED
    BY <1>2, <2>1, <2>2, <2>3 DEF Chain, Consecutive
<1>4. LastSent' = LastSent
  <2>1. LastSent = Path[n].counter
    BY <1>1 DEF LastSent
  <2>2. CASE n = 1
    BY <1>1, <1>2, <2>1, <2>2 DEF LastSent
  <2>3. CASE n # 1
    <3>1. n - 1 \in 1 .. n - 1 /\ (n - 1) + 1 = n
      BY <1>2, <2>3
    <3>2. QED
      BY <1>2, <2>1, <2>3, <3>1 DEF LastSent
  <2>4. QED
    BY <2>2, <2>3
<1>5. NextToSend'
  BY <1>4 DEF Chain, NextToSend, Receive, customerVars
<1>6. QED
  BY <1>3, <1>5 DEF Chain

LEMMA NextChain ==
  ASSUME Alone
  PROVE  Types /\ Chain /\ [Next]_vars => Chain'
<1> SUFFICES ASSUME Types, Chain, [Next]_vars PROVE Chain'
  OBVIOUS
<1>0. /\ pc \in [Workers -> {"idle", "read", "check", "put", "sent"}]
      /\ mask \in [Workers -> Counters]
      /\ \A w \in Workers : pc[w] \in {"check", "put", "sent"} => mask[w] = FTo
  BY DEF Types, CustomerTypes, Chain, NextToSend
<1>1. CASE MPush
  BY <1>0, <1>1, QuietPath, QuietKeepsChain DEF MPush, receiverVars
<1>2. ASSUME NEW w \in Workers, Work(w) PROVE Chain'
  <2>1. CASE BeginSend(w) \/ ReadCounter(w) \/ CheckOverload(w)
    <3>1. UNCHANGED <<FBuffers, ring, hand, handler, FFrom, FTo>>
      BY <2>1 DEF BeginSend, ReadCounter, CheckOverload, receiverVars
    <3>2. ASSUME NEW v \in Workers
          PROVE  /\ pc'[v] = "sent" <=> pc[v] = "sent"
                 /\ pc'[v] \in {"check", "put", "sent"} => mask'[v] = FTo
      BY <1>0, <2>1 DEF BeginSend, ReadCounter, CheckOverload, Again, Error
    <3>3. QED
      BY <3>1, <3>2, QuietPath, QuietKeepsChain
  <2>2. CASE MInvokeEventTo(w)
    <3>1. pc[w] = "put" /\ UNCHANGED <<hand, FBuffers, FFrom, FTo, mask>>
      BY <2>2 DEF MInvokeEventTo, receiverVars
    <3>2. CASE PutEvent(w)
      BY <3>1, <3>2, PutKeepsChain
    <3>3. CASE UNCHANGED <<ring, handler>> /\ \E l \in {"read", "idle"} : pc' = [pc EXCEPT ![w] = l]
      BY <1>0, <3>1, <3>3, QuietPath, QuietKeepsChain
    <3>4. QED
      BY <2>2, <3>2, <3>3 DEF MInvokeEventTo, Again, Error
  <2>3. CASE BumpCounter(w)
    <3>1. /\ pc[w] = "sent" /\ FTo' = NextCounter(mask[w])
          /\ UNCHANGED <<FBuffers, ring, hand, handler, FFrom, mask>>
          /\ \E l \in {"read", "idle"} : pc' = [pc EXCEPT ![w] = l]
      BY <2>3 DEF BumpCounter, receiverVars
    <3>2. Path' = Path
      BY <3>1, QuietPath
    <3>3. FTo = LastSent /\ mask[w] = FTo /\ LastSent' = LastSent
      BY <3>1, <3>2 DEF Chain, NextToSend, LastSent
    <3>4. \A v \in Workers : v = w /\ pc'[v] \in {"read", "idle"}
      BY <1>0, <3>1 DEF Alone
    <3>5. NextToSend'
      BY <3>1, <3>3, <3>4 DEF NextToSend
    <3>6. Consecutive'
      BY <3>1, <3>2 DEF Chain, Consecutive, Before
    <3>7. QED
      BY <3>5, <3>6 DEF Chain
  <2>4. QED
    BY <1>2, <2>1, <2>2, <2>3 DEF Work
<1>3. CASE HandleEvent
  <2>1. UNCHANGED <<FFrom, FTo, pc, mask>>
    BY <1>3 DEF HandleEvent, SleepOnRing, PopEvent, StoreEvent, Signal, customerVars,
       receiverVars
  <2>2. QED
    BY <1>0, <1>3, <2>1, HandlePath, QuietKeepsChain
<1>4. CASE WaitForData \/ WakeUp
  BY <1>0, <1>4, QuietPath, QuietKeepsChain DEF WaitForData, WakeUp, customerVars
<1>5. CASE UNCHANGED vars
  BY <1>0, <1>5, QuietPath, QuietKeepsChain DEF vars, customerVars, receiverVars
<1>6. QED
  BY <1>1, <1>2, <1>3, <1>4, <1>5, ReceiveKeepsChain DEF Next, MReceiver

(* With one sender the kernel never finds a part out of sequence, whatever *)
(* was refused, sent again or given up, and however often the counter      *)
(* wraps around.                                                           *)
THEOREM SequenceIsKeptHolds ==
  ASSUME Alone
  PROVE  Spec => []SequenceIsKept
<1>1. Types /\ Chain => SequenceIsKept
  <2> SUFFICES ASSUME Types, Chain, FBuffers # <<>>
               PROVE  Head(FBuffers).counter = NextCounter(FFrom)
    BY DEF SequenceIsKept
  <2>1. Path # <<>> /\ Head(Path) = Head(FBuffers) /\ Path \in Seq(Events)
    BY FirstOfPath, PathType DEF Types
  <2>2. 1 \in 1 .. Len(Path) /\ Head(Path) = Path[1]
    BY <2>1, EmptySeq
  <2>3. QED
    BY <2>1, <2>2 DEF Chain, Consecutive, Before
<1>2. QED
  BY <1>1, InitTypes, NextTypes, InitChain, NextChain, PTL DEF Spec

-----------------------------------------------------------------------------
(* One sender.  A data part directly follows the part that announced it,   *)
(* on the path or as the last thing the receiver noted.                    *)
Info(e, o, m) == e.part = "E_SM_INFO" /\ e.offset = o /\ e.msg = m

DataFollowsInfo ==
  \A i \in 1 .. Len(Path) : Path[i].part = "E_SM_DATA" =>
    IF i = 1 THEN FRecv[Path[i].offset] = Path[i].msg
             ELSE Info(Path[i - 1], Path[i].offset, Path[i].msg)

(* The sender has sent the info of its message and not the data.           *)
Owes(w) ==
  \/ part[w] = "E_SM_DATA" /\ pc[w] \in {"read", "check", "put"}
  \/ part[w] = "E_SM_INFO" /\ pc[w] = "sent"

InfoWaits ==
  \A w \in Workers : Owes(w) =>
    IF Path = <<>> THEN FRecv[offset[w]] = msg[w]
                   ELSE Info(Path[Len(Path)], offset[w], msg[w])

Announced == InfoFitsData /\ DataFollowsInfo /\ InfoWaits

LEMMA InitAnnounced == Init => Announced
<1> SUFFICES ASSUME Init PROVE Announced
  OBVIOUS
<1>1. Path = <<>> /\ Len(Path) = 0
  BY InitPath, EmptySeq
<1>2. \A w \in Workers : ~Owes(w)
  BY DEF Init, Owes
<1>3. delivered = <<>>
  BY DEF Init
<1>4. QED
  BY <1>1, <1>2, <1>3 DEF Announced, InfoFitsData, DataFollowsInfo, InfoWaits

LEMMA QuietKeepsAnnounced ==
  ASSUME Announced, Path' = Path, UNCHANGED <<FRecv, delivered>>,
         \A w \in Workers : Owes(w)' => Owes(w) /\ offset'[w] = offset[w] /\ msg'[w] = msg[w]
  PROVE  Announced'
<1>1. InfoFitsData' /\ DataFollowsInfo'
  BY DEF Announced, InfoFitsData, DataFollowsInfo
<1>2. InfoWaits'
  BY DEF Announced, InfoWaits
<1>3. QED
  BY <1>1, <1>2 DEF Announced

LEMMA PutKeepsAnnounced ==
  ASSUME Alone, Types, Announced, NEW w \in Workers, pc[w] = "put", PutEvent(w),
         UNCHANGED <<hand, FBuffers, FRecv, delivered, part, msg, offset>>
  PROVE  Announced'
<1> DEFINE n == Len(Path)
           e == EventOf(w)
<1>1. e \in Events /\ Path' = Append(Path, e) /\ Path \in Seq(Events)
  BY PutPath, PathType DEF Types
<1>2. /\ n \in Nat /\ Len(Path') = n + 1 /\ Path' # <<>> /\ Path'[n + 1] = e
      /\ \A i \in 1 .. n : Path'[i] = Path[i]
      /\ Path = <<>> <=> n = 0
  BY <1>1, GrownPath
<1>3. e.part = part[w] /\ e.offset = offset[w] /\ e.msg = msg[w]
  BY DEF EventOf
<1> HIDE DEF e
<1>4. DataFollowsInfo'
  <2> SUFFICES ASSUME NEW i \in 1 .. n + 1, Path'[i].part = "E_SM_DATA"
               PROVE  IF i = 1 THEN FRecv[Path'[i].offset] = Path'[i].msg
                      ELSE Info(Path'[i - 1], Path'[i].offset, Path'[i].msg)
    BY <1>2 DEF DataFollowsInfo, Info
  <2>1. CASE i = n + 1
    <3>1. Owes(w)
      BY <1>2, <1>3, <2>1 DEF Owes
    <3>2. CASE n = 0
      BY <1>2, <1>3, <2>1, <3>1, <3>2 DEF Announced, InfoWaits
    <3>3. CASE n # 0
      <4>1. Info(Path[n], offset[w], msg[w])
        BY <1>2, <3>1, <3>3 DEF Announced, InfoWaits
      <4>2. i # 1 /\ i - 1 = n /\ n \in 1 .. n
        BY <1>2, <2>1, <3>3
      <4>3. QED
        BY <1>2, <1>3, <2>1, <4>1, <4>2
    <3>4. QED
      BY <3>2, <3>3
  <2>2. CASE i # n + 1
    <3>1. i \in 1 .. n /\ (i # 1 => i - 1 \in 1 .. n)
      BY <1>2, <2>2
    <3>2. QED
      BY <1>2, <3>1 DEF Announced, DataFollowsInfo
  <2>3. QED
    BY <2>1, <2>2
<1>5. InfoWaits'
  <2>1. \A v \in Workers : v = w /\ pc'[v] = "sent"
    BY DEF Alone, PutEvent, Types, CustomerTypes
  <2>2. \A v \in Workers : Owes(v)' => part[v] = "E_SM_INFO"
    BY <2>1 DEF Owes
  <2>3. QED
    BY <1>2, <1>3, <2>1, <2>2 DEF InfoWaits, Info
<1>6. InfoFitsData'
  BY DEF Announced, InfoFitsData
<1>7. QED
  BY <1>4, <1>5, <1>6 DEF Announced

LEMMA ReceiveKeepsAnnounced ==
  ASSUME Types, Announced, Receive
  PROVE  Announced'
<1> DEFINE n == Len(Path)
           e == Path[1]
<1>1. /\ Path # <<>> /\ Path' = Tail(Path) /\ MReceiveImpl(Head(Path)) /\ Head(Path) \in Events
      /\ Path \in Seq(Events)
  BY ReceivePath, PathType DEF Types
<1>2. /\ n \in Nat \ {0} /\ Len(Path') = n - 1 /\ Head(Path) = e
      /\ \A i \in 1 .. n - 1 : Path'[i] = Path[i + 1]
      /\ Path' = <<>> <=> n = 1
  BY <1>1, ShrunkPath
<1>3. /\ MReceiveImpl(e) /\ e.part \in Parts /\ e.offset \in Offsets /\ e.msg \in Messages
      /\ FRecv \in [Offsets -> Infos]
      /\ delivered \in Seq(Infos \X Messages)
      /\ UNCHANGED <<pc, part, msg, offset>>
  BY <1>1, <1>2 DEF Events, Types, ReceiverTypes, Receive, customerVars
<1>4. e.part = "E_SM_DATA" => FRecv[e.offset] = e.msg
  BY <1>2 DEF Announced, DataFollowsInfo
<1>5. e.part = "E_SM_INFO" => FRecv' = [FRecv EXCEPT ![e.offset] = e.msg]
  BY <1>3 DEF MReceiveImpl, NoteInfo
<1> HIDE DEF e
(* The part behind the first, on the path or owed by the sender.           *)
<1>6. ASSUME NEW o, NEW m, Info(e, o, m) PROVE FRecv'[o] = m
  BY <1>3, <1>5, <1>6 DEF Info
<1>7. DataFollowsInfo'
  <2> SUFFICES ASSUME NEW i \in 1 .. n - 1, Path'[i].part = "E_SM_DATA"
               PROVE  IF i = 1 THEN FRecv'[Path'[i].offset] = Path'[i].msg
                      ELSE Info(Path'[i - 1], Path'[i].offset, Path'[i].msg)
    BY <1>2 DEF DataFollowsInfo, Info
  <2>1. i + 1 \in 1 .. n /\ i + 1 # 1 /\ (i + 1) - 1 = i /\ Path'[i] = Path[i + 1]
    BY <1>2
  <2>2. Info(Path[i], Path'[i].offset, Path'[i].msg)
    BY <2>1 DEF Announced, DataFollowsInfo
  <2>3. CASE i = 1
    BY <1>6, <2>2, <2>3 DEF e
  <2>4. CASE i # 1
    <3>1. i - 1 \in 1 .. n - 1 /\ (i - 1) + 1 = i
      BY <1>2, <2>4
    <3>2. Path'[i - 1] = Path[i]
      BY <1>2, <3>1
    <3>3. QED
      BY <2>2, <2>4, <3>2
  <2>5. QED
    BY <2>3, <2>4
<1>8. InfoWaits'
  <2> SUFFICES ASSUME NEW w \in Workers, Owes(w)
               PROVE  IF n = 1 THEN FRecv'[offset[w]] = msg[w]
                      ELSE Info(Path'[n - 1], offset[w], msg[w])
    BY <1>2, <1>3 DEF InfoWaits, Owes, Info
  <2>1. Info(Path[n], offset[w], msg[w])
    BY <1>1 DEF Announced, InfoWaits
  <2>2. CASE n = 1
    BY <1>6, <2>1, <2>2 DEF e
  <2>3. CASE n # 1
    <3>1. n - 1 \in 1 .. n - 1 /\ (n - 1) + 1 = n
      BY <1>2, <2>3
    <3>2. QED
      BY <1>2, <2>1, <2>3, <3>1
  <2>4. QED
    BY <2>2, <2>3
<1>9. InfoFitsData'
  <2> DEFINE D == Infos \X Messages
  <2>1. \/ delivered' = delivered
        \/ delivered' = Append(delivered, <<e.msg, e.msg>>)
    BY <1>3, <1>4 DEF MReceiveImpl
  <2>2. <<e.msg, e.msg>> \in D /\ delivered \in Seq(D)
    BY <1>3, SmChannelAssumption DEF Messages, Infos
  <2> HIDE DEF D
  <2>3. \A i \in DOMAIN delivered : delivered[i][1] = delivered[i][2]
    BY DEF Announced, InfoFitsData
  <2>4. CASE delivered' = Append(delivered, <<e.msg, e.msg>>)
    <3>1. /\ DOMAIN delivered' = 1 .. Len(delivered) + 1 /\ DOMAIN delivered = 1 .. Len(delivered)
          /\ Len(delivered) \in Nat
          /\ delivered'[Len(delivered) + 1] = <<e.msg, e.msg>>
          /\ \A i \in 1 .. Len(delivered) : delivered'[i] = delivered[i]
      BY <2>2, <2>4, AppendProperties, LenProperties
    <3>2. QED
      BY <2>3, <3>1 DEF InfoFitsData
  <2>5. QED
    BY <2>1, <2>3, <2>4 DEF InfoFitsData
<1>10. QED
  BY <1>7, <1>8, <1>9 DEF Announced

LEMMA NextAnnounced ==
  ASSUME Alone
  PROVE  Types /\ Announced /\ [Next]_vars => Announced'
<1> SUFFICES ASSUME Types, Announced, [Next]_vars PROVE Announced'
  OBVIOUS
<1>0. /\ pc \in [Workers -> {"idle", "read", "check", "put", "sent"}]
      /\ part \in [Workers -> Parts]
      /\ msg \in [Workers -> Infos]
      /\ offset \in [Workers -> Offsets \cup {None}]
  BY DEF Types, CustomerTypes
<1>1. CASE MPush
  BY <1>1, QuietPath, QuietKeepsAnnounced DEF MPush, receiverVars, Owes
<1>2. ASSUME NEW w \in Workers, Work(w) PROVE Announced'
  <2>1. ASSUME UNCHANGED <<FBuffers, ring, hand, handler, FRecv, delivered>>,
               \A v \in Workers :
                 Owes(v)' => Owes(v) /\ offset'[v] = offset[v] /\ msg'[v] = msg[v]
        PROVE  Announced'
    BY <2>1, QuietPath, QuietKeepsAnnounced
  <2>2. CASE BeginSend(w)
    <3>1. UNCHANGED <<FBuffers, ring, hand, handler, FRecv, delivered>>
      BY <2>2 DEF BeginSend, receiverVars
    <3>2. ASSUME NEW v \in Workers, Owes(v)'
          PROVE  Owes(v) /\ offset'[v] = offset[v] /\ msg'[v] = msg[v]
      <4>1. v # w
        BY <1>0, <2>2, <3>2 DEF BeginSend, Owes
      <4>2. QED
        BY <1>0, <2>2, <3>2, <4>1 DEF BeginSend, Owes
    <3>3. QED
      BY <2>1, <3>1, <3>2
  <2>3. CASE ReadCounter(w) \/ CheckOverload(w)
    <3>1. UNCHANGED <<FBuffers, ring, hand, handler, FRecv, delivered, part, offset, msg>>
      BY <2>3 DEF ReadCounter, CheckOverload, receiverVars
    <3>2. \A v \in Workers : Owes(v)' => Owes(v)
      BY <1>0, <2>3 DEF ReadCounter, CheckOverload, Again, Error, Owes
    <3>3. QED
      BY <2>1, <3>1, <3>2
  <2>4. CASE MInvokeEventTo(w)
    <3>1. pc[w] = "put" /\ UNCHANGED <<hand, FBuffers, FRecv, delivered, part, msg, offset>>
      BY <2>4 DEF MInvokeEventTo, receiverVars
    <3>2. CASE PutEvent(w)
      BY <3>1, <3>2, PutKeepsAnnounced
    <3>3. CASE UNCHANGED <<ring, handler>> /\ \E l \in {"read", "idle"} : pc' = [pc EXCEPT ![w] = l]
      <4>1. \A v \in Workers : Owes(v)' => Owes(v)
        BY <1>0, <3>1, <3>3 DEF Owes
      <4>2. QED
        BY <2>1, <3>1, <3>3, <4>1
    <3>4. QED
      BY <2>4, <3>2, <3>3 DEF MInvokeEventTo, Again, Error
  <2>5. CASE BumpCounter(w)
    <3>1. UNCHANGED <<FBuffers, ring, hand, handler, FRecv, delivered, offset, msg>>
      BY <2>5 DEF BumpCounter, receiverVars
    <3>2. \A v \in Workers : Owes(v)' => Owes(v)
      BY <1>0, <2>5 DEF BumpCounter, Owes
    <3>3. QED
      BY <2>1, <3>1, <3>2
  <2>6. QED
    BY <1>2, <2>2, <2>3, <2>4, <2>5 DEF Work
<1>3. CASE HandleEvent
  <2>1. UNCHANGED <<FRecv, delivered, pc, part, msg, offset>>
    BY <1>3 DEF HandleEvent, SleepOnRing, PopEvent, StoreEvent, Signal, customerVars,
       receiverVars
  <2>2. QED
    BY <1>3, <2>1, HandlePath, QuietKeepsAnnounced DEF Owes
<1>4. CASE WaitForData \/ WakeUp
  BY <1>4, QuietPath, QuietKeepsAnnounced DEF WaitForData, WakeUp, customerVars, Owes
<1>5. CASE UNCHANGED vars
  BY <1>5, QuietPath, QuietKeepsAnnounced DEF vars, customerVars, receiverVars, Owes
<1>6. QED
  BY <1>1, <1>2, <1>3, <1>4, <1>5, ReceiveKeepsAnnounced DEF Next, MReceiver

(* With one sender every data buffer is joined to the info sent for it,    *)
(* also at an offset where an abandoned message left its info in FRecv.    *)
THEOREM InfoFitsDataHolds ==
  ASSUME Alone
  PROVE  Spec => []InfoFitsData
<1>1. Announced => InfoFitsData
  BY DEF Announced
<1>2. QED
  BY <1>1, InitTypes, NextTypes, InitAnnounced, NextAnnounced, PTL DEF Spec

-----------------------------------------------------------------------------
(* One sender.  The messages delivered, those whose data is on the path,   *)
(* the one in the hands of the sender and those of the queue increase.     *)
Carries(e) == e.part # "E_SM_INFO"

AllBelow(m) ==
  /\ \A k \in 1 .. Len(delivered) : delivered[k][2] < m
  /\ \A i \in 1 .. Len(Path) : Carries(Path[i]) => Path[i].msg < m

PathInOrder ==
  \A i \in 1 .. Len(Path) : Carries(Path[i]) =>
    /\ Path[i].msg \notin failed
    /\ \A k \in 1 .. Len(delivered) : delivered[k][2] < Path[i].msg
    /\ \A j \in 1 .. i - 1 : Carries(Path[j]) => Path[j].msg < Path[i].msg

(* The data of the sender's message is sent, or it has none.               *)
Done(w) == pc[w] = "idle" \/ (pc[w] = "sent" /\ part[w] # "E_SM_INFO")

SenderInOrder ==
  \A w \in Workers :
    /\ AllBelow(IF Done(w) THEN msg[w] + 1 ELSE msg[w])
    /\ \A m \in failed : m <= msg[w]
    /\ pc[w] # "idle" => msg[w] \notin failed
    /\ \A i \in 1 .. Len(FOutUserDataFIFO) : msg[w] < FOutUserDataFIFO[i]
    /\ msg[w] <= pushed

QueueInOrder ==
  \A i \in 1 .. Len(FOutUserDataFIFO) :
    /\ FOutUserDataFIFO[i] <= pushed
    /\ \A j \in 1 .. i - 1 : FOutUserDataFIFO[j] < FOutUserDataFIFO[i]

Ordered == DeliveredInOrder /\ PathInOrder /\ SenderInOrder /\ QueueInOrder

(* The numbers the orders compare.                                         *)
LEMMA Numbers ==
  ASSUME Types
  PROVE  /\ pushed \in Nat /\ failed \subseteq Nat
         /\ \A w \in Workers : msg[w] \in Nat
         /\ Len(delivered) \in Nat /\ DOMAIN delivered = 1 .. Len(delivered)
         /\ \A k \in 1 .. Len(delivered) : delivered[k][2] \in Nat
         /\ Path \in Seq(Events) /\ Len(Path) \in Nat
         /\ \A i \in 1 .. Len(Path) : Path[i].msg \in Nat
         /\ FOutUserDataFIFO \in Seq(Nat) /\ Len(FOutUserDataFIFO) \in Nat
         /\ \A i \in 1 .. Len(FOutUserDataFIFO) : FOutUserDataFIFO[i] \in Nat
<1>1. Messages \subseteq Nat /\ Infos \subseteq Nat
  BY SmChannelAssumption DEF Messages, Infos
<1>2. pushed \in Nat /\ failed \subseteq Nat /\ \A w \in Workers : msg[w] \in Nat
  BY <1>1 DEF Types, CustomerTypes
<1>3. /\ Len(delivered) \in Nat /\ DOMAIN delivered = 1 .. Len(delivered)
      /\ \A k \in 1 .. Len(delivered) : delivered[k][2] \in Nat
  <2> DEFINE D == Infos \X Messages
  <2>1. delivered \in Seq(D)
    BY DEF Types, ReceiverTypes
  <2>2. \A x \in D : x[2] \in Nat
    BY <1>1
  <2> HIDE DEF D
  <2>3. QED
    BY <2>1, <2>2, ElementOfSeq, LenProperties
<1>4. Path \in Seq(Events) /\ Len(Path) \in Nat
  BY PathType DEF Types
<1>5. \A i \in 1 .. Len(Path) : Path[i].msg \in Nat
  <2>1. \A i \in 1 .. Len(Path) : Path[i] \in Events
    BY <1>4, ElementOfSeq
  <2>2. QED
    BY <1>1, <2>1 DEF Events
<1>6. /\ FOutUserDataFIFO \in Seq(Nat) /\ Len(FOutUserDataFIFO) \in Nat
      /\ \A i \in 1 .. Len(FOutUserDataFIFO) : FOutUserDataFIFO[i] \in Nat
  <2>1. FOutUserDataFIFO \in Seq(Messages) /\ Messages \subseteq Nat
    BY <1>1 DEF Types, CustomerTypes
  <2>2. FOutUserDataFIFO \in Seq(Nat)
    BY <2>1, SeqMonotonic
  <2>3. QED
    BY <2>2, ElementOfSeq, LenProperties
<1>7. QED
  BY <1>2, <1>3, <1>4, <1>5, <1>6

LEMMA AllBelowMore ==
  ASSUME Types, NEW a \in Nat, NEW b \in Nat, a <= b, AllBelow(a)
  PROVE  AllBelow(b)
<1>1. ASSUME NEW k \in 1 .. Len(delivered) PROVE delivered[k][2] < b
  <2>1. delivered[k][2] \in Nat /\ delivered[k][2] < a
    BY Numbers DEF AllBelow
  <2>2. QED
    BY <2>1
<1>2. ASSUME NEW i \in 1 .. Len(Path), Carries(Path[i]) PROVE Path[i].msg < b
  <2>1. Path[i].msg \in Nat /\ Path[i].msg < a
    BY <1>2, Numbers DEF AllBelow
  <2>2. QED
    BY <2>1
<1>3. QED
  BY <1>1, <1>2 DEF AllBelow

LEMMA InitOrdered == Init => Ordered
<1> SUFFICES ASSUME Init PROVE Ordered
  OBVIOUS
<1>1. Path = <<>> /\ Len(Path) = 0
  BY InitPath, EmptySeq
<1>2. /\ delivered = <<>> /\ FOutUserDataFIFO = <<>> /\ failed = {} /\ pushed = 0
      /\ \A w \in Workers : pc[w] = "idle" /\ msg[w] = 0
  BY DEF Init
<1>3. DeliveredInOrder /\ PathInOrder
  BY <1>1, <1>2 DEF DeliveredInOrder, PathInOrder
<1>4. SenderInOrder /\ QueueInOrder
  BY <1>1, <1>2 DEF SenderInOrder, QueueInOrder, AllBelow
<1>5. QED
  BY <1>3, <1>4 DEF Ordered

(* Steps that neither put nor receive, fail or take a message.             *)
LEMMA QuietKeepsOrdered ==
  ASSUME Ordered, Path' = Path,
         UNCHANGED <<delivered, failed, pushed, FOutUserDataFIFO, msg>>,
         \A w \in Workers : (Done(w)' <=> Done(w)) /\ (pc'[w] # "idle" => pc[w] # "idle")
  PROVE  Ordered'
<1>1. DeliveredInOrder' /\ PathInOrder' /\ QueueInOrder'
  BY DEF Ordered, DeliveredInOrder, PathInOrder, QueueInOrder
<1>2. SenderInOrder'
  BY DEF Ordered, SenderInOrder, AllBelow
<1>3. QED
  BY <1>1, <1>2 DEF Ordered

LEMMA PushKeepsOrdered ==
  ASSUME Types, Ordered, MPush
  PROVE  Ordered'
<1> DEFINE Q == FOutUserDataFIFO
<1>1. /\ pushed' = pushed + 1 /\ Q' = Append(Q, pushed + 1)
      /\ UNCHANGED <<FBuffers, ring, hand, handler, delivered, failed, pc, part, msg>>
  BY DEF MPush, receiverVars
<1>2. Path' = Path
  BY <1>1, QuietPath
<1>3. pushed \in Nat /\ Q \in Seq(Nat) /\ \A w \in Workers : msg[w] \in Nat
  BY Numbers
<1>4. /\ Len(Q) \in Nat /\ Len(Q') = Len(Q) + 1 /\ Q'[Len(Q) + 1] = pushed + 1
      /\ \A i \in 1 .. Len(Q) : Q'[i] = Q[i] /\ Q[i] \in Nat
  BY <1>1, <1>3, AppendProperties
<1>5. DeliveredInOrder' /\ PathInOrder'
  BY <1>1, <1>2 DEF Ordered, DeliveredInOrder, PathInOrder
<1>6. SenderInOrder'
  <2> SUFFICES ASSUME NEW w \in Workers
               PROVE  /\ AllBelow(IF Done(w) THEN msg[w] + 1 ELSE msg[w])'
                      /\ \A m \in failed' : m <= msg'[w]
                      /\ pc'[w] # "idle" => msg'[w] \notin failed'
                      /\ \A i \in 1 .. Len(Q') : msg'[w] < Q'[i]
                      /\ msg'[w] <= pushed'
    BY DEF SenderInOrder
  <2>1. AllBelow(IF Done(w) THEN msg[w] + 1 ELSE msg[w])'
    BY <1>1, <1>2 DEF Ordered, SenderInOrder, AllBelow, Done
  <2>2. msg[w] <= pushed /\ \A i \in 1 .. Len(Q) : msg[w] < Q[i]
    BY DEF Ordered, SenderInOrder
  <2> HIDE DEF Q
  <2>3. \A i \in 1 .. Len(Q') : msg'[w] < Q'[i]
    BY <1>1, <1>3, <1>4, <2>2
  <2>4. msg'[w] <= pushed'
    BY <1>1, <1>3, <2>2
  <2>5. QED
    BY <1>1, <2>1, <2>3, <2>4 DEF Ordered, SenderInOrder
<1>7. QueueInOrder'
  <2>1. \A i \in 1 .. Len(Q) : Q[i] <= pushed /\ \A j \in 1 .. i - 1 : Q[j] < Q[i]
    BY DEF Ordered, QueueInOrder
  <2> HIDE DEF Q
  <2>2. \A i \in 1 .. Len(Q') : Q'[i] <= pushed' /\ \A j \in 1 .. i - 1 : Q'[j] < Q'[i]
    BY <1>1, <1>3, <1>4, <2>1
  <2>3. QED
    BY <2>2 DEF QueueInOrder, Q
<1>8. QED
  BY <1>5, <1>6, <1>7 DEF Ordered

(* The worker takes the first message: it is sent, or it fails at once.    *)
LEMMA BeginSendKeepsOrdered ==
  ASSUME Alone, Types, Ordered, NEW w \in Workers, BeginSend(w)
  PROVE  Ordered'
<1> DEFINE Q == FOutUserDataFIFO
<1>0. PICK h : h = Head(Q)
  OBVIOUS
<1>1. /\ pc[w] = "idle" /\ Q # <<>> /\ Q' = Tail(Q)
      /\ UNCHANGED <<FBuffers, ring, hand, handler, delivered, pushed>>
      /\ msg' = [msg EXCEPT ![w] = h]
  BY <1>0 DEF BeginSend, receiverVars
<1>2. Path' = Path
  BY <1>1, QuietPath
<1>3. /\ pushed \in Nat /\ failed \subseteq Nat /\ Q \in Seq(Nat) /\ msg[w] \in Nat
      /\ msg \in [Workers -> Infos]
      /\ DOMAIN delivered = 1 .. Len(delivered)
      /\ \A k \in 1 .. Len(delivered) : delivered[k][2] \in Nat
      /\ \A i \in 1 .. Len(Path) : Path[i].msg \in Nat
  BY Numbers DEF Types, CustomerTypes
<1>4. /\ Len(Q) \in Nat \ {0} /\ Len(Q') = Len(Q) - 1 /\ h = Q[1] /\ h \in Nat
      /\ \A i \in 1 .. Len(Q) - 1 : Q'[i] = Q[i + 1] /\ Q[i + 1] \in Nat
  BY <1>0, <1>1, <1>3, HeadTailProperties, EmptySeq
<1>5. /\ \A v \in Workers : v = w
      /\ msg'[w] = h
  BY <1>1, <1>3 DEF Alone
<1>6. /\ AllBelow(msg[w] + 1)
      /\ \A m \in failed : m <= msg[w]
      /\ \A i \in 1 .. Len(Q) : msg[w] < Q[i]
  BY <1>1 DEF Ordered, SenderInOrder, Done
<1>7. \A i \in 1 .. Len(Q) : Q[i] <= pushed /\ \A j \in 1 .. i - 1 : Q[j] < Q[i]
  BY DEF Ordered, QueueInOrder
<1>8. \/ failed' = failed /\ pc'[w] = "read" /\ part'[w] \in {"E_SM_INFO", "E_SM_DATA_INFO"}
      \/ failed' = failed \cup {h} /\ pc'[w] = "idle"
  BY <1>0, <1>1 DEF BeginSend, Types, CustomerTypes
<1> HIDE DEF Q
<1>9. msg[w] < h /\ h <= pushed
  BY <1>4, <1>6, <1>7
<1>10. AllBelow(h)
  <2>1. h \in Nat /\ msg[w] + 1 \in Nat /\ msg[w] + 1 <= h
    BY <1>3, <1>4, <1>9
  <2>2. QED
    BY <1>6, <2>1, AllBelowMore
<1>11. AllBelow(h)' /\ AllBelow(h + 1)'
  <2>1. AllBelow(h + 1)
    <3>1. h \in Nat /\ h + 1 \in Nat /\ h <= h + 1
      BY <1>4
    <3>2. QED
      BY <1>10, <3>1, AllBelowMore
  <2>2. QED
    BY <1>1, <1>2, <1>10, <2>1 DEF AllBelow
<1>12. DeliveredInOrder'
  <2>1. \A k \in 1 .. Len(delivered) : delivered[k][2] \notin failed'
    BY <1>3, <1>4, <1>8, <1>10, SMTT(30) DEF AllBelow, Ordered, DeliveredInOrder
  <2>2. QED
    BY <1>1, <1>3, <2>1 DEF Ordered, DeliveredInOrder
<1>13. PathInOrder'
  <2>1. \A i \in 1 .. Len(Path) : Carries(Path[i]) => Path[i].msg \notin failed'
    BY <1>3, <1>4, <1>8, <1>10 DEF AllBelow, Ordered, PathInOrder
  <2>2. QED
    BY <1>1, <1>2, <2>1 DEF Ordered, PathInOrder
<1>14. SenderInOrder'
  <2>1. AllBelow(IF Done(w) THEN msg[w] + 1 ELSE msg[w])'
    <3> DEFINE b == IF Done(w) THEN msg[w] + 1 ELSE msg[w]
    <3>1. b' = h \/ b' = h + 1
      BY <1>5
    <3> HIDE DEF b
    <3>2. AllBelow(b)'
      BY <1>11, <3>1 DEF AllBelow
    <3>3. QED
      BY <3>2 DEF b
  <2>2. \A m \in failed' : m <= h
    <3>1. \A m \in failed : m <= h
      BY <1>3, <1>4, <1>6, <1>9
    <3>2. failed' \subseteq failed \cup {h} /\ h <= h
      BY <1>4, <1>8
    <3>3. QED
      BY <3>1, <3>2
  <2>3. pc'[w] # "idle" => h \notin failed'
    BY <1>3, <1>4, <1>6, <1>8, <1>9
  <2>4. \A i \in 1 .. Len(Q') : h < Q'[i]
    BY <1>4, <1>7
  <2>5. QED
    BY <1>1, <1>5, <1>9, <2>1, <2>2, <2>3, <2>4 DEF SenderInOrder, Q
<1>15. QueueInOrder'
  <2>1. ASSUME NEW i \in 1 .. Len(Q')
        PROVE  Q'[i] <= pushed /\ \A j \in 1 .. i - 1 : Q'[j] < Q'[i]
    <3>1. /\ i + 1 \in 1 .. Len(Q) /\ Q'[i] = Q[i + 1]
          /\ \A j \in 1 .. i - 1 : j + 1 \in 1 .. (i + 1) - 1 /\ Q'[j] = Q[j + 1]
      BY <1>4
    <3>2. QED
      BY <1>7, <3>1
  <2>2. QED
    BY <1>1, <2>1 DEF QueueInOrder, Q
<1>16. QED
  BY <1>12, <1>13, <1>14, <1>15 DEF Ordered

(* E_ERROR: the message fails with no data of it on the path.              *)
LEMMA ErrorKeepsOrdered ==
  ASSUME Alone, Types, Ordered, NEW w \in Workers, pc[w] \in {"check", "put"}, Error(w),
         UNCHANGED <<FBuffers, ring, hand, handler, delivered, pushed, FOutUserDataFIFO, msg>>
  PROVE  Ordered'
<1>1. Path' = Path
  BY QuietPath
<1>2. /\ failed \subseteq Nat /\ msg[w] \in Nat
      /\ DOMAIN delivered = 1 .. Len(delivered)
      /\ \A k \in 1 .. Len(delivered) : delivered[k][2] \in Nat
      /\ \A i \in 1 .. Len(Path) : Path[i].msg \in Nat
  BY Numbers
<1>3. failed' = failed \cup {msg[w]} /\ \A v \in Workers : v = w /\ pc'[v] = "idle"
  BY DEF Error, Alone, Types, CustomerTypes
<1>4. AllBelow(msg[w])
  BY DEF Ordered, SenderInOrder, Done
<1>5. DeliveredInOrder'
  <2>1. \A k \in 1 .. Len(delivered) : delivered[k][2] \notin failed'
    BY <1>2, <1>3, <1>4 DEF AllBelow, Ordered, DeliveredInOrder
  <2>2. QED
    BY <1>2, <2>1 DEF Ordered, DeliveredInOrder
<1>6. PathInOrder'
  <2>1. \A i \in 1 .. Len(Path) : Carries(Path[i]) => Path[i].msg \notin failed'
    BY <1>2, <1>3, <1>4 DEF AllBelow, Ordered, PathInOrder
  <2>2. QED
    BY <1>1, <2>1 DEF Ordered, PathInOrder
<1>7. SenderInOrder'
  <2>1. AllBelow(msg[w] + 1)'
    BY <1>1, <1>2, <1>4, SMTT(30) DEF AllBelow
  <2>2. \A m \in failed' : m <= msg[w]
    BY <1>2, <1>3 DEF Ordered, SenderInOrder
  <2>3. QED
    BY <1>3, <2>1, <2>2 DEF Ordered, SenderInOrder, Done
<1>8. QueueInOrder'
  BY DEF Ordered, QueueInOrder
<1>9. QED
  BY <1>5, <1>6, <1>7, <1>8 DEF Ordered

LEMMA PutKeepsOrdered ==
  ASSUME Alone, Types, Ordered, NEW w \in Workers, pc[w] = "put", PutEvent(w),
         UNCHANGED <<hand, FBuffers, delivered, pushed, FOutUserDataFIFO, msg, part>>
  PROVE  Ordered'
<1> DEFINE n == Len(Path)
           e == EventOf(w)
<1>1. e \in Events /\ Path' = Append(Path, e) /\ Path \in Seq(Events)
  BY PutPath, PathType DEF Types
<1>2. /\ n \in Nat /\ Len(Path') = n + 1 /\ Path'[n + 1] = e
      /\ \A i \in 1 .. n : Path'[i] = Path[i]
  BY <1>1, GrownPath
<1>3. /\ e.msg = msg[w] /\ (Carries(e) <=> part[w] # "E_SM_INFO")
      /\ failed' = failed /\ \A v \in Workers : v = w /\ pc'[v] = "sent"
  BY DEF EventOf, Carries, PutEvent, Alone, Types, CustomerTypes
<1>4. /\ msg[w] \in Nat
      /\ \A k \in 1 .. Len(delivered) : delivered[k][2] \in Nat
      /\ \A i \in 1 .. n : Path[i].msg \in Nat
  BY Numbers
<1>5. AllBelow(msg[w]) /\ msg[w] \notin failed
  BY DEF Ordered, SenderInOrder, Done
<1> HIDE DEF e
<1>6. PathInOrder'
  <2> SUFFICES ASSUME NEW i \in 1 .. n + 1, Carries(Path'[i])
               PROVE  /\ Path'[i].msg \notin failed
                      /\ \A k \in 1 .. Len(delivered) : delivered[k][2] < Path'[i].msg
                      /\ \A j \in 1 .. i - 1 : Carries(Path'[j]) => Path'[j].msg < Path'[i].msg
    BY <1>2, <1>3 DEF PathInOrder, Carries
  <2>1. CASE i = n + 1
    BY <1>2, <1>3, <1>5, <2>1 DEF AllBelow
  <2>2. CASE i # n + 1
    <3>1. i \in 1 .. n /\ \A j \in 1 .. i - 1 : j \in 1 .. n
      BY <1>2, <2>2
    <3>2. QED
      BY <1>2, <3>1 DEF Ordered, PathInOrder
  <2>3. QED
    BY <2>1, <2>2
<1>7. SenderInOrder'
  <2>1. AllBelow(msg[w] + 1)' /\ (part[w] = "E_SM_INFO" => AllBelow(msg[w])')
    <3>1. AllBelow(msg[w] + 1)'
      <4>1. \A k \in 1 .. Len(delivered) : delivered[k][2] < msg[w] + 1
        BY <1>4, <1>5 DEF AllBelow
      <4>2. \A i \in 1 .. n + 1 : Carries(Path'[i]) => Path'[i].msg < msg[w] + 1
        BY <1>2, <1>3, <1>4, <1>5 DEF AllBelow
      <4>3. QED
        BY <1>2, <4>1, <4>2 DEF AllBelow, Carries
    <3>2. ASSUME part[w] = "E_SM_INFO" PROVE AllBelow(msg[w])'
      <4>1. \A i \in 1 .. n + 1 : Carries(Path'[i]) => Path'[i].msg < msg[w]
        BY <1>2, <1>3, <1>5, <3>2 DEF AllBelow
      <4>2. QED
        BY <1>2, <1>5, <4>1 DEF AllBelow, Carries
    <3>3. QED
      BY <3>1, <3>2
  <2>2. (IF Done(w) THEN msg[w] + 1 ELSE msg[w])' = IF part[w] # "E_SM_INFO" THEN msg[w] + 1 ELSE msg[w]
    BY <1>3 DEF Done
  <2>3. AllBelow(IF Done(w) THEN msg[w] + 1 ELSE msg[w])'
    BY <1>2, <2>1, <2>2 DEF AllBelow
  <2>4. QED
    BY <1>3, <1>5, <2>3 DEF Ordered, SenderInOrder
<1>8. DeliveredInOrder' /\ QueueInOrder'
  BY <1>3 DEF Ordered, DeliveredInOrder, QueueInOrder
<1>9. QED
  BY <1>6, <1>7, <1>8 DEF Ordered

LEMMA ReceiveKeepsOrdered ==
  ASSUME Types, Ordered, Receive
  PROVE  Ordered'
<1> DEFINE n == Len(Path)
           e == Path[1]
           d == Len(delivered)
<1>1. /\ Path # <<>> /\ Path' = Tail(Path) /\ MReceiveImpl(Head(Path)) /\ Head(Path) \in Events
      /\ Path \in Seq(Events)
  BY ReceivePath, PathType DEF Types
<1>2. /\ n \in Nat \ {0} /\ Len(Path') = n - 1 /\ Head(Path) = e
      /\ \A i \in 1 .. n - 1 : Path'[i] = Path[i + 1]
  BY <1>1, ShrunkPath
<1>3. UNCHANGED <<FOutUserDataFIFO, pushed, pc, part, msg, failed>>
  BY DEF Receive, customerVars
<1>4. /\ d \in Nat /\ DOMAIN delivered = 1 .. d
      /\ \A k \in 1 .. d : delivered[k][2] \in Nat
      /\ \A i \in 1 .. n : Path[i].msg \in Nat
  BY Numbers
<1>5. \/ Len(delivered') = d /\ delivered' = delivered /\ ~Carries(e)
      \/ /\ Carries(e) /\ Len(delivered') = d + 1
         /\ delivered'[d + 1][2] = e.msg
         /\ \A k \in 1 .. d : delivered'[k] = delivered[k]
  <2>1. \/ delivered' = delivered /\ ~Carries(e)
        \/ Carries(e) /\ \E x \in Infos : delivered' = Append(delivered, <<x, e.msg>>)
    <3>1. FRecv[e.offset] \in Infos /\ e.msg \in Infos
      BY <1>1, <1>2, SmChannelAssumption DEF Events, Types, ReceiverTypes, Messages, Infos
    <3>2. QED
      BY <1>1, <1>2, <3>1, Zenon DEF MReceiveImpl, Carries
  <2>2. CASE delivered' = delivered /\ ~Carries(e)
    BY <2>2
  <2>3. ASSUME NEW x \in Infos, Carries(e), delivered' = Append(delivered, <<x, e.msg>>)
        PROVE  /\ Len(delivered') = d + 1
               /\ delivered'[d + 1][2] = e.msg
               /\ \A k \in 1 .. d : delivered'[k] = delivered[k]
    <3> DEFINE D == Infos \X Messages
    <3>1. delivered \in Seq(D) /\ <<x, e.msg>> \in D
      BY <1>1, <1>2 DEF Types, ReceiverTypes, Events
    <3> HIDE DEF D
    <3>2. /\ Len(delivered') = d + 1 /\ delivered'[d + 1] = <<x, e.msg>>
          /\ \A k \in 1 .. d : delivered'[k] = delivered[k]
      BY <2>3, <3>1, AppendProperties
    <3>3. QED
      BY <3>2
  <2>4. QED
    BY <2>1, <2>2, <2>3
<1>6. DOMAIN delivered' = 1 .. Len(delivered')
  <2>1. ReceiverTypes'
    BY ReceiveKeepsTypes DEF Types
  <2>2. QED
    BY <2>1 DEF ReceiverTypes
<1>7. Carries(e) => e.msg \notin failed /\ \A k \in 1 .. d : delivered[k][2] < e.msg
  BY <1>2 DEF Ordered, PathInOrder
<1>8. e.msg \in Nat
  BY <1>2, <1>4
<1>9. ASSUME NEW i \in 1 .. n - 1, Carries(Path[i + 1])
      PROVE  /\ Path[i + 1].msg \notin failed
             /\ \A k \in 1 .. d : delivered[k][2] < Path[i + 1].msg
             /\ Carries(e) => e.msg < Path[i + 1].msg
             /\ \A j \in 1 .. i - 1 : Carries(Path[j + 1]) => Path[j + 1].msg < Path[i + 1].msg
  <2>1. i + 1 \in 1 .. n /\ 1 \in 1 .. (i + 1) - 1 /\ \A j \in 1 .. i - 1 : j + 1 \in 1 .. (i + 1) - 1
    BY <1>2
  <2>2. QED
    BY <1>9, <2>1 DEF Ordered, PathInOrder
<1> HIDE DEF e
<1>10. ASSUME NEW m, \A k \in 1 .. d : delivered[k][2] < m, Carries(e) => e.msg < m
       PROVE  \A k \in 1 .. Len(delivered') : delivered'[k][2] < m
  <2> SUFFICES ASSUME NEW k \in 1 .. Len(delivered') PROVE delivered'[k][2] < m
    OBVIOUS
  <2>1. CASE k \in 1 .. d
    <3>1. delivered'[k] = delivered[k]
      BY <1>5, <2>1
    <3>2. QED
      BY <1>10, <2>1, <3>1
  <2>2. CASE k \notin 1 .. d
    <3>1. k = d + 1 /\ Carries(e) /\ delivered'[k][2] = e.msg
      BY <1>4, <1>5, <2>2
    <3>2. QED
      BY <1>10, <3>1
  <2>3. QED
    BY <2>1, <2>2
<1>11. DeliveredInOrder'
  <2>1. \A i, j \in 1 .. d : i < j => delivered[i][2] < delivered[j][2]
    BY <1>4 DEF Ordered, DeliveredInOrder
  <2>2. \A i \in 1 .. d : delivered[i][2] \notin failed
    BY <1>4 DEF Ordered, DeliveredInOrder
  <2> HIDE DEF d
  <2>3. \A i, j \in 1 .. Len(delivered') : i < j => delivered'[i][2] < delivered'[j][2]
    BY <1>4, <1>5, <1>7, <1>8, <2>1
  <2>4. \A i \in 1 .. Len(delivered') : delivered'[i][2] \notin failed
    BY <1>4, <1>5, <1>7, <2>2
  <2>5. QED
    BY <1>3, <1>6, <2>3, <2>4 DEF DeliveredInOrder
<1>12. PathInOrder'
  <2> SUFFICES ASSUME NEW i \in 1 .. n - 1, Carries(Path'[i])
               PROVE  /\ Path'[i].msg \notin failed
                      /\ \A k \in 1 .. Len(delivered') : delivered'[k][2] < Path'[i].msg
                      /\ \A j \in 1 .. i - 1 : Carries(Path'[j]) => Path'[j].msg < Path'[i].msg
    BY <1>2, <1>3 DEF PathInOrder, Carries
  <2>1. Path'[i] = Path[i + 1] /\ \A j \in 1 .. i - 1 : Path'[j] = Path[j + 1]
    BY <1>2
  <2>2. QED
    BY <1>9, <1>10, <2>1
<1>13. SenderInOrder'
  <2>1. ASSUME NEW m, AllBelow(m)
        PROVE  /\ \A k \in 1 .. Len(delivered') : delivered'[k][2] < m
               /\ \A i \in 1 .. n - 1 : Carries(Path'[i]) => Path'[i].msg < m
    <3>1. /\ Carries(e) => e.msg < m
          /\ \A k \in 1 .. d : delivered[k][2] < m
          /\ \A i \in 1 .. n - 1 : Carries(Path[i + 1]) => Path[i + 1].msg < m
      BY <1>2, <2>1 DEF AllBelow, e
    <3>2. QED
      BY <1>2, <1>10, <3>1
  <2>2. ASSUME NEW w \in Workers
        PROVE  AllBelow(IF Done(w) THEN msg[w] + 1 ELSE msg[w])'
    <3> DEFINE b == IF Done(w) THEN msg[w] + 1 ELSE msg[w]
    <3>1. AllBelow(b) /\ b' = b
      BY <1>3 DEF Ordered, SenderInOrder, Done
    <3> HIDE DEF b
    <3>2. /\ \A k \in 1 .. Len(delivered') : delivered'[k][2] < b'
          /\ \A i \in 1 .. n - 1 : Carries(Path'[i]) => Path'[i].msg < b'
      BY <2>1, <3>1
    <3>3. AllBelow(b)'
      BY <1>2, <3>2 DEF AllBelow, Carries
    <3>4. QED
      BY <3>3 DEF b
  <2>3. QED
    BY <1>3, <2>2 DEF Ordered, SenderInOrder
<1>14. QueueInOrder'
  BY <1>3 DEF Ordered, QueueInOrder
<1>15. QED
  BY <1>11, <1>12, <1>13, <1>14 DEF Ordered

LEMMA NextOrdered ==
  ASSUME Alone
  PROVE  Types /\ Ordered /\ [Next]_vars => Ordered'
<1> SUFFICES ASSUME Types, Ordered, [Next]_vars PROVE Ordered'
  OBVIOUS
<1>0. /\ pc \in [Workers -> {"idle", "read", "check", "put", "sent"}]
      /\ part \in [Workers -> Parts]
  BY DEF Types, CustomerTypes
<1>1. ASSUME NEW w \in Workers, Work(w) PROVE Ordered'
  <2> DEFINE Quiet == UNCHANGED <<FBuffers, ring, hand, handler, delivered, pushed,
                                  FOutUserDataFIFO, msg>>
  <2>1. ASSUME Quiet, failed' = failed,
               \A v \in Workers : /\ Done(v)' <=> Done(v)
                                  /\ pc'[v] # "idle" => pc[v] # "idle"
        PROVE  Ordered'
    BY <2>1, QuietPath, QuietKeepsOrdered
  <2>2. CASE ReadCounter(w)
    <3>1. Quiet /\ failed' = failed
      BY <2>2 DEF ReadCounter, receiverVars
    <3>2. QED
      BY <1>0, <2>1, <2>2, <3>1 DEF ReadCounter, Done
  <2>3. CASE CheckOverload(w)
    <3>1. Quiet /\ pc[w] = "check" /\ part' = part
      BY <2>3 DEF CheckOverload, receiverVars
    <3>2. CASE Error(w)
      BY <3>1, <3>2, ErrorKeepsOrdered
    <3>3. CASE failed' = failed /\ \E l \in {"put", "read"} : pc' = [pc EXCEPT ![w] = l]
      <4> HIDE DEF Quiet
      <4>1. \A v \in Workers : /\ Done(v)' <=> Done(v)
                               /\ pc'[v] # "idle" => pc[v] # "idle"
        BY <1>0, <3>1, <3>3 DEF Done
      <4>2. QED
        BY <2>1, <3>1, <3>3, <4>1
    <3>4. QED
      BY <2>3, <3>2, <3>3 DEF CheckOverload, Again
  <2>4. CASE MInvokeEventTo(w)
    <3>1. /\ UNCHANGED <<hand, FBuffers, delivered, pushed, FOutUserDataFIFO, msg, part>>
          /\ pc[w] = "put"
      BY <2>4 DEF MInvokeEventTo, receiverVars
    <3>2. CASE PutEvent(w)
      BY <3>1, <3>2, PutKeepsOrdered
    <3>3. CASE UNCHANGED <<ring, handler>> /\ Error(w)
      BY <3>1, <3>3, ErrorKeepsOrdered
    <3>4. CASE UNCHANGED <<ring, handler>> /\ Again(w)
      <4>1. Quiet /\ failed' = failed
        BY <3>1, <3>4 DEF Again
      <4> HIDE DEF Quiet
      <4>2. \A v \in Workers : /\ Done(v)' <=> Done(v)
                               /\ pc'[v] # "idle" => pc[v] # "idle"
        BY <1>0, <3>1, <3>4 DEF Again, Done
      <4>3. QED
        BY <2>1, <4>1, <4>2
    <3>5. QED
      BY <2>4, <3>2, <3>3, <3>4 DEF MInvokeEventTo
  <2>5. CASE BumpCounter(w)
    <3>1. Quiet /\ failed' = failed
      BY <2>5 DEF BumpCounter, receiverVars
    <3>2. \A v \in Workers : /\ Done(v)' <=> Done(v)
                             /\ pc'[v] # "idle" => pc[v] # "idle"
      BY <1>0, <2>5 DEF BumpCounter, Done
    <3>3. QED
      BY <2>1, <3>1, <3>2
  <2>6. QED
    BY <1>1, <2>2, <2>3, <2>4, <2>5, BeginSendKeepsOrdered DEF Work
<1>2. CASE HandleEvent
  <2>1. UNCHANGED <<delivered, failed, pushed, FOutUserDataFIFO, msg, pc, part>>
    BY <1>2 DEF HandleEvent, SleepOnRing, PopEvent, StoreEvent, Signal, customerVars,
       receiverVars
  <2>2. QED
    BY <1>2, <2>1, HandlePath, QuietKeepsOrdered DEF Done
<1>3. CASE WaitForData \/ WakeUp
  BY <1>3, QuietPath, QuietKeepsOrdered DEF WaitForData, WakeUp, customerVars, Done
<1>4. CASE UNCHANGED vars
  BY <1>4, QuietPath, QuietKeepsOrdered DEF vars, customerVars, receiverVars, Done
<1>5. QED
  BY <1>1, <1>2, <1>3, <1>4, PushKeepsOrdered, ReceiveKeepsOrdered DEF Next, MReceiver

(* With one sender the messages arrive in the order they were sent, each   *)
(* at most once, and none of those reported as failed.                     *)
THEOREM DeliveredInOrderHolds ==
  ASSUME Alone
  PROVE  Spec => []DeliveredInOrder
<1>1. Ordered => DeliveredInOrder
  BY DEF Ordered
<1>2. QED
  BY <1>1, InitTypes, NextTypes, InitOrdered, NextOrdered, PTL DEF Spec
=============================================================================
