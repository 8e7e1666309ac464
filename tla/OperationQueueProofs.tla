------------------------ MODULE OperationQueueProofs ------------------------
(***************************************************************************)
(* Proofs about the thread pool of OperationQueue, for any number of       *)
(* threads, waiters and operations.                                        *)
(***************************************************************************)
EXTENDS OperationQueue, FiniteSetTheorems, TLAPS

(* MRun and MDone form a handshake: the thread raises FIsWaitNextOperation *)
(* before it reads FDone, the canceller raises FDone before it reads       *)
(* FIsWaitNextOperation.                                                   *)
HandshakeTypes ==
  /\ pc \in [Threads -> PCs]
  /\ FDone \in [Threads -> BOOLEAN]
  /\ FIsWaitNextOperation \in [Threads -> BOOLEAN]
  /\ cancel \in [at : {"none", "next", "unlock", "join"}, thread : Threads]

RaisedWhileWaiting ==
  \A t \in Threads : pc[t] \in {"check", "next", "waiting", "woken", "got"} =>
    FIsWaitNextOperation[t]

DoneWhileCancelled ==
  cancel.at \in {"unlock", "join"} => FDone[cancel.thread]

Handshake ==
  /\ HandshakeTypes
  /\ RaisedWhileWaiting
  /\ DoneWhileCancelled
  /\ JoinIsSafe

LEMMA InitHandshake == Init => Handshake
<1> SUFFICES ASSUME Init PROVE Handshake
  OBVIOUS
<1>1. (CHOOSE t \in Threads : TRUE) \in Threads
  BY OperationQueueAssumption
<1>2. HandshakeTypes
  BY <1>1 DEF Init, HandshakeTypes, PCs
<1>3. QED
  BY <1>2 DEF Init, Handshake, RaisedWhileWaiting, DoneWhileCancelled, JoinIsSafe

(* The threads a signal or a broadcast may move. *)
LEMMA WakeOneMoves ==
  ASSUME NEW p \in [Threads -> PCs], NEW q \in WakeOne(p)
  PROVE  /\ q \in [Threads -> PCs]
         /\ \A t \in Threads : q[t] = p[t] \/ (p[t] = "waiting" /\ q[t] = "woken")
BY DEF WakeOne, PCs

LEMMA WakeAllMoves ==
  ASSUME NEW p \in [Threads -> PCs]
  PROVE  /\ WakeAll(p) \in [Threads -> PCs]
         /\ \A t \in Threads :
              WakeAll(p)[t] = p[t] \/ (p[t] = "waiting" /\ WakeAll(p)[t] = "woken")
BY DEF WakeAll, PCs

(* Whatever wakes threads and leaves the flags alone keeps the handshake.  *)
LEMMA WakeKeepsHandshake ==
  ASSUME Handshake, UNCHANGED <<threadVars, cancel>>,
         pc' \in [Threads -> PCs],
         \A t \in Threads : \/ pc'[t] = pc[t]
                            \/ pc[t] = "waiting" /\ pc'[t] = "woken"
                            \/ pc[t] = "none" /\ pc'[t] = "loop"
                            \/ pc[t] = "keep" /\ pc'[t] = "finish"
  PROVE  Handshake'
<1>1. HandshakeTypes'
  BY DEF Handshake, HandshakeTypes, threadVars
<1>2. RaisedWhileWaiting'
  BY DEF Handshake, RaisedWhileWaiting, threadVars
<1>3. DoneWhileCancelled'
  BY DEF Handshake, DoneWhileCancelled, threadVars
<1>4. JoinIsSafe'
  BY DEF Handshake, HandshakeTypes, JoinIsSafe
<1>5. QED
  BY <1>1, <1>2, <1>3, <1>4 DEF Handshake

LEMMA RunKeepsHandshake ==
  ASSUME Handshake, NEW t \in Threads, Run(t)
  PROVE  Handshake'
<1> USE DEF Handshake, HandshakeTypes, RaisedWhileWaiting, DoneWhileCancelled,
            JoinIsSafe, Goto, threadVars, cancelVars, PCs
<1>1. CASE BeginLoop(t)
  BY <1>1 DEF BeginLoop
<1>2. CASE CheckDone(t)
  BY <1>2 DEF CheckDone
<1>3. CASE MNextOperation(t)
  BY <1>3 DEF MNextOperation
<1>4. CASE AfterWait(t)
  BY <1>4 DEF AfterWait
<1>5. CASE MarkBusy(t)
  BY <1>5 DEF MarkBusy
<1>6. CASE Decide(t)
  BY <1>6 DEF Decide
<1>7. CASE Return(t)
  BY <1>7 DEF Return
<1>8. CASE Keep(t)
  <2> DEFINE p == [pc EXCEPT ![t] = "finish"]
  <2>1. p \in [Threads -> PCs] /\ pc[t] = "keep" /\ pc' \in WakeOne(p)
    BY <1>8 DEF Keep
  <2> HIDE DEF p
  <2>2. /\ pc' \in [Threads -> PCs]
        /\ \A s \in Threads : pc'[s] = p[s] \/ (p[s] = "waiting" /\ pc'[s] = "woken")
    BY <2>1, WakeOneMoves
  <2>3. \A s \in Threads : \/ pc'[s] = pc[s]
                           \/ pc[s] = "waiting" /\ pc'[s] = "woken"
                           \/ pc[s] = "keep" /\ pc'[s] = "finish"
    BY <2>1, <2>2 DEF p
  <2>4. QED
    BY <1>8, <2>2, <2>3, WakeKeepsHandshake DEF Keep
<1>9. CASE MFinishOperation(t)
  BY <1>9 DEF MFinishOperation
<1>10. CASE EndLoop(t)
  BY <1>10 DEF EndLoop
<1>11. CASE ExitLoop(t)
  BY <1>11 DEF ExitLoop
<1>12. QED
  BY <1>1, <1>2, <1>3, <1>4, <1>5, <1>6, <1>7, <1>8, <1>9, <1>10, <1>11 DEF Run

LEMMA NextHandshake == Handshake /\ [Next]_vars => Handshake'
<1> SUFFICES ASSUME Handshake, [Next]_vars PROVE Handshake'
  OBVIOUS
<1>0. pc \in [Threads -> PCs]
  BY DEF Handshake, HandshakeTypes
<1>1. ASSUME NEW o \in Ops, MAdd(o) PROVE Handshake'
  <2>1. pc' \in [Threads -> PCs]
        /\ \A s \in Threads : pc'[s] = pc[s] \/ (pc[s] = "waiting" /\ pc'[s] = "woken")
    BY <1>0, <1>1, WakeOneMoves DEF MAdd
  <2>2. UNCHANGED <<threadVars, cancel>>
    BY <1>1 DEF MAdd, cancelVars
  <2>3. QED
    BY <2>1, <2>2, WakeKeepsHandshake
<1>2. ASSUME NEW t \in Threads, SpuriousWake(t) \/ MAddThread(t) PROVE Handshake'
  BY <1>0, <1>2, WakeKeepsHandshake
  DEF SpuriousWake, MAddThread, Goto, cancelVars, PCs
<1>3. ASSUME NEW x \in Waiters, MWaitFor(x) PROVE Handshake'
  BY <1>0, <1>3, WakeKeepsHandshake DEF MWaitFor, cancelVars
<1>4. ASSUME MEraseAll PROVE Handshake'
  BY <1>0, <1>4, WakeKeepsHandshake DEF MEraseAll, cancelVars
<1>5. ASSUME MCancel PROVE Handshake'
  BY <1>5 DEF MCancel, threadVars, Handshake, HandshakeTypes, RaisedWhileWaiting,
              DoneWhileCancelled, JoinIsSafe
<1>6. ASSUME NEW t \in Threads, MRemoveThread(t) PROVE Handshake'
  BY <1>6 DEF MRemoveThread, threadVars, Handshake, HandshakeTypes,
              RaisedWhileWaiting, DoneWhileCancelled, JoinIsSafe
<1>7. ASSUME NEW t \in Threads, CancelThread(t) PROVE Handshake'
  BY <1>7 DEF CancelThread, Handshake, HandshakeTypes, RaisedWhileWaiting,
              DoneWhileCancelled, JoinIsSafe
<1>8. ASSUME UnlockOrJoin PROVE Handshake'
  <2>1. CASE FIsWaitNextOperation[cancel.thread]
    <3>1. pc' = WakeAll(pc) /\ UNCHANGED <<threadVars, cancel>>
      BY <1>8, <2>1 DEF UnlockOrJoin
    <3>2. QED
      BY <1>0, <3>1, WakeAllMoves, WakeKeepsHandshake
  <2>2. CASE ~FIsWaitNextOperation[cancel.thread]
    BY <1>8, <2>2 DEF UnlockOrJoin, threadVars, Handshake, HandshakeTypes,
       RaisedWhileWaiting, DoneWhileCancelled, JoinIsSafe
  <2>3. QED
    BY <2>1, <2>2
<1>9. ASSUME MJoin PROVE Handshake'
  BY <1>9 DEF MJoin, threadVars, Handshake, HandshakeTypes, RaisedWhileWaiting,
              DoneWhileCancelled, JoinIsSafe
<1>10. ASSUME UNCHANGED vars PROVE Handshake'
  BY <1>0, <1>10, WakeKeepsHandshake DEF vars, cancelVars
<1>11. QED
  BY <1>1, <1>2, <1>3, <1>5, <1>6, <1>7, <1>8, <1>9, <1>10, <1>4,
     RunKeepsHandshake
  DEF Next, Cancelling

(* MDone stops broadcasting only when its thread can no longer fall asleep *)
(* on FCond, however MRun, MAdd and MCancel interleave.                    *)
THEOREM JoinIsSafeHolds == Spec => []JoinIsSafe
<1>1. Handshake => JoinIsSafe
  BY DEF Handshake
<1>2. QED
  BY InitHandshake, NextHandshake, <1>1, PTL DEF Spec

-----------------------------------------------------------------------------
(* The order in which operations are served: IMMEDIATE ones are in front   *)
(* and the iterator never leaves the front.                                *)
Entries == [op : Ops, id : Nat]

ImmediatePrefix(q) ==
  \A i, j \in 1 .. Len(q) : i < j /\ IsImmediate(q[j]) => IsImmediate(q[i])

ServedInOrder ==
  /\ FOperations \in Seq(Entries)
  /\ ImmediatePrefix(FOperations)
  /\ IteratorAtFront
  /\ operation \in [Threads -> Ops \cup {None}]
  /\ \A t \in Threads : pc[t] \in {"run", "keep"} => operation[t] # None

(* sMGetNextId finds an id. *)
LEMMA NextIdIsNat ==
  ASSUME FOperations \in Seq(Entries)
  PROVE  NextId \in Nat
<1> DEFINE ids == {FOperations[i].id : i \in DOMAIN FOperations}
           used == Ops \cup ids
<1>1. IsFiniteSet(DOMAIN FOperations)
  <2>1. DOMAIN FOperations = 1 .. Len(FOperations) /\ Len(FOperations) \in Nat
    OBVIOUS
  <2>2. QED
    BY <2>1, FS_Interval
<1>2. IsFiniteSet(ids)
  <2> DEFINE f == [i \in DOMAIN FOperations |-> FOperations[i].id]
  <2>1. f \in Surjection(DOMAIN FOperations, ids)
    BY DEF Surjection
  <2>2. QED
    BY <1>1, <2>1, FS_Surjection
<1>3. IsFiniteSet(used)
  BY <1>2, FS_Union, OperationQueueAssumption
<1>4. Cardinality(used) \in Nat
  BY <1>3, FS_CardinalityType
<1>5. \E n \in 0 .. Cardinality(used) : n \notin used
  <2> SUFFICES ASSUME 0 .. Cardinality(used) \subseteq used PROVE FALSE
    OBVIOUS
  <2>1. Cardinality(0 .. Cardinality(used)) <= Cardinality(used)
    BY <1>3, FS_Subset
  <2>2. Cardinality(0 .. Cardinality(used)) = Cardinality(used) + 1
    BY <1>4, FS_Interval
  <2>3. QED
    BY <1>4, <2>1, <2>2
<1>6. NextId \in 0 .. Cardinality(used)
  BY <1>5 DEF NextId
<1>7. QED
  BY <1>4, <1>6

LEMMA LeastNatural ==
  ASSUME NEW S \in SUBSET Nat, S # {}
  PROVE  \E m \in S : \A n \in S : m <= n
<1> DEFINE R == {ss \in Nat \X Nat : ss[1] < ss[2]}
<1>1. IsWellFoundedOn(R, Nat)
  BY NatLessThanWellFounded DEF OpToRel
<1>2. PICK m \in S : \A n \in S : ~(<<n, m>> \in R)
  BY <1>1, WFMin
<1>3. ASSUME NEW n \in S PROVE m <= n
  <2>1. m \in Nat /\ n \in Nat
    OBVIOUS
  <2>2. n < m => <<n, m>> \in R
    BY <2>1
  <2>3. QED
    BY <1>2, <2>1, <2>2
<1>4. QED
  BY <1>3

(* MAdd finds its place. *)
LEMMA LeadingImmediateExists ==
  ASSUME NEW q \in Seq(Entries), ImmediatePrefix(q)
  PROVE  LET k == LeadingImmediate(q) IN
         /\ k \in 0 .. Len(q)
         /\ \A i \in 1 .. k : IsImmediate(q[i])
         /\ \A i \in k + 1 .. Len(q) : ~IsImmediate(q[i])
<1> DEFINE P(k) == /\ \A i \in 1 .. k : IsImmediate(q[i])
                   /\ k < Len(q) => ~IsImmediate(q[k + 1])
           S == {i \in 1 .. Len(q) : ~IsImmediate(q[i])}
<1>1. Len(q) \in Nat
  OBVIOUS
<1>2. \E k \in 0 .. Len(q) : P(k)
  <2>1. CASE S = {}
    <3>1. P(Len(q))
      BY <1>1, <2>1
    <3>2. QED
      BY <1>1, <3>1
  <2>2. CASE S # {}
    <3>1. PICK m \in S : \A i \in S : m <= i
      <4>1. S \in SUBSET Nat
        BY <1>1
      <4>2. QED
        BY <2>2, <4>1, LeastNatural
    <3>2. P(m - 1)
      BY <1>1, <3>1
    <3>3. m - 1 \in 0 .. Len(q)
      BY <1>1, <3>1
    <3> HIDE DEF P
    <3>4. QED
      BY <3>2, <3>3
  <2>3. QED
    BY <2>1, <2>2
<1>3. LeadingImmediate(q) \in 0 .. Len(q) /\ P(LeadingImmediate(q))
  BY <1>2 DEF LeadingImmediate
<1>4. QED
  BY <1>1, <1>3 DEF ImmediatePrefix

LEMMA InsertInOrder ==
  ASSUME NEW q \in Seq(Entries), ImmediatePrefix(q), NEW e \in Entries
  PROVE  Insert(q, e) \in Seq(Entries) /\ ImmediatePrefix(Insert(q, e))
<1> DEFINE k == LeadingImmediate(q)
           r == Insert(q, e)
<1>1. /\ Len(q) \in Nat
      /\ k \in 0 .. Len(q)
      /\ \A i \in 1 .. k : IsImmediate(q[i])
      /\ \A i \in k + 1 .. Len(q) : ~IsImmediate(q[i])
  BY LeadingImmediateExists
<1> HIDE DEF k
<1>2. CASE IsImmediate(e)
  <2> DEFINE a == SubSeq(q, 1, k)
             b == SubSeq(q, k + 1, Len(q))
  <2>1. r = a \o <<e>> \o b
    BY <1>2 DEF Insert, k
  <2>2. /\ a \in Seq(Entries) /\ Len(a) = k
        /\ \A i \in 1 .. k : a[i] = q[i]
    BY <1>1
  <2>3. /\ b \in Seq(Entries) /\ Len(b) = Len(q) - k
        /\ \A i \in 1 .. Len(q) - k : b[i] = q[k + i]
    BY <1>1
  <2> HIDE DEF a, b
  <2>4. /\ a \o <<e>> \in Seq(Entries) /\ Len(a \o <<e>>) = k + 1
        /\ \A i \in 1 .. k + 1 : IsImmediate((a \o <<e>>)[i])
    BY <1>1, <1>2, <2>2
  <2>5. /\ r \in Seq(Entries) /\ Len(r) = Len(q) + 1
        /\ \A i \in 1 .. k + 1 : IsImmediate(r[i])
    BY <1>1, <2>1, <2>3, <2>4
  <2>6. \A i \in k + 2 .. Len(r) : ~IsImmediate(r[i])
    <3> SUFFICES ASSUME NEW i \in k + 2 .. Len(r) PROVE ~IsImmediate(r[i])
      OBVIOUS
    <3>1. i - (k + 1) \in 1 .. Len(q) - k /\ r[i] = b[i - (k + 1)]
      BY <1>1, <2>1, <2>3, <2>4, <2>5, SMTT(30)
    <3>2. r[i] = q[i - 1] /\ i - 1 \in k + 1 .. Len(q)
      BY <1>1, <2>3, <2>5, <3>1
    <3>3. QED
      BY <1>1, <3>2
  <2>7. QED
    BY <1>1, <2>5, <2>6 DEF ImmediatePrefix
<1>3. CASE ~IsImmediate(e)
  <2>1. r = Append(q, e)
    BY <1>3 DEF Insert
  <2>2. /\ r \in Seq(Entries) /\ Len(r) = Len(q) + 1 /\ r[Len(q) + 1] = e
        /\ \A i \in 1 .. Len(q) : r[i] = q[i]
    BY <2>1
  <2>3. QED
    BY <1>1, <1>3, <2>2 DEF ImmediatePrefix
<1>4. QED
  BY <1>2, <1>3

LEMMA QueueMAddInOrder ==
  ASSUME ServedInOrder, NEW o \in Ops, QueueMAdd(o)
  PROVE  /\ FOperations' \in Seq(Entries)
         /\ ImmediatePrefix(FOperations')
         /\ IteratorAtFront'
<1>1. [op |-> o, id |-> NextId] \in Entries
  BY NextIdIsNat DEF ServedInOrder, Entries
<1>2. FOperations' \in Seq(Entries) /\ ImmediatePrefix(FOperations')
  BY <1>1, InsertInOrder DEF ServedInOrder, QueueMAdd
<1>3. IteratorAtFront'
  BY DEF ServedInOrder, QueueMAdd, IteratorAtFront
<1>4. QED
  BY <1>2, <1>3

(* A thread takes the front of the queue, and nothing else. *)
LEMMA TakeFront ==
  ASSUME ServedInOrder, NEW t \in Threads, TakeOperation(t), FOperations # <<>>
  PROVE  /\ FOperations' = Tail(FOperations)
         /\ operation' = [operation EXCEPT ![t] = FOperations[1].op]
         /\ IteratorAtFront'
<1>1. FOperations \in Seq(Entries) /\ Len(FOperations) \in Nat /\ Len(FOperations) > 0
  BY DEF ServedInOrder
<1>2. FCurrentOperationIterator \in {0, 1}
  BY DEF ServedInOrder, IteratorAtFront
<1>3. /\ operation' = [operation EXCEPT ![t] = FOperations[1].op]
      /\ FOperations' = Without(1)
      /\ FCurrentOperationIterator' = NextOf(1)
  BY <1>2 DEF TakeOperation
<1>4. Without(1) = Tail(FOperations)
  BY <1>1 DEF Without
<1>5. QED
  BY <1>3, <1>4 DEF IteratorAtFront, NextOf

LEMMA TakeInOrder ==
  ASSUME ServedInOrder, NEW t \in Threads, TakeOperation(t)
  PROVE  /\ FOperations' \in Seq(Entries)
         /\ ImmediatePrefix(FOperations')
         /\ IteratorAtFront'
         /\ operation' \in [Threads -> Ops \cup {None}]
<1>1. CASE FOperations = <<>>
  BY <1>1 DEF TakeOperation, queueVars, ServedInOrder, IteratorAtFront
<1>2. CASE FOperations # <<>>
  <2>1. FOperations \in Seq(Entries) /\ ImmediatePrefix(FOperations)
    BY DEF ServedInOrder
  <2>2. FOperations[1].op \in Ops
    <3>1. FOperations[1] \in Entries
      BY <1>2, <2>1
    <3>2. QED
      BY <3>1 DEF Entries
  <2>3. Tail(FOperations) \in Seq(Entries) /\ ImmediatePrefix(Tail(FOperations))
    BY <1>2, <2>1 DEF ImmediatePrefix
  <2>4. QED
    BY <1>2, <2>2, <2>3, TakeFront DEF ServedInOrder
<1>3. QED
  BY <1>1, <1>2

LEMMA InitServed == Init => ServedInOrder
BY DEF Init, ServedInOrder, ImmediatePrefix, IteratorAtFront

(* Steps that leave the queue and the operations in hand alone. *)
LEMMA OtherStepsServed ==
  ASSUME ServedInOrder, UNCHANGED <<queueVars, operation>>,
         \A t \in Threads : pc'[t] \in {"run", "keep"} =>
           pc[t] \in {"run", "keep"} \/ operation[t] # None
  PROVE  ServedInOrder'
BY DEF ServedInOrder, queueVars, IteratorAtFront

LEMMA RunServed ==
  ASSUME ServedInOrder, Handshake, NEW t \in Threads, Run(t)
  PROVE  ServedInOrder'
<1>0. pc \in [Threads -> PCs]
  BY DEF Handshake, HandshakeTypes
<1>1. CASE BeginLoop(t)
  BY <1>0, <1>1, OtherStepsServed DEF BeginLoop, Goto
<1>2. CASE CheckDone(t)
  BY <1>0, <1>2, OtherStepsServed DEF CheckDone, Goto
<1>3. CASE MNextOperation(t) \/ AfterWait(t)
  <2>1. CASE UNCHANGED <<queueVars, operation>>
    BY <1>0, <1>3, <2>1, OtherStepsServed DEF MNextOperation, AfterWait, Goto
  <2>2. CASE TakeOperation(t)
    <3>1. /\ pc' = [pc EXCEPT ![t] = "got"] \/ pc' = [pc EXCEPT ![t] = "waiting"]
          /\ \A s \in Threads \ {t} : operation'[s] = operation[s]
      BY <1>3, <2>2 DEF MNextOperation, AfterWait, Goto, TakeOperation, ServedInOrder
    <3>2. \A s \in Threads : pc'[s] \in {"run", "keep"} => operation'[s] # None
      BY <1>0, <3>1 DEF ServedInOrder
    <3>3. QED
      BY <2>2, <3>2, TakeInOrder DEF ServedInOrder
  <2>3. QED
    BY <1>3, <2>1, <2>2 DEF MNextOperation, AfterWait
<1>5. CASE MarkBusy(t)
  BY <1>0, <1>5, OtherStepsServed DEF MarkBusy, Goto
<1>6. CASE Decide(t)
  BY <1>0, <1>6, OtherStepsServed DEF Decide, Goto
<1>7. CASE Return(t)
  BY <1>0, <1>7, OtherStepsServed DEF Return, Goto
<1>8. CASE Keep(t)
  <2> DEFINE p == [pc EXCEPT ![t] = "finish"]
  <2>1. p \in [Threads -> PCs] /\ pc[t] = "keep" /\ pc' \in WakeOne(p)
    BY <1>0, <1>8 DEF Keep, PCs
  <2> HIDE DEF p
  <2>2. \A s \in Threads : pc'[s] = p[s] \/ pc'[s] = "woken"
    BY <2>1, WakeOneMoves
  <2>3. operation[t] \in Ops
    BY <2>1 DEF ServedInOrder
  <2>4. /\ FOperations' \in Seq(Entries)
        /\ ImmediatePrefix(FOperations')
        /\ IteratorAtFront'
    BY <1>8, <2>3, QueueMAddInOrder DEF Keep
  <2>5. \A s \in Threads : pc'[s] \in {"run", "keep"} => pc[s] \in {"run", "keep"}
    BY <1>0, <2>2 DEF p
  <2>6. QED
    BY <1>8, <2>4, <2>5 DEF Keep, ServedInOrder
<1>9. CASE MFinishOperation(t)
  BY <1>0, <1>9 DEF MFinishOperation, Goto, ServedInOrder, IteratorAtFront
<1>10. CASE EndLoop(t)
  BY <1>0, <1>10, OtherStepsServed DEF EndLoop, Goto
<1>11. CASE ExitLoop(t)
  BY <1>0, <1>11, OtherStepsServed DEF ExitLoop, Goto
<1>12. QED
  BY <1>1, <1>2, <1>3, <1>5, <1>6, <1>7, <1>8, <1>9, <1>10, <1>11 DEF Run

LEMMA NextServed == ServedInOrder /\ Handshake /\ [Next]_vars => ServedInOrder'
<1> SUFFICES ASSUME ServedInOrder, Handshake, [Next]_vars PROVE ServedInOrder'
  OBVIOUS
<1>0. pc \in [Threads -> PCs]
  BY DEF Handshake, HandshakeTypes
<1>1. ASSUME NEW o \in Ops, MAdd(o) PROVE ServedInOrder'
  <2>1. \A s \in Threads : pc'[s] \in {"run", "keep"} => pc[s] \in {"run", "keep"}
    BY <1>0, <1>1, WakeOneMoves DEF MAdd
  <2>2. QED
    BY <1>1, <2>1, QueueMAddInOrder DEF MAdd, ServedInOrder
<1>2. ASSUME NEW t \in Threads, SpuriousWake(t) \/ MAddThread(t) PROVE ServedInOrder'
  BY <1>0, <1>2, OtherStepsServed DEF SpuriousWake, MAddThread, Goto
<1>3. ASSUME NEW x \in Waiters, MWaitFor(x) PROVE ServedInOrder'
  BY <1>3, OtherStepsServed DEF MWaitFor
<1>4. ASSUME MEraseAll PROVE ServedInOrder'
  BY <1>4 DEF MEraseAll, EraseAll, ServedInOrder, ImmediatePrefix, IteratorAtFront
<1>5. ASSUME MCancel PROVE ServedInOrder'
  BY <1>5 DEF MCancel, EraseAll, ServedInOrder, ImmediatePrefix, IteratorAtFront
<1>6. ASSUME NEW t \in Threads, MRemoveThread(t) \/ CancelThread(t) PROVE ServedInOrder'
  BY <1>6, OtherStepsServed DEF MRemoveThread, CancelThread
<1>7. ASSUME UnlockOrJoin PROVE ServedInOrder'
  <2>1. \A s \in Threads : pc'[s] \in {"run", "keep"} => pc[s] \in {"run", "keep"}
    BY <1>0, <1>7, WakeAllMoves DEF UnlockOrJoin
  <2>2. QED
    BY <1>7, <2>1, OtherStepsServed DEF UnlockOrJoin
<1>8. ASSUME MJoin PROVE ServedInOrder'
  BY <1>8, OtherStepsServed DEF MJoin
<1>9. ASSUME UNCHANGED vars PROVE ServedInOrder'
  BY <1>9, OtherStepsServed DEF vars
<1>10. QED
  BY <1>1, <1>2, <1>3, <1>5, <1>6, <1>7, <1>8, <1>9, <1>4, RunServed
  DEF Next, Cancelling

(* The queue is served from its front although MNextOperation goes by an   *)
(* iterator that MAdd, MNextOperation and MEraseAll all move.              *)
THEOREM IteratorAtFrontHolds == Spec => []IteratorAtFront
<1>1. ServedInOrder => IteratorAtFront
  BY DEF ServedInOrder
<1>2. QED
  BY InitHandshake, NextHandshake, InitServed, NextServed, <1>1, PTL DEF Spec

(* An operation comes into hand only from the front of the queue. *)
LEMMA TakenFromFront ==
  ASSUME ServedInOrder, Handshake, [Next]_vars,
         NEW t \in Threads, operation[t] = None, operation'[t] # None
  PROVE  FOperations # <<>> /\ operation'[t] = FOperations[1].op
<1>0. operation \in [Threads -> Ops \cup {None}]
  BY DEF ServedInOrder
<1>1. PICK s \in Threads : MNextOperation(s) \/ AfterWait(s)
  BY <1>0 DEF Next, Run, Cancelling, vars, MAdd, SpuriousWake,
     MAddThread, MWaitFor, MEraseAll, MCancel, MRemoveThread, CancelThread,
     UnlockOrJoin, MJoin, BeginLoop, CheckDone, MarkBusy, Decide, Return, Keep,
     MFinishOperation, EndLoop, ExitLoop
<1>2. TakeOperation(s)
  BY <1>1 DEF MNextOperation, AfterWait
<1>3. FOperations # <<>>
  BY <1>0, <1>2 DEF TakeOperation
<1>4. operation' = [operation EXCEPT ![s] = FOperations[1].op]
  BY <1>2, <1>3, TakeFront
<1>5. QED
  BY <1>0, <1>3, <1>4

(* An AS_LOWER operation is never taken while an IMMEDIATE one is queued.  *)
THEOREM LowerWaitsForImmediateHolds == Spec => LowerWaitsForImmediate
<1> DEFINE A == \A t \in Threads :
                  /\ operation[t] = None
                  /\ operation'[t] \notin Immediate \cup {None}
                  => \A i \in DOMAIN FOperations : ~IsImmediate(FOperations[i])
<1>1. ServedInOrder /\ Handshake /\ [Next]_vars => [A]_vars
  <2> SUFFICES ASSUME ServedInOrder, Handshake, [Next]_vars,
                      NEW t \in Threads, operation[t] = None,
                      operation'[t] \notin Immediate \cup {None},
                      NEW i \in DOMAIN FOperations
               PROVE  ~IsImmediate(FOperations[i])
    OBVIOUS
  <2>1. FOperations # <<>> /\ operation'[t] = FOperations[1].op
    BY TakenFromFront
  <2>2. ~IsImmediate(FOperations[1])
    BY <2>1 DEF IsImmediate
  <2>3. FOperations \in Seq(Entries) /\ i \in 1 .. Len(FOperations)
    BY DEF ServedInOrder
  <2>4. QED
    BY <2>2, <2>3 DEF ServedInOrder, ImmediatePrefix
<1>2. QED
  BY InitHandshake, NextHandshake, InitServed, NextServed, <1>1, PTL
  DEF Spec, LowerWaitsForImmediate

-----------------------------------------------------------------------------
(* FNumberOfInvoked.  Where a thread stands in MRun tells whether it has   *)
(* an operation in hand.                                                   *)
EmptyHanded == {"none", "loop", "check", "next", "waiting", "woken", "free",
                "exit", "stopped"}

InHands(op) == {t \in Threads : op[t] # None}

HandsMatch ==
  \A t \in Threads : /\ pc[t] \in EmptyHanded => operation[t] = None
                     /\ pc[t] = "finish" => operation[t] # None

Exact == HandsMatch /\ InvokedIsExact

LEMMA HandsAreFinite ==
  \A op : IsFiniteSet(InHands(op)) /\ Cardinality(InHands(op)) \in Nat
<1> SUFFICES ASSUME NEW op
             PROVE  IsFiniteSet(InHands(op)) /\ Cardinality(InHands(op)) \in Nat
  OBVIOUS
<1>1. InHands(op) \in SUBSET Threads
  BY DEF InHands
<1>2. QED
  BY <1>1, OperationQueueAssumption, FS_Subset, FS_CardinalityType

(* Taking an operation into an empty hand counts one more, and laying it   *)
(* down one less.                                                          *)
LEMMA HandsChange ==
  ASSUME NEW op \in [Threads -> Ops \cup {None}], NEW t \in Threads, NEW o \in Ops
  PROVE  /\ op[t] = None =>
              Cardinality(InHands([op EXCEPT ![t] = o])) = Cardinality(InHands(op)) + 1
         /\ op[t] # None =>
              Cardinality(InHands([op EXCEPT ![t] = None])) = Cardinality(InHands(op)) - 1
<1> DEFINE H == InHands(op)
<1>1. IsFiniteSet(H) /\ Cardinality(H) \in Nat
  BY HandsAreFinite
<1>2. ASSUME op[t] = None
      PROVE  Cardinality(InHands([op EXCEPT ![t] = o])) = Cardinality(H) + 1
  <2>1. InHands([op EXCEPT ![t] = o]) = H \cup {t} /\ t \notin H
    BY <1>2, OperationQueueAssumption DEF InHands
  <2> HIDE DEF H
  <2>2. QED
    BY <1>1, <2>1, FS_AddElement
<1>3. ASSUME op[t] # None
      PROVE  Cardinality(InHands([op EXCEPT ![t] = None])) = Cardinality(H) - 1
  <2>1. InHands([op EXCEPT ![t] = None]) = H \ {t} /\ t \in H
    BY <1>3 DEF InHands
  <2> HIDE DEF H
  <2>2. QED
    BY <1>1, <2>1, FS_RemoveElement
<1>4. QED
  BY <1>2, <1>3

LEMMA InitExact == Init => Exact
<1> SUFFICES ASSUME Init PROVE Exact
  OBVIOUS
<1>1. {t \in Threads : operation[t] # None} = {}
  BY DEF Init
<1>2. InvokedIsExact
  BY <1>1, FS_EmptySet DEF InvokedIsExact, Init
<1>3. QED
  BY <1>2 DEF Exact, HandsMatch, Init

(* Steps that leave the hands and the counter alone.                       *)
LEMMA OtherStepsExact ==
  ASSUME Exact, UNCHANGED <<FNumberOfInvoked, operation>>,
         \A t \in Threads :
           \/ pc'[t] = pc[t]
           \/ /\ pc'[t] \in EmptyHanded => operation[t] = None
              /\ pc'[t] = "finish" => operation[t] # None
  PROVE  Exact'
BY DEF Exact, HandsMatch, InvokedIsExact

LEMMA TakeExact ==
  ASSUME Exact, Handshake, ServedInOrder, NEW t \in Threads,
         pc[t] \in {"next", "woken"}, TakeOperation(t), Goto(t, "got")
  PROVE  Exact'
<1>0. /\ pc \in [Threads -> PCs] /\ operation \in [Threads -> Ops \cup {None}]
      /\ operation[t] = None
      /\ FNumberOfInvoked = Cardinality(InHands(operation))
      /\ pc' = [pc EXCEPT ![t] = "got"]
  BY DEF Exact, HandsMatch, Handshake, HandshakeTypes, ServedInOrder, InvokedIsExact,
         InHands, Goto, EmptyHanded
<1>1. CASE FOperations = <<>>
  <2>1. operation' = operation /\ FNumberOfInvoked' = FNumberOfInvoked
    BY <1>0, <1>1 DEF TakeOperation, queueVars
  <2>2. QED
    BY <1>0, <2>1, OtherStepsExact DEF EmptyHanded
<1>2. CASE FOperations # <<>>
  <2>1. operation' = [operation EXCEPT ![t] = FOperations[1].op]
    BY <1>2, TakeFront
  <2>2. FOperations[1].op \in Ops
    <3>1. FOperations[1] \in Entries
      BY <1>2 DEF ServedInOrder
    <3>2. QED
      BY <3>1 DEF Entries
  <2>3. FNumberOfInvoked' = FNumberOfInvoked + 1
    BY <1>2 DEF TakeOperation
  <2>4. FNumberOfInvoked' = Cardinality(InHands(operation'))
    BY <1>0, <2>1, <2>2, <2>3, HandsChange
  <2>5. HandsMatch'
    BY <1>0, <2>1 DEF Exact, HandsMatch, EmptyHanded
  <2>6. QED
    BY <2>4, <2>5 DEF Exact, InvokedIsExact, InHands
<1>3. QED
  BY <1>1, <1>2

LEMMA RunExact ==
  ASSUME Exact, Handshake, ServedInOrder, NEW t \in Threads, Run(t)
  PROVE  Exact'
<1>0. pc \in [Threads -> PCs] /\ operation \in [Threads -> Ops \cup {None}]
  BY DEF Handshake, HandshakeTypes, ServedInOrder
<1>h. \A s \in Threads : /\ pc[s] \in EmptyHanded => operation[s] = None
                         /\ pc[s] \in {"run", "keep", "finish"} => operation[s] # None
  BY DEF Exact, HandsMatch, ServedInOrder
<1>1. CASE BeginLoop(t) \/ CheckDone(t) \/ MarkBusy(t) \/ Decide(t) \/ Return(t)
           \/ EndLoop(t) \/ ExitLoop(t)
  <2>1. UNCHANGED <<FNumberOfInvoked, operation>>
    BY <1>1 DEF BeginLoop, CheckDone, MarkBusy, Decide, Return, EndLoop, ExitLoop, queueVars
  <2>2. \A s \in Threads : s # t => pc'[s] = pc[s]
    BY <1>0, <1>1 DEF BeginLoop, CheckDone, MarkBusy, Decide, Return, EndLoop, ExitLoop, Goto
  <2>3. /\ pc'[t] \in EmptyHanded => operation[t] = None
        /\ pc'[t] = "finish" => operation[t] # None
    BY <1>0, <1>h, <1>1 DEF BeginLoop, CheckDone, MarkBusy, Decide, Return, EndLoop,
       ExitLoop, Goto, EmptyHanded
  <2>4. QED
    BY <2>1, <2>2, <2>3, OtherStepsExact
<1>2. CASE MNextOperation(t)
  <2>1. CASE FOperations = <<>>
    <3>1. UNCHANGED <<FNumberOfInvoked, operation>> /\ pc' = [pc EXCEPT ![t] = "waiting"]
      BY <1>2, <2>1 DEF MNextOperation, queueVars, Goto
    <3>2. operation[t] = None
      BY <1>h, <1>2 DEF MNextOperation, EmptyHanded
    <3>3. QED
      BY <1>0, <3>1, <3>2, OtherStepsExact
  <2>2. CASE FOperations # <<>>
    BY <1>2, <2>2, TakeExact DEF MNextOperation
  <2>3. QED
    BY <2>1, <2>2
<1>3. CASE AfterWait(t)
  BY <1>3, TakeExact DEF AfterWait
<1>4. CASE Keep(t)
  <2> DEFINE p == [pc EXCEPT ![t] = "finish"]
  <2>1. p \in [Threads -> PCs] /\ pc[t] = "keep" /\ pc' \in WakeOne(p)
    BY <1>0, <1>4 DEF Keep, PCs
  <2>2. UNCHANGED <<FNumberOfInvoked, operation>>
    BY <1>4 DEF Keep, QueueMAdd
  <2> HIDE DEF p
  <2>3. \A s \in Threads : pc'[s] = p[s] \/ (p[s] = "waiting" /\ pc'[s] = "woken")
    BY <2>1, WakeOneMoves
  <2>4. \A s \in Threads : \/ pc'[s] = pc[s]
                           \/ pc[s] = "waiting" /\ pc'[s] = "woken"
                           \/ pc[s] = "keep" /\ pc'[s] = "finish"
    BY <1>0, <2>1, <2>3 DEF p
  <2>5. QED
    BY <1>h, <2>2, <2>4, OtherStepsExact DEF EmptyHanded
<1>5. CASE MFinishOperation(t)
  <2>1. /\ pc[t] = "finish" /\ pc' = [pc EXCEPT ![t] = "free"]
        /\ operation' = [operation EXCEPT ![t] = None]
        /\ FNumberOfInvoked' = FNumberOfInvoked - 1
    BY <1>5 DEF MFinishOperation, Goto
  <2>2. operation[t] # None /\ operation[t] \in Ops
    BY <1>0, <1>h, <2>1
  <2>3. FNumberOfInvoked = Cardinality(InHands(operation))
    BY DEF Exact, InvokedIsExact, InHands
  <2>4. FNumberOfInvoked' = Cardinality(InHands(operation'))
    BY <1>0, <2>1, <2>2, <2>3, HandsChange
  <2>5. HandsMatch'
    BY <1>0, <2>1 DEF Exact, HandsMatch
  <2>6. QED
    BY <2>4, <2>5 DEF Exact, InvokedIsExact, InHands
<1>6. QED
  BY <1>1, <1>2, <1>3, <1>4, <1>5 DEF Run

LEMMA NextExact == Exact /\ Handshake /\ ServedInOrder /\ [Next]_vars => Exact'
<1> SUFFICES ASSUME Exact, Handshake, ServedInOrder, [Next]_vars PROVE Exact'
  OBVIOUS
<1>0. pc \in [Threads -> PCs]
  BY DEF Handshake, HandshakeTypes
<1>h. \A s \in Threads : pc[s] \in EmptyHanded => operation[s] = None
  BY DEF Exact, HandsMatch
<1>1. ASSUME NEW o \in Ops, MAdd(o) PROVE Exact'
  <2>1. \A s \in Threads : pc'[s] = pc[s] \/ (pc[s] = "waiting" /\ pc'[s] = "woken")
    BY <1>0, <1>1, WakeOneMoves DEF MAdd
  <2>2. UNCHANGED <<FNumberOfInvoked, operation>>
    BY <1>1 DEF MAdd, QueueMAdd
  <2>3. QED
    BY <1>h, <2>1, <2>2, OtherStepsExact DEF EmptyHanded
<1>2. ASSUME NEW t \in Threads, SpuriousWake(t) \/ MAddThread(t) PROVE Exact'
  <2>1. UNCHANGED <<FNumberOfInvoked, operation>>
    BY <1>2 DEF SpuriousWake, MAddThread, queueVars
  <2>2. \A s \in Threads : \/ pc'[s] = pc[s]
                           \/ pc[s] \in {"waiting", "none"} /\ pc'[s] \in {"woken", "loop"}
    BY <1>0, <1>2 DEF SpuriousWake, MAddThread, Goto
  <2>3. QED
    BY <1>h, <2>1, <2>2, OtherStepsExact DEF EmptyHanded
<1>3. ASSUME NEW x \in Waiters, MWaitFor(x) PROVE Exact'
  BY <1>3, OtherStepsExact DEF MWaitFor, queueVars
<1>4. ASSUME MEraseAll \/ MCancel \/ MJoin PROVE Exact'
  BY <1>4, OtherStepsExact DEF MEraseAll, MCancel, EraseAll, MJoin, queueVars
<1>5. ASSUME NEW t \in Threads, MRemoveThread(t) \/ CancelThread(t) PROVE Exact'
  BY <1>5, OtherStepsExact DEF MRemoveThread, CancelThread, queueVars
<1>6. ASSUME UnlockOrJoin PROVE Exact'
  <2>1. \A s \in Threads : pc'[s] = pc[s] \/ (pc[s] = "waiting" /\ pc'[s] = "woken")
    BY <1>0, <1>6, WakeAllMoves DEF UnlockOrJoin
  <2>2. UNCHANGED <<FNumberOfInvoked, operation>>
    BY <1>6 DEF UnlockOrJoin, queueVars
  <2>3. QED
    BY <1>h, <2>1, <2>2, OtherStepsExact DEF EmptyHanded
<1>7. ASSUME UNCHANGED vars PROVE Exact'
  BY <1>7, OtherStepsExact DEF vars, queueVars
<1>8. QED
  BY <1>1, <1>2, <1>3, <1>4, <1>5, <1>6, <1>7, RunExact DEF Next, Cancelling

(* FNumberOfInvoked is the number of operations taken and not finished: it *)
(* never wraps below zero, and no cancelled thread leaves it too high.     *)
THEOREM InvokedIsExactHolds == Spec => []InvokedIsExact
<1>1. Exact => InvokedIsExact
  BY DEF Exact
<1>2. QED
  BY InitHandshake, NextHandshake, InitServed, NextServed, InitExact, NextExact, <1>1, PTL
  DEF Spec

-----------------------------------------------------------------------------
(* MWaitFor.  A queue with something in it, or a thread with something in  *)
(* hand, is what a sleeper waits for.                                      *)
LEMMA SomeHand ==
  \A op : Cardinality(InHands(op)) # 0 => \E t \in Threads : op[t] # None
<1> SUFFICES ASSUME NEW op, Cardinality(InHands(op)) # 0
             PROVE  \E t \in Threads : op[t] # None
  OBVIOUS
<1>1. InHands(op) # {}
  BY FS_EmptySet
<1>2. QED
  BY <1>1 DEF InHands

LEMMA InsertNotEmpty ==
  ASSUME NEW q \in Seq(Entries), ImmediatePrefix(q), NEW e \in Entries
  PROVE  Insert(q, e) # <<>>
<1> DEFINE k == LeadingImmediate(q)
<1>1. Len(q) \in Nat /\ k \in 0 .. Len(q)
  BY LeadingImmediateExists
<1> HIDE DEF k
<1>2. CASE IsImmediate(e)
  <2> DEFINE a == SubSeq(q, 1, k)
             b == SubSeq(q, k + 1, Len(q))
  <2>1. /\ a \in Seq(Entries) /\ Len(a) \in Nat
        /\ b \in Seq(Entries) /\ Len(b) \in Nat
    BY <1>1
  <2>2. Insert(q, e) = a \o <<e>> \o b
    BY <1>2 DEF Insert, k
  <2> HIDE DEF a, b
  <2>3. a \o <<e>> \in Seq(Entries) /\ Len(a \o <<e>>) = Len(a) + 1
    BY <2>1
  <2>4. Len(Insert(q, e)) = Len(a) + 1 + Len(b)
    BY <2>1, <2>2, <2>3
  <2>5. QED
    BY <2>1, <2>4
<1>3. CASE ~IsImmediate(e)
  <2>1. Insert(q, e) = Append(q, e)
    BY <1>3 DEF Insert
  <2>2. Len(Append(q, e)) = Len(q) + 1
    OBVIOUS
  <2>3. QED
    BY <1>1, <2>1, <2>2
<1>4. QED
  BY <1>2, <1>3

(* Steps that leave sleepers, queue and hands alone.                       *)
LEMMA OtherStepsSleepers ==
  ASSUME SleepersHaveWork, UNCHANGED <<waitVars, FOperations, operation>>
  PROVE  SleepersHaveWork'
BY DEF SleepersHaveWork, waitVars

(* Whatever is put into the queue is something to wait for. *)
LEMMA QueueMAddSleepers ==
  ASSUME ServedInOrder, NEW o \in Ops, QueueMAdd(o)
  PROVE  SleepersHaveWork'
<1>1. [op |-> o, id |-> NextId] \in Entries
  BY NextIdIsNat DEF ServedInOrder, Entries
<1>2. FOperations' # <<>>
  BY <1>1, InsertNotEmpty DEF ServedInOrder, QueueMAdd
<1>3. QED
  BY <1>2 DEF SleepersHaveWork

(* What is taken from the queue is in hand. *)
LEMMA TakeSleepers ==
  ASSUME SleepersHaveWork, Exact, ServedInOrder, NEW t \in Threads,
         pc[t] \in {"next", "woken"}, TakeOperation(t), UNCHANGED waitVars
  PROVE  SleepersHaveWork'
<1>0. operation \in [Threads -> Ops \cup {None}] /\ operation[t] = None
  BY DEF Exact, HandsMatch, ServedInOrder, EmptyHanded
<1>1. CASE FOperations = <<>>
  <2>1. UNCHANGED <<FOperations, operation>>
    BY <1>0, <1>1 DEF TakeOperation, queueVars
  <2>2. QED
    BY <2>1, OtherStepsSleepers
<1>2. CASE FOperations # <<>>
  <2>1. operation' = [operation EXCEPT ![t] = FOperations[1].op]
    BY <1>2, TakeFront
  <2>2. FOperations[1].op \in Ops
    <3>1. FOperations[1] \in Entries
      BY <1>2 DEF ServedInOrder
    <3>2. QED
      BY <3>1 DEF Entries
  <2>3. operation'[t] # None
    BY <1>0, <2>1, <2>2, OperationQueueAssumption
  <2>4. QED
    BY <2>3 DEF SleepersHaveWork
<1>3. QED
  BY <1>1, <1>2

(* An erase leaves a sleeper behind only if nothing is in hand. *)
LEMMA EraseAllSleepers ==
  ASSUME SleepersHaveWork, Exact, EraseAll, UNCHANGED operation
  PROVE  SleepersHaveWork'
<1>1. CASE FNumberOfInvoked = 0
  BY <1>1 DEF EraseAll, SleepersHaveWork
<1>2. CASE FNumberOfInvoked # 0
  <2>1. \E t \in Threads : operation[t] # None
    BY <1>2, SomeHand DEF Exact, InvokedIsExact, InHands
  <2>2. QED
    BY <2>1 DEF SleepersHaveWork
<1>3. QED
  BY <1>1, <1>2

(* The thread that finishes an operation wakes the sleepers, or leaves an  *)
(* operation queued or in another hand.                                    *)
LEMMA MFinishOperationSleepers ==
  ASSUME Exact', NEW t \in Threads, MFinishOperation(t)
  PROVE  SleepersHaveWork'
<1>1. CASE FNumberOfInvoked' = 0 /\ FOperations = <<>>
  BY <1>1 DEF MFinishOperation, WakeWaiters, SleepersHaveWork
<1>2. CASE FNumberOfInvoked' # 0
  <2>1. \E s \in Threads : operation'[s] # None
    BY <1>2, SomeHand DEF Exact, InvokedIsExact, InHands
  <2>2. QED
    BY <2>1 DEF SleepersHaveWork
<1>3. CASE FOperations # <<>>
  BY <1>3 DEF MFinishOperation, SleepersHaveWork
<1>4. QED
  BY <1>1, <1>2, <1>3

LEMMA NextSleepers ==
  SleepersHaveWork /\ Exact /\ Exact' /\ ServedInOrder /\ [Next]_vars
    => SleepersHaveWork'
<1> SUFFICES ASSUME SleepersHaveWork, Exact, Exact', ServedInOrder, [Next]_vars
             PROVE  SleepersHaveWork'
  OBVIOUS
<1>1. ASSUME NEW o \in Ops, MAdd(o) PROVE SleepersHaveWork'
  BY <1>1, QueueMAddSleepers DEF MAdd
<1>2. ASSUME NEW t \in Threads, Run(t) PROVE SleepersHaveWork'
  <2>1. CASE \/ BeginLoop(t) \/ CheckDone(t) \/ MarkBusy(t) \/ Decide(t) \/ Return(t)
             \/ EndLoop(t) \/ ExitLoop(t)
    BY <2>1, OtherStepsSleepers DEF BeginLoop, CheckDone, MarkBusy, Decide, Return,
       EndLoop, ExitLoop, queueVars
  <2>2. CASE MNextOperation(t)
    <3>1. CASE FOperations = <<>>
      BY <2>2, <3>1, OtherStepsSleepers DEF MNextOperation, queueVars
    <3>2. CASE FOperations # <<>>
      BY <2>2, <3>2, TakeSleepers DEF MNextOperation
    <3>3. QED
      BY <3>1, <3>2
  <2>3. CASE AfterWait(t)
    BY <2>3, TakeSleepers DEF AfterWait
  <2>4. CASE Keep(t)
    <3>1. operation[t] \in Ops
      BY <2>4 DEF Keep, ServedInOrder
    <3>2. QED
      BY <2>4, <3>1, QueueMAddSleepers DEF Keep
  <2>5. CASE MFinishOperation(t)
    BY <2>5, MFinishOperationSleepers
  <2>6. QED
    BY <1>2, <2>1, <2>2, <2>3, <2>4, <2>5 DEF Run
<1>3. ASSUME NEW t \in Threads,
             SpuriousWake(t) \/ MAddThread(t) \/ MRemoveThread(t) \/ CancelThread(t)
      PROVE  SleepersHaveWork'
  BY <1>3, OtherStepsSleepers
  DEF SpuriousWake, MAddThread, MRemoveThread, CancelThread, queueVars
<1>4. ASSUME NEW x \in Waiters, MWaitFor(x) PROVE SleepersHaveWork'
  <2>1. UNCHANGED <<FOperations, FNumberOfInvoked, operation>>
    BY <1>4 DEF MWaitFor, queueVars
  <2>2. FOperations # <<>> \/ \E t \in Threads : operation[t] # None
    BY <1>4, SomeHand DEF MWaitFor, Exact, InvokedIsExact, InHands
  <2>3. QED
    BY <2>1, <2>2 DEF SleepersHaveWork
<1>5. ASSUME MEraseAll \/ MCancel PROVE SleepersHaveWork'
  BY <1>5, EraseAllSleepers DEF MEraseAll, MCancel
<1>6. ASSUME UnlockOrJoin PROVE SleepersHaveWork'
  <2>1. CASE WakeWaiters
    BY <2>1 DEF WakeWaiters, SleepersHaveWork
  <2>2. CASE UNCHANGED waitVars
    BY <1>6, <2>2, OtherStepsSleepers DEF UnlockOrJoin, queueVars
  <2>3. QED
    BY <1>6, <2>1, <2>2 DEF UnlockOrJoin
<1>7. ASSUME MJoin \/ UNCHANGED vars PROVE SleepersHaveWork'
  BY <1>7, OtherStepsSleepers DEF MJoin, vars, queueVars
<1>8. QED
  BY <1>1, <1>2, <1>3, <1>4, <1>5, <1>6, <1>7 DEF Next, Cancelling

(* Nobody sleeps in MWaitFor for nothing, except where an erase emptied    *)
(* the queue: there is an operation queued or in hand, whose end is        *)
(* announced, whatever threads keep, drop, take and finish meanwhile.      *)
THEOREM SleepersHaveWorkHolds == Spec => []SleepersHaveWork
<1>1. Init => SleepersHaveWork
  BY DEF Init, SleepersHaveWork
<1>2. QED
  BY InitHandshake, NextHandshake, InitServed, NextServed, InitExact, NextExact, <1>1,
     NextSleepers, PTL
  DEF Spec
=============================================================================
