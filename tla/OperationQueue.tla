--------------------------- MODULE OperationQueue ---------------------------
(***************************************************************************)
(* The thread pool (SHARE/src/UType/CThreadPool.cpp): one COperationQueue, *)
(* the CPoolThreads that serve it and the CThreadPool calls that add,      *)
(* erase and cancel.                                                       *)
(*                                                                         *)
(* COperationQueue::FMutex makes every method of the queue one step, except *)
(* that MNextOperation and MWaitFor release it while they wait on FCond    *)
(* and FWaitForCond.  FImpl->FMutex is held during a whole MCancel or      *)
(* MRemoveThread, so no MAdd of a client falls into one.                   *)
(*                                                                         *)
(* An operation is named by the FUniqueId of the client's operation_t; the *)
(* copy constructor gives every copy a new id, so an entry of FOperations  *)
(* has an id of its own.  Ids are only compared for equality, so the least *)
(* one not in use stands for the next one.                                 *)
(***************************************************************************)
EXTENDS Naturals, Sequences, FiniteSets

CONSTANTS
  Ops,        (* the operation_ts of the clients, named by their ids       *)
  Immediate,  (* those of type IMMEDIATE; the others are AS_LOWER          *)
  Threads,    (* CPoolThreads that exist or may be added                   *)
  FirstThreads, (* those MCreate started                                   *)
  Waiters,    (* threads that call MWaitFor                                *)
  None,       (* operation_t(): no operation                               *)
  MaxQueue    (* bound: operations a client's MAdd may find in FOperations *)

ASSUME OperationQueueAssumption ==
  /\ Ops \subseteq Nat /\ IsFiniteSet(Ops)
  /\ None \notin Ops
  /\ Threads # {}
  /\ Immediate \subseteq Ops
  /\ FirstThreads \subseteq Threads
  /\ IsFiniteSet(Threads)
  /\ MaxQueue \in Nat

VARIABLES
  FOperations,       (* [op, id] records, the front first                  *)
  FCurrentOperationIterator, (* position in FOperations, 0 for end()       *)
  FNumberOfInvoked,
  waiter,            (* where each thread is in MWaitFor                   *)
  stranded,          (* history: those asleep in MWaitFor when an erase    *)
                     (* took all they waited for, until an operation comes *)
  pc,                (* where each CPoolThread is in MRun                  *)
  operation,         (* its local operation; None is operation_t()         *)
  FDone, FIsWaitNextOperation, FInOperation, (* fields of CPoolThread      *)
  FIs,               (* FTask is there: the pool is not cancelled          *)
  cancel,            (* where MCancel or MRemoveThread is                  *)
  victims            (* CPoolThreads it has still to destroy               *)

queueVars == <<FOperations, FCurrentOperationIterator, FNumberOfInvoked>>
threadVars == <<FDone, FIsWaitNextOperation, FInOperation>>
cancelVars == <<FIs, cancel, victims>>
waitVars == <<waiter, stranded>>
vars == <<queueVars, waitVars, pc, operation, threadVars, cancelVars>>

PCs == {"none", "loop", "check", "next", "waiting", "woken", "got", "decide",
        "run", "keep", "finish", "free", "exit", "stopped"}

Init ==
  /\ FOperations = <<>>
  /\ FCurrentOperationIterator = 0
  /\ FNumberOfInvoked = 0
  /\ waiter = [x \in Waiters |-> "out"]
  /\ stranded = {}
  /\ pc = [t \in Threads |-> IF t \in FirstThreads THEN "loop" ELSE "none"]
  /\ operation = [t \in Threads |-> None]
  /\ FDone = [t \in Threads |-> FALSE]
  /\ FIsWaitNextOperation = [t \in Threads |-> FALSE]
  /\ FInOperation = [t \in Threads |-> FALSE]
  /\ FIs = TRUE
  /\ cancel = [at |-> "none", thread |-> CHOOSE t \in Threads : TRUE]
  /\ victims = {}

-----------------------------------------------------------------------------
(* COperationQueue *)

IsImmediate(e) == e.op \in Immediate

MutantWakeOne(p) == {p}

(* FCond.MSignal(): one of the waiting threads, if any, is woken. *)
WakeOne(p) ==
  LET waiting == {t \in Threads : p[t] = "waiting"} IN
  IF waiting = {} THEN {p} ELSE {[p EXCEPT ![t] = "woken"] : t \in waiting}

(* FCond.MBroadcast() *)
WakeAll(p) == [t \in Threads |-> IF p[t] = "waiting" THEN "woken" ELSE p[t]]

(* FWaitForCond.MBroadcast() *)
WakeWaiters ==
  /\ waiter' = [x \in Waiters |-> "out"]
  /\ stranded' = {}

(* sMGetNextId(): an id that no operation_t has. *)
NextId ==
  LET used == Ops \cup {FOperations[i].id : i \in DOMAIN FOperations}
  IN  CHOOSE n \in 0 .. Cardinality(used) : n \notin used

(* The number of leading IMMEDIATE operations. *)
LeadingImmediate(q) ==
  CHOOSE k \in 0 .. Len(q) :
    /\ \A i \in 1 .. k : IsImmediate(q[i])
    /\ k < Len(q) => ~IsImmediate(q[k + 1])

MutantInsert(q, e) == Append(q, e)

Insert(q, e) ==
  IF IsImmediate(e)
  THEN LET k == LeadingImmediate(q)
       IN  SubSeq(q, 1, k) \o <<e>> \o SubSeq(q, k + 1, Len(q))
  ELSE Append(q, e)

(* COperationQueue::MAdd up to its MSignal.  list::insert and push_back    *)
(* keep iterators: end() stays end().                                      *)
QueueMAdd(o) ==
  LET e == [op |-> o, id |-> NextId] IN
  /\ FOperations' = Insert(FOperations, e)
  /\ FCurrentOperationIterator' =
       IF IsImmediate(e) THEN 1 ELSE FCurrentOperationIterator
  /\ stranded' = {}
  /\ UNCHANGED <<FNumberOfInvoked, waiter>>

(* Erasing entry k; the iterator to it becomes the iterator to the next.   *)
Without(k) == SubSeq(FOperations, 1, k - 1)
                \o SubSeq(FOperations, k + 1, Len(FOperations))

NextOf(k) == IF k < Len(FOperations) THEN k ELSE 0

(* MNextOperation once it has FMutex and no more reason to wait. *)
TakeOperation(t) ==
  \/ /\ FOperations = <<>>
     /\ operation' = [operation EXCEPT ![t] = None]
     /\ UNCHANGED queueVars
  \/ /\ FOperations # <<>>
     /\ LET k == IF FCurrentOperationIterator = 0 THEN 1
                 ELSE FCurrentOperationIterator
        IN  /\ operation' = [operation EXCEPT ![t] = FOperations[k].op]
            /\ FOperations' = Without(k)
            /\ FCurrentOperationIterator' = NextOf(k)
     /\ FNumberOfInvoked' = FNumberOfInvoked + 1

-----------------------------------------------------------------------------
(* CPoolThread::MRun *)

Goto(t, l) == pc' = [pc EXCEPT ![t] = l]

BeginLoop(t) ==
  /\ pc[t] = "loop"
  /\ FIsWaitNextOperation' = [FIsWaitNextOperation EXCEPT ![t] = TRUE]
  /\ Goto(t, "check")
  /\ UNCHANGED <<queueVars, waitVars, operation, FDone, FInOperation, cancelVars>>

CheckDone(t) ==
  /\ pc[t] = "check"
  /\ Goto(t, IF FDone[t] THEN "exit" ELSE "next")
  /\ UNCHANGED <<queueVars, waitVars, operation, threadVars, cancelVars>>

MNextOperation(t) ==
  /\ pc[t] = "next"
  /\ \/ /\ FOperations = <<>>
        /\ Goto(t, "waiting")
        /\ UNCHANGED <<queueVars, operation>>
     \/ /\ FOperations # <<>>
        /\ TakeOperation(t)
        /\ Goto(t, "got")
  /\ UNCHANGED <<waitVars, threadVars, cancelVars>>

(* Back from FCond.MTimedwait.  The queue may be empty again: another      *)
(* thread took the operation, or the wake-up was MForceUnlock's.           *)
AfterWait(t) ==
  /\ pc[t] = "woken"
  /\ TakeOperation(t)
  /\ Goto(t, "got")
  /\ UNCHANGED <<waitVars, threadVars, cancelVars>>

(* pthread_cond_wait may return without a signal. *)
SpuriousWake(t) ==
  /\ pc[t] = "waiting"
  /\ Goto(t, "woken")
  /\ UNCHANGED <<queueVars, waitVars, operation, threadVars, cancelVars>>

MarkBusy(t) ==
  /\ pc[t] = "got"
  /\ FIsWaitNextOperation' = [FIsWaitNextOperation EXCEPT ![t] = FALSE]
  /\ FInOperation' = [FInOperation EXCEPT ![t] = TRUE]
  /\ Goto(t, "decide")
  /\ UNCHANGED <<queueVars, waitVars, operation, FDone, cancelVars>>

MutantDecide(t) ==
  /\ pc[t] = "decide"
  /\ Goto(t, IF FDone[t] THEN "exit"
             ELSE IF operation[t] = None THEN "free" ELSE "run")
  /\ operation' = IF FDone[t] THEN [operation EXCEPT ![t] = None] ELSE operation
  /\ UNCHANGED <<queueVars, waitVars, threadVars, cancelVars>>

(* A cancelled thread drops the operation it has just taken. *)
Decide(t) ==
  /\ pc[t] = "decide"
  /\ Goto(t, IF operation[t] = None
             THEN IF FDone[t] THEN "exit" ELSE "free"
             ELSE IF FDone[t] THEN "finish" ELSE "run")
  /\ UNCHANGED <<queueVars, waitVars, operation, threadVars, cancelVars>>

(* The callback returns E_CB_REMOVE, or a value that keeps the operation. *)
Return(t) ==
  /\ pc[t] = "run"
  /\ \E l \in {"finish", "keep"} : Goto(t, l)
  /\ UNCHANGED <<queueVars, waitVars, operation, threadVars, cancelVars>>

Keep(t) ==
  /\ pc[t] = "keep"
  /\ QueueMAdd(operation[t])
  /\ pc' \in WakeOne([pc EXCEPT ![t] = "finish"])
  /\ UNCHANGED <<operation, threadVars, cancelVars>>

MFinishOperation(t) ==
  /\ pc[t] = "finish"
  /\ FNumberOfInvoked' = FNumberOfInvoked - 1
  /\ IF FNumberOfInvoked' = 0 /\ FOperations = <<>> THEN WakeWaiters
                                                    ELSE UNCHANGED waitVars
  /\ operation' = [operation EXCEPT ![t] = None]
  /\ Goto(t, "free")
  /\ UNCHANGED <<FOperations, FCurrentOperationIterator, threadVars, cancelVars>>

EndLoop(t) ==
  /\ pc[t] = "free"
  /\ FInOperation' = [FInOperation EXCEPT ![t] = FALSE]
  /\ Goto(t, IF FDone[t] THEN "exit" ELSE "loop")
  /\ UNCHANGED <<queueVars, waitVars, operation, FDone, FIsWaitNextOperation, cancelVars>>

ExitLoop(t) ==
  /\ pc[t] = "exit"
  /\ FIsWaitNextOperation' = [FIsWaitNextOperation EXCEPT ![t] = FALSE]
  /\ FInOperation' = [FInOperation EXCEPT ![t] = FALSE]
  /\ Goto(t, "stopped")
  /\ UNCHANGED <<queueVars, waitVars, operation, FDone, cancelVars>>

Run(t) ==
  \/ BeginLoop(t) \/ CheckDone(t) \/ MNextOperation(t) \/ AfterWait(t)
  \/ MarkBusy(t) \/ Decide(t) \/ Return(t) \/ Keep(t) \/ MFinishOperation(t)
  \/ EndLoop(t) \/ ExitLoop(t)

-----------------------------------------------------------------------------
(* CThreadPool *)

Free == FIs /\ cancel.at = "none"   (* FImpl->FMutex can be had *)

MAdd(o) ==
  /\ Free
  /\ Len(FOperations) < MaxQueue
  /\ QueueMAdd(o)
  /\ pc' \in WakeOne(pc)
  /\ UNCHANGED <<operation, threadVars, cancelVars>>

Queued(o) == \E i \in DOMAIN FOperations : FOperations[i].op = o
InHand(o) == \E t \in Threads : operation[t] = o

(* COperationQueue::MEraseAll, which does not signal FWaitForCond. *)
EraseAll ==
  /\ FOperations' = <<>>
  /\ FCurrentOperationIterator' = 0
  /\ stranded' = IF FNumberOfInvoked = 0 THEN {x \in Waiters : waiter[x] = "blocked"}
                                         ELSE stranded
  /\ UNCHANGED <<FNumberOfInvoked, waiter>>

MEraseAll ==
  /\ Free
  /\ EraseAll
  /\ UNCHANGED <<pc, operation, threadVars, cancelVars>>

MAddThread(t) ==
  /\ Free
  /\ pc[t] = "none"
  /\ Goto(t, "loop")
  /\ UNCHANGED <<queueVars, waitVars, operation, threadVars, cancelVars>>

(* COperationQueue::MWaitFor without a time limit; it returns at once when *)
(* the queue is quiet, else with the first wake-up of FWaitForCond.        *)
MWaitFor(x) ==
  /\ waiter[x] = "out"
  /\ ~(FNumberOfInvoked = 0 /\ FOperations = <<>>)
  /\ waiter' = [waiter EXCEPT ![x] = "blocked"]
  /\ UNCHANGED <<queueVars, stranded, pc, operation, threadVars, cancelVars>>

Alive == {t \in Threads : pc[t] \notin {"none", "stopped"}}

(* CThreadPool::MCancel and ~CThreadPool: the queue is cleared, then the   *)
(* threads are destroyed one after the other.                              *)
MCancel ==
  /\ Free
  /\ EraseAll
  /\ FIs' = FALSE
  /\ victims' = Alive
  /\ cancel' = [cancel EXCEPT !.at = IF Alive = {} THEN "none" ELSE "next"]
  /\ UNCHANGED <<pc, operation, threadVars>>

MRemoveThread(t) ==
  /\ Free
  /\ t \in Alive
  /\ victims' = {t}
  /\ cancel' = [cancel EXCEPT !.at = "next"]
  /\ UNCHANGED <<queueVars, FIs, waitVars, pc, operation, threadVars>>

(* CPoolThread::MCancel of the next thread, up to the loop of MDone. *)
CancelThread(t) ==
  /\ cancel.at = "next"
  /\ t \in victims
  /\ FInOperation' = [FInOperation EXCEPT ![t] = FALSE]
  /\ FDone' = [FDone EXCEPT ![t] = TRUE]
  /\ cancel' = [at |-> "unlock", thread |-> t]
  /\ UNCHANGED <<queueVars, waitVars, pc, operation, FIsWaitNextOperation, FIs, victims>>

MutantUnlockOrJoin ==
  /\ cancel.at = "unlock"
  /\ pc' = WakeAll(pc)
  /\ WakeWaiters
  /\ cancel' = [cancel EXCEPT !.at = "join"]
  /\ UNCHANGED <<queueVars, operation, threadVars, FIs, victims>>

(* One round of MDone: MForceUnlock as long as the thread may be waiting.  *)
(* The second loop of CPoolThread::MCancel finds FIsWaitNextOperation set  *)
(* only by a thread that will see FDone and leave (JoinIsSafe); whether    *)
(* CThread::MCancel ends it or not, MJoin comes next.                      *)
UnlockOrJoin ==
  /\ cancel.at = "unlock"
  /\ IF FIsWaitNextOperation[cancel.thread]
     THEN /\ pc' = WakeAll(pc)
          /\ WakeWaiters
          /\ UNCHANGED cancel
     ELSE /\ cancel' = [cancel EXCEPT !.at = "join"]
          /\ UNCHANGED <<pc, waitVars>>
  /\ UNCHANGED <<queueVars, operation, threadVars, FIs, victims>>

MJoin ==
  /\ cancel.at = "join"
  /\ pc[cancel.thread] = "stopped"
  /\ victims' = victims \ {cancel.thread}
  /\ cancel' = [cancel EXCEPT !.at = IF victims' = {} THEN "none" ELSE "next"]
  /\ UNCHANGED <<queueVars, waitVars, pc, operation, threadVars, FIs>>

Cancelling == (\E t \in Threads : CancelThread(t)) \/ UnlockOrJoin \/ MJoin

-----------------------------------------------------------------------------
Next ==
  \/ \E o \in Ops : MAdd(o)
  \/ \E t \in Threads : Run(t) \/ SpuriousWake(t) \/ MAddThread(t) \/ MRemoveThread(t)
  \/ \E x \in Waiters : MWaitFor(x)
  \/ MEraseAll
  \/ MCancel
  \/ Cancelling

Spec == Init /\ [][Next]_vars

(* Threads run and callbacks return. *)
FairSpec == Spec /\ WF_vars(Cancelling) /\ \A t \in Threads : WF_vars(Run(t))

-----------------------------------------------------------------------------
(* Every variable of the queue and of its threads keeps its type; the      *)
(* iterator never points behind the queue and FNumberOfInvoked, unsigned   *)
(* in the code, never drops below zero.                                    *)
TypeOK ==
  /\ FOperations \in Seq([op : Ops, id : Nat])
  /\ FCurrentOperationIterator \in 0 .. Len(FOperations)
  /\ FNumberOfInvoked \in Nat
  /\ waiter \in [Waiters -> {"out", "blocked"}]
  /\ stranded \subseteq Waiters
  /\ pc \in [Threads -> PCs]
  /\ operation \in [Threads -> Ops \cup {None}]
  /\ FDone \in [Threads -> BOOLEAN]
  /\ FIsWaitNextOperation \in [Threads -> BOOLEAN]
  /\ FInOperation \in [Threads -> BOOLEAN]
  /\ FIs \in BOOLEAN
  /\ cancel \in [at : {"none", "next", "unlock", "join"}, thread : Threads]
  /\ victims \in SUBSET Threads

(* FCurrentOperationIterator looks like a cursor that could skip or repeat *)
(* operations, but it is always at the front or at end(): the queue is     *)
(* served from its front.                                                  *)
IteratorAtFront == FCurrentOperationIterator \in {0, 1}

(* "when IMMEDIATE tasks are not available": an AS_LOWER operation is      *)
(* taken only when no IMMEDIATE one is queued.                             *)
LowerWaitsForImmediate ==
  [][\A t \in Threads :
       /\ operation[t] = None
       /\ operation'[t] \notin Immediate \cup {None}
       => \A i \in DOMAIN FOperations : ~IsImmediate(FOperations[i])]_vars

(* FNumberOfInvoked counts the operations that were taken and not          *)
(* finished, whatever the threads were told meanwhile.                     *)
InvokedIsExact ==
  FNumberOfInvoked = Cardinality({t \in Threads : operation[t] # None})

(* MDone stops broadcasting only when the thread cannot sleep on FCond any *)
(* more; otherwise MJoin would wait for ever.                              *)
JoinIsSafe ==
  cancel.at = "join" =>
    pc[cancel.thread] \notin {"next", "waiting", "woken"}

(* Whoever sleeps in MWaitFor has something to wait for: an operation that *)
(* is queued, or in the hand of a thread that will finish it, though it    *)
(* keep it, or drop it because it was cancelled meanwhile.  Only an erase  *)
(* that empties the queue with no operation in hand leaves sleepers behind *)
(* (MEraseAll and MCancel do not signal FWaitForCond), and only until the  *)
(* next operation comes.                                                   *)
SleepersHaveWork ==
  \A x \in Waiters : waiter[x] = "blocked" =>
    \/ x \in stranded
    \/ FOperations # <<>>
    \/ \E t \in Threads : operation[t] # None

(* A queued operation is taken or dropped, unless IMMEDIATE ones keep it   *)
(* waiting or the pool is left without threads.  So wake-ups spent on a    *)
(* thread that is told to leave are not missed by the others.              *)
OperationsAreTaken ==
  \A o \in Ops :
    <>[](o \in Immediate \/ \A p \in Immediate : ~Queued(p))
      => (Queued(o) ~> InHand(o) \/ ~Queued(o) \/ Alive = {})

(* MCancel and MRemoveThread return. *)
CancelTerminates == cancel.at # "none" ~> cancel.at = "none"
=============================================================================
