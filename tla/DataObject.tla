----------------------------- MODULE DataObject -----------------------------
(***************************************************************************)
(* User data on its way through the kernel (CDataObject.cpp, kernel/core): *)
(* every descriptor has a user_operation_t in FUserDataFIFO that collects  *)
(* the packets pushed for it and hands them, batch by batch, to the        *)
(* handlers of routing_user_data_t on a thread of the pool.                *)
(*                                                                         *)
(* The code schedules an operation only for the first packet of an idle    *)
(* descriptor; an operation that finds more packets when its handlers      *)
(* return asks the pool to run it again (E_CB_SAFE_IT).  FFifoMutex guards *)
(* FUserDataFIFO and every user_operation_t; the handlers run without it.  *)
(*                                                                         *)
(* A packet is its ordinal number among the packets of its descriptor.     *)
(* The pool is the FIFO of operations that OperationQueue describes; an    *)
(* operation is named by the descriptor of its user_operation_t.           *)
(***************************************************************************)
EXTENDS Naturals, Sequences

CONSTANTS
  Desc,       (* descriptors                                               *)
  Workers,    (* threads of the pool                                       *)
  MaxPackets, (* bound: packets pushed per descriptor                      *)
  MaxBatch    (* bound: packets in one push                                *)

ASSUME DataObjectAssumption ==
  /\ Desc # {}
  /\ MaxPackets \in Nat
  /\ MaxBatch \in Nat

VARIABLES
  FUserDataFIFO, (* descriptors that have a user_operation_t               *)
  FUserData,     (* FUserData.FData of each user_operation_t               *)
  FIsWorking,
  tasks,         (* operations queued in the pool                          *)
  pc,            (* where each worker is in MUserOperation                 *)
  op,            (* the operation it runs                                  *)
  batch,         (* _data.FData of the running MUserOperation              *)
  pushed,        (* history: packets pushed                                *)
  handled        (* history: packets whose handlers have returned          *)

vars == <<FUserDataFIFO, FUserData, FIsWorking, tasks, pc, op, batch,
          pushed, handled>>

PCs == {"idle", "taken", "calling", "keeping"}

Init ==
  /\ FUserDataFIFO = {}
  /\ FUserData = [d \in Desc |-> <<>>]
  /\ FIsWorking = [d \in Desc |-> FALSE]
  /\ tasks = <<>>
  /\ pc = [w \in Workers |-> "idle"]
  /\ op = [w \in Workers |-> CHOOSE d \in Desc : TRUE]
  /\ batch = [w \in Workers |-> <<>>]
  /\ pushed = [d \in Desc |-> 0]
  /\ handled = [d \in Desc |-> 0]

MutantNeedCall(d) == FUserData[d] = <<>>

(* _need_call of user_operation_t::MPush.  A user_operation_t made by this *)
(* push has no data and is not working.                                    *)
NeedCall(d) == ~FIsWorking[d] /\ FUserData[d] = <<>>

MutantMPushFront(d, n) ==
  /\ pushed[d] + n <= MaxPackets
  /\ FUserDataFIFO' = FUserDataFIFO \cup {d}
  /\ FUserData' = [FUserData EXCEPT ![d] = [i \in 1 .. n |-> pushed[d] + i] \o @]
  /\ pushed' = [pushed EXCEPT ![d] = @ + n]
  /\ tasks' = IF NeedCall(d) THEN Append(tasks, d) ELSE tasks
  /\ UNCHANGED <<FIsWorking, pc, op, batch, handled>>

MutantMPushAlwaysCalls(d, n) ==
  /\ pushed[d] + n <= MaxPackets
  /\ FUserDataFIFO' = FUserDataFIFO \cup {d}
  /\ FUserData' = [FUserData EXCEPT ![d] = @ \o [i \in 1 .. n |-> pushed[d] + i]]
  /\ pushed' = [pushed EXCEPT ![d] = @ + n]
  /\ tasks' = Append(tasks, d)
  /\ UNCHANGED <<FIsWorking, pc, op, batch, handled>>

(* CDataObject::MPush(routing_user_data_t&): n packets for d. *)
MPush(d, n) ==
  /\ pushed[d] + n <= MaxPackets
  /\ FUserDataFIFO' = FUserDataFIFO \cup {d}
  /\ FUserData' = [FUserData EXCEPT ![d] = @ \o [i \in 1 .. n |-> pushed[d] + i]]
  /\ pushed' = [pushed EXCEPT ![d] = @ + n]
  /\ tasks' = IF NeedCall(d) THEN Append(tasks, d) ELSE tasks
  /\ UNCHANGED <<FIsWorking, pc, op, batch, handled>>

(* A thread of the pool takes the next operation. *)
NextOperation(w) ==
  /\ pc[w] = "idle"
  /\ tasks # <<>>
  /\ op' = [op EXCEPT ![w] = Head(tasks)]
  /\ tasks' = Tail(tasks)
  /\ pc' = [pc EXCEPT ![w] = "taken"]
  /\ UNCHANGED <<FUserDataFIFO, FUserData, FIsWorking, batch, pushed, handled>>

(* First critical section of MUserOperation. *)
BeginUserOperation(w) ==
  /\ pc[w] = "taken"
  /\ batch' = [batch EXCEPT ![w] = FUserData[op[w]]]
  /\ FUserData' = [FUserData EXCEPT ![op[w]] = <<>>]
  /\ FIsWorking' = [FIsWorking EXCEPT ![op[w]] = TRUE]
  /\ pc' = [pc EXCEPT ![w] = "calling"]
  /\ UNCHANGED <<FUserDataFIFO, tasks, op, pushed, handled>>

MutantEndNoRecheck(w) ==
  /\ pc[w] = "calling"
  /\ handled' = [handled EXCEPT ![op[w]] = @ + Len(batch[w])]
  /\ batch' = [batch EXCEPT ![w] = <<>>]
  /\ FIsWorking' = [FIsWorking EXCEPT ![op[w]] = FALSE]
  /\ pc' = [pc EXCEPT ![w] = "idle"]
  /\ UNCHANGED <<FUserDataFIFO, FUserData, tasks, op, pushed>>

(* MCall returned; second critical section: keep the operation if data     *)
(* came meanwhile, else delete the user_operation_t.                       *)
EndUserOperation(w) ==
  /\ pc[w] = "calling"
  /\ handled' = [handled EXCEPT ![op[w]] = @ + Len(batch[w])]
  /\ batch' = [batch EXCEPT ![w] = <<>>]
  /\ \/ /\ FUserData[op[w]] # <<>>
        /\ pc' = [pc EXCEPT ![w] = "keeping"]
        /\ UNCHANGED <<FUserDataFIFO, FIsWorking>>
     \/ /\ FUserData[op[w]] = <<>>
        /\ FIsWorking' = [FIsWorking EXCEPT ![op[w]] = FALSE]
        /\ FUserDataFIFO' = FUserDataFIFO \ {op[w]}
        /\ pc' = [pc EXCEPT ![w] = "idle"]
  /\ UNCHANGED <<FUserData, tasks, op, pushed>>

(* CPoolThread::MRun puts an operation that returned E_CB_SAFE_IT back. *)
KeepOperation(w) ==
  /\ pc[w] = "keeping"
  /\ tasks' = Append(tasks, op[w])
  /\ pc' = [pc EXCEPT ![w] = "idle"]
  /\ UNCHANGED <<FUserDataFIFO, FUserData, FIsWorking, op, batch, pushed, handled>>

Work(w) ==
  \/ NextOperation(w)
  \/ BeginUserOperation(w)
  \/ EndUserOperation(w)
  \/ KeepOperation(w)

Next ==
  \/ \E d \in Desc, n \in 1 .. MaxBatch : MPush(d, n)
  \/ \E w \in Workers : Work(w)

Spec == Init /\ [][Next]_vars

(* The threads of the pool run, and handlers return. *)
FairSpec == Spec /\ \A w \in Workers : WF_vars(Work(w))

-----------------------------------------------------------------------------
(* The types of the state; a worker holds a batch only while its handlers  *)
(* run, so a packet is never both handled and still to be handled.         *)
TypeOK ==
  /\ FUserDataFIFO \in SUBSET Desc
  /\ FUserData \in [Desc -> Seq(Nat)]
  /\ FIsWorking \in [Desc -> BOOLEAN]
  /\ tasks \in Seq(Desc)
  /\ pc \in [Workers -> PCs]
  /\ op \in [Workers -> Desc]
  /\ batch \in [Workers -> Seq(Nat)]
  /\ \A w \in Workers : pc[w] # "calling" => batch[w] = <<>>
  /\ pushed \in [Desc -> Nat]
  /\ handled \in [Desc -> Nat]

Running(w, d) == pc[w] # "idle" /\ op[w] = d
Calling(w, d) == pc[w] = "calling" /\ op[w] = d

(* The handlers of one descriptor are never entered by two threads of the  *)
(* pool at once, although its packets are pushed from any thread.          *)
CallsAreSerial ==
  \A w, v \in Workers : \A d \in Desc :
    Calling(w, d) /\ Calling(v, d) => w = v

(* The handlers see the packets of a descriptor in the order of the        *)
(* pushes: a batch begins with the first packet not yet handled and has no *)
(* gaps.  MRouting and MMerge rely on it.                                  *)
BatchesAreInOrder ==
  \A w \in Workers : pc[w] = "calling" =>
    \A i \in DOMAIN batch[w] : batch[w][i] = handled[op[w]] + i

(* CHECK(!_data.FData.empty()) of MUserOperation never fails, and the      *)
(* object the operation points to has not been erased from FUserDataFIFO.  *)
OperationFindsData ==
  /\ \A i \in DOMAIN tasks :
       tasks[i] \in FUserDataFIFO /\ FUserData[tasks[i]] # <<>>
  /\ \A w \in Workers : pc[w] = "taken" =>
       op[w] \in FUserDataFIFO /\ FUserData[op[w]] # <<>>

(* No packet is stranded: collected data always has an operation that will *)
(* come back for it, queued or running.                                    *)
DataHasOperation ==
  \A d \in Desc : FUserData[d] # <<>> =>
    \/ \E i \in DOMAIN tasks : tasks[i] = d
    \/ \E w \in Workers : Running(w, d)

(* Every pushed packet is handled, whatever else is pushed meanwhile. *)
AllHandled ==
  \A d \in Desc, k \in 1 .. MaxPackets : pushed[d] >= k ~> handled[d] >= k
=============================================================================
