----------------------------- MODULE SmChannel -----------------------------
(***************************************************************************)
(* User data on its way from a customer to its kernel through the shared   *)
(* memory: the CSmMainChannel of the customer (modules/sm_main_channel),   *)
(* the non-blocking half of the transport (CSharedMemoryBaseImpl.cpp) and  *)
(* the CSmMainChannel of the kernel (kernel/io/main).                      *)
(*                                                                         *)
(* A message goes in one part (E_SM_DATA_INFO) or in two: E_SM_INFO, that  *)
(* names the offset of the data buffer, then E_SM_DATA, that is that       *)
(* buffer.  Every part carries a counter of CounterMod values (30 bits in  *)
(* flag_mask_t), and the kernel aborts on a part out of sequence.  A part  *)
(* travels through the ring of the kernel, from which its event handler    *)
(* thread moves it to FBuffers, from which MReceiver takes it.             *)
(*                                                                         *)
(* Buffers are counted in shared memory: refs is the use_count of the data *)
(* buffer at each offset, and an offset is used again once it drops to 0.  *)
(* All buffers have size 1.                                                *)
(***************************************************************************)
EXTENDS Naturals, Sequences, FiniteSets

CONSTANTS
  Workers,          (* threads of the customer's CDataObject (num_of_thread) *)
  Offsets,          (* data buffers of the shared memory                   *)
  None,             (* no offset, no event                                 *)
  RingSize,         (* data events the ring of the kernel can hold         *)
  RECV_BUFFER_SIZE, (* see MGetOption                                      *)
  CounterMod,       (* 2^30                                                *)
  MaxMessages       (* bound: messages sent                                *)

ASSUME SmChannelAssumption ==
  /\ IsFiniteSet(Workers)
  /\ IsFiniteSet(Offsets) /\ None \notin Offsets
  /\ RingSize \in Nat \ {0}
  /\ RECV_BUFFER_SIZE \in Nat
  /\ CounterMod \in Nat /\ CounterMod > 1
  /\ MaxMessages \in Nat

VARIABLES
  FOutUserDataFIFO, (* messages pushed by the application, each with an operation *)
  pushed,           (* history: messages pushed so far                     *)
  pc, part,         (* per worker: step of the sending loop, part to send  *)
  msg, offset,      (* per worker: the message and its data buffer         *)
  mask,             (* per worker: _mask.FData.FCounter                    *)
  FTo,              (* FCounter.FTo of the customer                        *)
  failed,           (* history: messages given to MNoteFailedSend          *)
  ring,             (* data events in the ring of the kernel               *)
  handler, hand,    (* the kernel's event handler thread and its event     *)
  FBuffers, overload,
  FCondVar,         (* FCondVars[E_DATA] of the kernel                     *)
  receiver,         (* MReceiver is awake                                  *)
  FFrom,            (* FIo->FFrom of the kernel                            *)
  FRecv,            (* the info announced for each offset                  *)
  refs,
  delivered         (* history: <<info, data>> given to MReceivedData      *)

customerVars == <<FOutUserDataFIFO, pushed, pc, part, msg, offset, mask, FTo, failed>>
receiverVars == <<receiver, FFrom, FRecv, delivered>>
vars == <<customerVars, ring, handler, hand, FBuffers, overload, FCondVar,
          receiverVars, refs>>

Parts == {"E_SM_INFO", "E_SM_DATA", "E_SM_DATA_INFO"}
Messages == 1 .. MaxMessages
Counters == 0 .. CounterMod - 1
Events == [part : Parts, msg : Messages, counter : Counters, offset : Offsets]

ASSUME NoneIsNoEvent == None \notin Events

Init ==
  /\ FOutUserDataFIFO = <<>> /\ pushed = 0
  /\ pc = [w \in Workers |-> "idle"]
  /\ part = [w \in Workers |-> "E_SM_INFO"]
  /\ msg = [w \in Workers |-> 0]
  /\ offset = [w \in Workers |-> None]
  /\ mask = [w \in Workers |-> 0]
  /\ FTo = 1 /\ failed = {}
  /\ ring = <<>>
  /\ handler = "pop" /\ hand = None
  /\ FBuffers = <<>> /\ overload = FALSE
  /\ FCondVar = FALSE
  /\ receiver = "awake" /\ FFrom = 0
  /\ FRecv = [o \in Offsets |-> 0]
  /\ refs = [o \in Offsets |-> 0]
  /\ delivered = <<>>

-----------------------------------------------------------------------------
(* The customer. *)

(* CCustomer::MSend, CDataObject::MPush(send_data_to_t&). *)
MPush ==
  /\ pushed < MaxMessages
  /\ pushed' = pushed + 1
  /\ FOutUserDataFIFO' = Append(FOutUserDataFIFO, pushed + 1)
  /\ UNCHANGED <<pc, part, msg, offset, mask, FTo, failed, ring, handler, hand,
                 FBuffers, overload, FCondVar, receiverVars, refs>>

(* MUserOperation and the beginning of CSmMainChannel::MSend: the data is  *)
(* brought into shared memory, or the channel is closed or the memory      *)
(* exhausted and the failure is noted.                                     *)
BeginSend(w) ==
  /\ pc[w] = "idle"
  /\ FOutUserDataFIFO # <<>>
  /\ FOutUserDataFIFO' = Tail(FOutUserDataFIFO)
  /\ msg' = [msg EXCEPT ![w] = Head(FOutUserDataFIFO)]
  /\ \/ \E o \in Offsets, p \in {"E_SM_INFO", "E_SM_DATA_INFO"} :
          /\ refs[o] = 0
          /\ refs' = [refs EXCEPT ![o] = 1]
          /\ offset' = [offset EXCEPT ![w] = o]
          /\ part' = [part EXCEPT ![w] = p]
          /\ pc' = [pc EXCEPT ![w] = "read"]
          /\ UNCHANGED failed
     \/ /\ failed' = failed \cup {Head(FOutUserDataFIFO)}
        /\ UNCHANGED <<pc, part, offset, refs>>
  /\ UNCHANGED <<pushed, mask, FTo, ring, handler, hand, FBuffers, overload,
                 FCondVar, receiverVars>>

(* The head of the loop of MSendInOnePart and MSendInTwoParts. *)
ReadCounter(w) ==
  /\ pc[w] = "read"
  /\ mask' = [mask EXCEPT ![w] = FTo]
  /\ pc' = [pc EXCEPT ![w] = "check"]
  /\ UNCHANGED <<FOutUserDataFIFO, pushed, part, msg, offset, FTo, failed, ring,
                 handler, hand, FBuffers, overload, FCondVar, receiverVars, refs>>

MutantAgain(w) ==
  /\ pc' = [pc EXCEPT ![w] = "read"]
  /\ refs' = IF part[w] = "E_SM_INFO" THEN refs
             ELSE [refs EXCEPT ![offset[w]] = @ + 1]
  /\ UNCHANGED failed

(* E_AGAIN: the kernel read its ring lately or answers a keep-alive        *)
(* request.  The reference taken for the event is given back: no change.   *)
Again(w) ==
  /\ pc' = [pc EXCEPT ![w] = "read"]
  /\ UNCHANGED <<failed, refs>>

MutantError(w) ==
  /\ failed' = failed \cup {msg[w]}
  /\ pc' = [pc EXCEPT ![w] = "read"]
  /\ UNCHANGED refs

(* E_ERROR: it does not.  CSmMainChannel::MSend notes the failure and the  *)
(* message goes with its buffer, whether or not its info has been sent.    *)
Error(w) ==
  /\ failed' = failed \cup {msg[w]}
  /\ refs' = [refs EXCEPT ![offset[w]] = @ - 1]
  /\ pc' = [pc EXCEPT ![w] = "idle"]

(* CImpl::MSend: the overload flag of the kernel is read first. *)
CheckOverload(w) ==
  /\ pc[w] = "check"
  /\ \/ /\ ~overload
        /\ pc' = [pc EXCEPT ![w] = "put"]
        /\ UNCHANGED <<failed, refs>>
     \/ overload /\ Again(w)
     \/ overload /\ Error(w)
  /\ UNCHANGED <<FOutUserDataFIFO, pushed, part, msg, offset, mask, FTo, ring,
                 handler, hand, FBuffers, overload, FCondVar, receiverVars>>

(* The event takes a reference of its own along (CBuffer::refuse).  Only   *)
(* an event put into an empty ring signals the handler of the kernel.      *)
PutEvent(w) ==
  /\ Len(ring) < RingSize
  /\ handler' = IF ring = <<>> /\ handler = "asleep" THEN "pop" ELSE handler
  /\ ring' = Append(ring, [part |-> part[w], msg |-> msg[w],
                           counter |-> mask[w], offset |-> offset[w]])
  /\ refs' = IF part[w] = "E_SM_INFO" THEN refs
             ELSE [refs EXCEPT ![offset[w]] = @ + 1]
  /\ pc' = [pc EXCEPT ![w] = "sent"]
  /\ UNCHANGED failed

(* MInvokeEventTo under the lock of the kernel's ring. *)
MInvokeEventTo(w) ==
  /\ pc[w] = "put"
  /\ \/ PutEvent(w)
     \/ /\ Len(ring) >= RingSize
        /\ Again(w) \/ Error(w)
        /\ UNCHANGED <<ring, handler>>
  /\ UNCHANGED <<FOutUserDataFIFO, pushed, part, msg, offset, mask, FTo, hand,
                 FBuffers, overload, FCondVar, receiverVars>>

(* ++_mask.FData.FCounter on the bit-field of flag_mask_t. *)
NextCounter(c) == (c + 1) % CounterMod

MutantBumpCounter(w) ==
  /\ pc[w] = "sent"
  /\ IF part[w] = "E_SM_INFO"
     THEN /\ part' = [part EXCEPT ![w] = "E_SM_DATA"]
          /\ pc' = [pc EXCEPT ![w] = "read"]
          /\ UNCHANGED <<refs, FTo>>
     ELSE /\ refs' = [refs EXCEPT ![offset[w]] = @ - 1]
          /\ pc' = [pc EXCEPT ![w] = "idle"]
          /\ FTo' = NextCounter(mask[w])
          /\ UNCHANGED part
  /\ UNCHANGED <<FOutUserDataFIFO, pushed, msg, offset, mask, failed, ring,
                 handler, hand, FBuffers, overload, FCondVar, receiverVars>>

(* After E_SENDED: the next part, or release of the customer's reference.  *)
BumpCounter(w) ==
  /\ pc[w] = "sent"
  /\ FTo' = NextCounter(mask[w])
  /\ IF part[w] = "E_SM_INFO"
     THEN /\ part' = [part EXCEPT ![w] = "E_SM_DATA"]
          /\ pc' = [pc EXCEPT ![w] = "read"]
          /\ UNCHANGED refs
     ELSE /\ refs' = [refs EXCEPT ![offset[w]] = @ - 1]
          /\ pc' = [pc EXCEPT ![w] = "idle"]
          /\ UNCHANGED part
  /\ UNCHANGED <<FOutUserDataFIFO, pushed, msg, offset, mask, failed, ring,
                 handler, hand, FBuffers, overload, FCondVar, receiverVars>>

Work(w) ==
  \/ BeginSend(w) \/ ReadCounter(w) \/ CheckOverload(w)
  \/ MInvokeEventTo(w) \/ BumpCounter(w)

-----------------------------------------------------------------------------
(* The event handler thread of the kernel. *)

(* MWaitForEvent, one wait on the signal event of the ring or one event.   *)
SleepOnRing ==
  /\ handler = "pop"
  /\ ring = <<>>
  /\ handler' = "asleep"
  /\ UNCHANGED <<customerVars, ring, hand, FBuffers, overload, FCondVar,
                 receiverVars, refs>>

PopEvent ==
  /\ handler = "pop"
  /\ ring # <<>>
  /\ hand' = Head(ring)
  /\ ring' = Tail(ring)
  /\ handler' = "push"
  /\ UNCHANGED <<customerVars, FBuffers, overload, FCondVar, receiverVars, refs>>

(* MReceiveData of an event under FBufMutex. *)
StoreEvent ==
  /\ handler = "push"
  /\ FBuffers' = Append(FBuffers, hand)
  /\ overload' = (overload \/ Len(FBuffers') > RECV_BUFFER_SIZE)
  /\ hand' = None
  /\ handler' = "signal"
  /\ UNCHANGED <<customerVars, ring, FCondVar, receiverVars, refs>>

MutantSignal ==
  /\ handler = "signal"
  /\ FCondVar' = TRUE
  /\ handler' = "pop"
  /\ UNCHANGED <<customerVars, ring, hand, FBuffers, overload, receiverVars, refs>>

(* MSingleConvar(E_DATA): the flag, then the broadcast. *)
Signal ==
  /\ handler = "signal"
  /\ FCondVar' = TRUE
  /\ receiver' = IF receiver = "asleep" THEN "woken" ELSE receiver
  /\ handler' = "pop"
  /\ UNCHANGED <<customerVars, ring, hand, FBuffers, overload, FFrom, FRecv,
                 delivered, refs>>

HandleEvent == SleepOnRing \/ PopEvent \/ StoreEvent \/ Signal

-----------------------------------------------------------------------------
(* CSmMainChannel::MReceiver of the kernel. *)

(* The loop of MReceiveData(recv_t&) and MWaitConvar under FCondMutex, on  *)
(* which MSingleConvar waits: a flag left by an earlier event is consumed  *)
(* before the thread goes to sleep.                                        *)
WaitForData ==
  /\ receiver = "awake"
  /\ FBuffers = <<>>
  /\ FCondVar' = FALSE
  /\ receiver' = IF FCondVar THEN "awake" ELSE "asleep"
  /\ UNCHANGED <<customerVars, ring, handler, hand, FBuffers, overload, FFrom,
                 FRecv, delivered, refs>>

(* MWaitConvar returns and the loop of MReceiveData goes round. *)
WakeUp ==
  /\ receiver = "woken"
  /\ FCondVar' = FALSE
  /\ receiver' = "awake"
  /\ UNCHANGED <<customerVars, ring, handler, hand, FBuffers, overload, FFrom,
                 FRecv, delivered, refs>>

(* The end of MGetData: the flag goes when the size falls to the limit.    *)
StillOverloaded ==
  overload /\ ~( /\ Len(FBuffers) - 1 <= RECV_BUFFER_SIZE
                 /\ Len(FBuffers) > RECV_BUFFER_SIZE )

MutantNoteInfo(o, m) == IF FRecv[o] = 0 THEN [FRecv EXCEPT ![o] = m] ELSE FRecv

(* FRecv[_point] = _info, over whatever an abandoned message left there.   *)
NoteInfo(o, m) == [FRecv EXCEPT ![o] = m]

(* MReceiveImpl: what is delivered, the new FRecv and whether the buffer   *)
(* was a data buffer, which MReceivedData takes over and lets go of later. *)
MReceiveImpl(e) ==
  \/ /\ e.part = "E_SM_INFO"
     /\ FRecv' = NoteInfo(e.offset, e.msg)
     /\ UNCHANGED <<delivered, refs>>
  \/ /\ e.part = "E_SM_DATA"
     /\ delivered' = Append(delivered, <<FRecv[e.offset], e.msg>>)
     /\ FRecv' = [FRecv EXCEPT ![e.offset] = 0]
     /\ refs' = [refs EXCEPT ![e.offset] = @ - 1]
  \/ /\ e.part = "E_SM_DATA_INFO"
     /\ delivered' = Append(delivered, <<e.msg, e.msg>>)
     /\ refs' = [refs EXCEPT ![e.offset] = @ - 1]
     /\ UNCHANGED FRecv

(* MGetData, MCheckPacketSequence, MReceiveImpl *)
Receive ==
  /\ receiver = "awake"
  /\ FBuffers # <<>>
  /\ FBuffers' = Tail(FBuffers)
  /\ overload' = StillOverloaded
  /\ FFrom' = Head(FBuffers).counter
  /\ MReceiveImpl(Head(FBuffers))
  /\ UNCHANGED <<customerVars, ring, handler, hand, FCondVar, receiver>>

MReceiver == WaitForData \/ WakeUp \/ Receive

-----------------------------------------------------------------------------
Next ==
  \/ MPush
  \/ \E w \in Workers : Work(w)
  \/ HandleEvent
  \/ MReceiver

Spec == Init /\ [][Next]_vars

(* The threads run; a sender is told E_AGAIN or E_ERROR only while the     *)
(* kernel is behind.                                                       *)
FairSpec ==
  /\ Spec
  /\ \A w \in Workers : WF_vars(Work(w))
  /\ WF_vars(HandleEvent)
  /\ WF_vars(MReceiver)

-----------------------------------------------------------------------------
(* Every variable keeps its type: the counters stay within the bit-field,  *)
(* and no more than RingSize data events are in the ring of the kernel.    *)
TypeOK ==
  /\ FOutUserDataFIFO \in Seq(Messages) /\ pushed \in 0 .. MaxMessages
  /\ pc \in [Workers -> {"idle", "read", "check", "put", "sent"}]
  /\ part \in [Workers -> Parts]
  /\ msg \in [Workers -> 0 .. MaxMessages]
  /\ offset \in [Workers -> Offsets \cup {None}]
  /\ mask \in [Workers -> Counters] /\ FTo \in Counters
  /\ failed \subseteq Messages
  /\ ring \in Seq(Events) /\ Len(ring) <= RingSize
  /\ handler \in {"pop", "asleep", "push", "signal"}
  /\ hand \in Events \cup {None}
  /\ FBuffers \in Seq(Events)
  /\ overload \in BOOLEAN /\ FCondVar \in BOOLEAN
  /\ receiver \in {"awake", "asleep", "woken"}
  /\ FFrom \in Counters
  /\ FRecv \in [Offsets -> 0 .. MaxMessages]
  /\ refs \in [Offsets -> Nat]
  /\ delivered \in Seq((0 .. MaxMessages) \X Messages)

(* The kernel never aborts in MCheckPacketSequence with "The packet has    *)
(* been lost": the next part it takes carries the counter after the last   *)
(* one, whatever was sent again, given up or wrapped around.               *)
SequenceIsKept ==
  FBuffers # <<>> => FFrom = 0 \/ Head(FBuffers).counter = NextCounter(FFrom)

(* The kernel never aborts on CHECK(_it != FRecv.end()) and joins every    *)
(* data buffer to the info sent for it, also at an offset that an earlier  *)
(* message announced and then failed to send.                              *)
InfoFitsData == \A i \in DOMAIN delivered : delivered[i][1] = delivered[i][2]

(* Messages reach MReceivedData in the order the application sent them,    *)
(* none twice, and none for which the customer got a fail_send_id_t.       *)
DeliveredInOrder ==
  /\ \A i, j \in DOMAIN delivered : i < j => delivered[i][2] < delivered[j][2]
  /\ \A i \in DOMAIN delivered : delivered[i][2] \notin failed

Holds(e, o) == e # None /\ e.offset = o /\ e.part # "E_SM_INFO"
Held(s, o) == Cardinality({i \in DOMAIN s : Holds(s[i], o)})

(* The use count of a data buffer is the number of its holders, the sender *)
(* and the events on their way: it is not reused while one is left, and is *)
(* not leaked when a send is refused, repeated or given up.                *)
BuffersAreCounted ==
  \A o \in Offsets :
    refs[o] = Cardinality({w \in Workers : pc[w] # "idle" /\ offset[w] = o})
              + Held(ring, o) + Held(<<hand>>, o) + Held(FBuffers, o)

Delivered(m) == \E i \in DOMAIN delivered : delivered[i][2] = m

(* Every message given to the data object is in the end delivered to the   *)
(* kernel or reported as failed: no wake-up of MReceiver is lost and no    *)
(* sender is told E_AGAIN for ever.                                        *)
AllSettled ==
  \A m \in Messages : pushed >= m ~> m \in failed \/ Delivered(m)
=============================================================================
