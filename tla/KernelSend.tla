----------------------------- MODULE KernelSend -----------------------------
(***************************************************************************)
(* User data on its way out of the kernel: CKernelIo, the CBuffering of    *)
(* each channel and the descriptors (kernel/io, kernel/core).              *)
(*                                                                         *)
(* MSendTo puts messages into the buffer of a channel and, unless a thread *)
(* is sending from it, enters the channel in FOperartionSendFor and queues *)
(* an IO operation.  An operation serves the smallest entry of that set,   *)
(* whoever made it, and goes on until the buffer of its channel is empty.  *)
(* Meanwhile the IO manager opens channels and takes them down: it removes *)
(* the channel first and closes the descriptor after that.  Descriptors    *)
(* are never used again.                                                   *)
(*                                                                         *)
(* All messages have size 1.  The pool is taken to accept every operation: *)
(* its limit of IO threads is not reached.                                 *)
(***************************************************************************)
EXTENDS Naturals, Sequences, FiniteSets, Functions

CONSTANTS
  Descs,                    (* descriptors, ordered as in a std::set       *)
  Threads,                  (* IO threads of the pool                      *)
  None,                     (* FDoingThread = 0                            *)
  FMaxBufferSizeForChannel, (* 0: no limit                                 *)
  MaxMessages, MaxBatch     (* bounds: messages in all, messages in a call *)

ASSUME KernelSendAssumption ==
  /\ Descs \subseteq Nat /\ IsFiniteSet(Descs)
  /\ IsFiniteSet(Threads) /\ None \notin Threads
  /\ FMaxBufferSizeForChannel \in Nat
  /\ MaxMessages \in Nat /\ MaxBatch \in Nat

VARIABLES
  managers,           (* the keys of FIoManagers                           *)
  infos,              (* descriptors with an info in CDescriptors          *)
  gone,               (* history: channels that were removed               *)
  FData, FBuffer, FHandlingBuffer, FDoingThread,
  FOperartionSendFor,
  ops,                (* sMSendUser operations in the queue of the pool    *)
  pc, desc, data,     (* per thread: its step, _d.first and _data          *)
  open,               (* per thread: _is_not_closed                        *)
  dest,               (* history: the descriptor of each message           *)
  sent, failed        (* history: messages sent by each channel, messages  *)
                      (* noted as failed                                   *)

channelVars == <<managers, infos, gone>>
bufferVars == <<FData, FBuffer, FHandlingBuffer, FDoingThread>>
threadVars == <<pc, desc, data, open>>
historyVars == <<dest, sent, failed>>
vars == <<channelVars, bufferVars, FOperartionSendFor, ops, threadVars, historyVars>>

Messages == 1 .. MaxMessages

Init ==
  /\ managers = {} /\ infos = {} /\ gone = {}
  /\ FData = [d \in Descs |-> <<>>]
  /\ FBuffer = [d \in Descs |-> 0]
  /\ FHandlingBuffer = [d \in Descs |-> 0]
  /\ FDoingThread = [d \in Descs |-> None]
  /\ FOperartionSendFor = {} /\ ops = 0
  /\ pc = [t \in Threads |-> "idle"]
  /\ desc = [t \in Threads |-> 0]
  /\ data = [t \in Threads |-> <<>>]
  /\ open = [t \in Threads |-> TRUE]
  /\ dest = <<>> /\ sent = [d \in Descs |-> <<>>] /\ failed = {}

-----------------------------------------------------------------------------
(* Channels.  The TCP server adds the channel before it opens the          *)
(* descriptor, the other managers open the descriptor first.               *)

MAddChannelFor(d) ==
  /\ d \notin managers \cup gone
  /\ managers' = managers \cup {d}
  /\ UNCHANGED <<infos, gone, bufferVars, FOperartionSendFor, ops, threadVars,
                 historyVars>>

MOpen(d) ==
  /\ d \notin infos \cup gone
  /\ infos' = infos \cup {d}
  /\ UNCHANGED <<managers, gone, bufferVars, FOperartionSendFor, ops, threadVars,
                 historyVars>>

(* MRemoveManagerFor has write access to FIoManagers, which MBeginSend     *)
(* reads: it waits for threads at "try".  The buffer goes, and what is     *)
(* left in it is noted as failed.                                          *)
MRemoveChannelFor(d) ==
  /\ d \in managers \cap infos
  /\ \A t \in Threads : pc[t] # "try"
  /\ managers' = managers \ {d}
  /\ gone' = gone \cup {d}
  /\ FOperartionSendFor' = FOperartionSendFor \ {d}
  /\ FData' = [FData EXCEPT ![d] = <<>>]
  /\ FBuffer' = [FBuffer EXCEPT ![d] = 0]
  /\ FHandlingBuffer' = [FHandlingBuffer EXCEPT ![d] = 0]
  /\ FDoingThread' = [FDoingThread EXCEPT ![d] = None]
  /\ failed' = failed \cup Range(FData[d])
  /\ UNCHANGED <<infos, ops, threadVars, dest, sent>>

(* CDescriptors::MClose *)
MClose(d) ==
  /\ d \in infos \cap gone
  /\ infos' = infos \ {d}
  /\ UNCHANGED <<managers, gone, bufferVars, FOperartionSendFor, ops, threadVars,
                 historyVars>>

-----------------------------------------------------------------------------
(* MSendTo: MPutUserDataToSendFifo and, for what it leaves, a failure.     *)

Smaller(a, b) == IF a < b THEN a ELSE b

(* CBuffering::MPut stops at the first message beyond the limit. *)
Taken(d, n) ==
  IF FMaxBufferSizeForChannel = 0 THEN n
  ELSE Smaller(n, FMaxBufferSizeForChannel - FBuffer[d])

PutAll(d, new) ==
  LET k == Taken(d, Len(new))
  IN  /\ FData' = [FData EXCEPT ![d] = @ \o SubSeq(new, 1, k)]
      /\ FBuffer' = IF FMaxBufferSizeForChannel = 0 THEN FBuffer
                    ELSE [FBuffer EXCEPT ![d] = @ + k]
      /\ failed' = failed \cup Range(SubSeq(new, k + 1, Len(new)))

CallSender(d) ==
  IF FDoingThread[d] = None /\ d \notin FOperartionSendFor
  THEN /\ FOperartionSendFor' = FOperartionSendFor \cup {d}
       /\ ops' = ops + 1
  ELSE UNCHANGED <<FOperartionSendFor, ops>>

MSendTo(d, n) ==
  /\ d \in infos \cup gone
  /\ Len(dest) + n <= MaxMessages
  /\ dest' = dest \o [i \in 1 .. n |-> d]
  /\ LET new == [i \in 1 .. n |-> Len(dest) + i]
     IN  \/ /\ d \in managers
            /\ PutAll(d, new)
            /\ CallSender(d)
         \/ /\ d \notin managers
            /\ failed' = failed \cup Range(new)
            /\ UNCHANGED <<FData, FBuffer, FOperartionSendFor, ops>>
  /\ UNCHANGED <<channelVars, FHandlingBuffer, FDoingThread, threadVars, sent>>

-----------------------------------------------------------------------------
(* MSendUserDataImpl, run by the IO threads of the pool. *)

StartOperation(t) ==
  /\ pc[t] = "idle"
  /\ ops > 0
  /\ ops' = ops - 1
  /\ pc' = [pc EXCEPT ![t] = "pop"]
  /\ UNCHANGED <<channelVars, bufferVars, FOperartionSendFor, desc, data, open,
                 historyVars>>

(* MSendUserDataImpl returns and its local variables go. *)
End(t) ==
  /\ pc' = [pc EXCEPT ![t] = "idle"]
  /\ desc' = [desc EXCEPT ![t] = 0]
  /\ data' = [data EXCEPT ![t] = <<>>]
  /\ open' = [open EXCEPT ![t] = TRUE]

(* MBeginSend under FMutexOperation *)
PopDescriptor(t) ==
  /\ pc[t] = "pop"
  /\ \/ /\ FOperartionSendFor = {}
        /\ End(t)
        /\ UNCHANGED FOperartionSendFor
     \/ \E d \in FOperartionSendFor :
          /\ \A e \in FOperartionSendFor : d <= e
          /\ FOperartionSendFor' = FOperartionSendFor \ {d}
          /\ desc' = [desc EXCEPT ![t] = d]
          /\ pc' = [pc EXCEPT ![t] = "try"]
          /\ UNCHANGED <<data, open>>
  /\ UNCHANGED <<channelVars, bufferVars, ops, historyVars>>

(* CBuffering::MTry *)
MTry(t, d) ==
  /\ data' = [data EXCEPT ![t] = FData[d]]
  /\ FData' = [FData EXCEPT ![d] = <<>>]
  /\ FDoingThread' = [FDoingThread EXCEPT ![d] = t]

MutantTryData(t) ==
  LET d == desc[t]
  IN  /\ pc[t] = "try"
      /\ IF d \in managers /\ FData[d] # <<>>
         THEN /\ MTry(t, d)
              /\ FHandlingBuffer' = [FHandlingBuffer EXCEPT ![d] = FBuffer[d]]
              /\ pc' = [pc EXCEPT ![t] = "check"]
              /\ UNCHANGED <<desc, open>>
         ELSE /\ End(t)
              /\ UNCHANGED <<FData, FDoingThread, FHandlingBuffer>>
      /\ UNCHANGED <<channelVars, FBuffer, FOperartionSendFor, ops, historyVars>>

(* MBeginSend under FBufMutex *)
TryData(t) ==
  LET d == desc[t]
  IN  /\ pc[t] = "try"
      /\ IF d \in managers /\ FDoingThread[d] = None /\ FData[d] # <<>>
         THEN /\ MTry(t, d)
              /\ FHandlingBuffer' = [FHandlingBuffer EXCEPT ![d] = FBuffer[d]]
              /\ pc' = [pc EXCEPT ![t] = "check"]
              /\ UNCHANGED <<desc, open>>
         ELSE /\ End(t)
              /\ UNCHANGED <<FData, FDoingThread, FHandlingBuffer>>
      /\ UNCHANGED <<channelVars, FBuffer, FOperartionSendFor, ops, historyVars>>

(* CDescriptors::MGet: without an info the function ends, and _data with it. *)
CheckInfo(t) ==
  /\ pc[t] = "check"
  /\ \/ /\ desc[t] \in infos
        /\ pc' = [pc EXCEPT ![t] = "send"]
        /\ UNCHANGED <<desc, data, open>>
     \/ desc[t] \notin infos /\ End(t)
  /\ UNCHANGED <<channelVars, bufferVars, FOperartionSendFor, ops, historyVars>>

MutantFailOne(t) ==
  /\ failed' = failed \cup {Head(data[t])}
  /\ open' = [open EXCEPT ![t] = @ /\ desc[t] \in infos]
  /\ UNCHANGED <<sent, data>>

(* MFillMsgHandlersFor finds no handler or the IO manager cannot send. *)
FailOne(t) ==
  /\ failed' = failed \cup {Head(data[t])}
  /\ open' = [open EXCEPT ![t] = @ /\ desc[t] \in infos]
  /\ data' = [data EXCEPT ![t] = Tail(@)]
  /\ UNCHANGED sent

(* One round of the loop of MSendingUserDataTo. *)
SendOne(t) ==
  /\ pc[t] = "send"
  /\ data[t] # <<>>
  /\ \/ /\ open[t]
        /\ sent' = [sent EXCEPT ![desc[t]] = Append(@, Head(data[t]))]
        /\ data' = [data EXCEPT ![t] = Tail(@)]
        /\ UNCHANGED <<failed, open>>
     \/ FailOne(t)
  /\ UNCHANGED <<channelVars, bufferVars, FOperartionSendFor, ops, pc, desc, dest>>

MutantFinished(d) == FBuffer[d]

(* CBuffering::MFinish; the list of unsent messages was cleared before. *)
Finished(d) == FBuffer[d] - FHandlingBuffer[d]

MutantMNextSend(t) ==
  LET d == desc[t]
  IN  /\ pc[t] = "send"
      /\ data[t] = <<>>
      /\ End(t)
      /\ FBuffer' = [FBuffer EXCEPT ![d] = IF d \in managers THEN Finished(d) ELSE @]
      /\ FHandlingBuffer' = [FHandlingBuffer EXCEPT ![d] = IF d \in managers THEN 0 ELSE @]
      /\ FDoingThread' = [FDoingThread EXCEPT ![d] = IF d \in managers THEN None ELSE @]
      /\ UNCHANGED <<channelVars, FData, FOperartionSendFor, ops, historyVars>>

(* MFinish, then MTry for what came meanwhile. *)
MNextSend(t) ==
  LET d == desc[t]
  IN  /\ pc[t] = "send"
      /\ data[t] = <<>>
      /\ \/ /\ d \notin managers
            /\ End(t)
            /\ UNCHANGED bufferVars
         \/ /\ d \in managers
            /\ FBuffer' = [FBuffer EXCEPT ![d] = Finished(d)]
            /\ IF FData[d] # <<>>
               THEN /\ MTry(t, d)
                    /\ FHandlingBuffer' = [FHandlingBuffer EXCEPT ![d] = Finished(d)]
                    /\ open' = [open EXCEPT ![t] = TRUE]
                    /\ UNCHANGED <<pc, desc>>
               ELSE /\ FDoingThread' = [FDoingThread EXCEPT ![d] = None]
                    /\ FHandlingBuffer' = [FHandlingBuffer EXCEPT ![d] = 0]
                    /\ End(t)
                    /\ UNCHANGED FData
      /\ UNCHANGED <<channelVars, FOperartionSendFor, ops, historyVars>>

MSendUserDataImpl(t) ==
  \/ StartOperation(t) \/ PopDescriptor(t) \/ TryData(t)
  \/ CheckInfo(t) \/ SendOne(t) \/ MNextSend(t)

-----------------------------------------------------------------------------
Next ==
  \/ \E d \in Descs : MAddChannelFor(d) \/ MOpen(d) \/ MRemoveChannelFor(d) \/ MClose(d)
  \/ \E d \in Descs, n \in 1 .. MaxBatch : MSendTo(d, n)
  \/ \E t \in Threads : MSendUserDataImpl(t)

Spec == Init /\ [][Next]_vars

(* The threads of the pool run; MSend of the IO managers returns. *)
FairSpec == Spec /\ \A t \in Threads : WF_vars(MSendUserDataImpl(t))

-----------------------------------------------------------------------------
(* Every variable keeps its type, and no channel buffers more than its     *)
(* limit, what is being sent included.                                     *)
TypeOK ==
  /\ managers \subseteq Descs /\ infos \subseteq Descs /\ gone \subseteq Descs
  /\ FData \in [Descs -> Seq(Messages)]
  /\ FBuffer \in [Descs -> 0 .. FMaxBufferSizeForChannel]
  /\ FHandlingBuffer \in [Descs -> 0 .. FMaxBufferSizeForChannel]
  /\ FDoingThread \in [Descs -> Threads \cup {None}]
  /\ FOperartionSendFor \subseteq Descs /\ ops \in Nat
  /\ pc \in [Threads -> {"idle", "pop", "try", "check", "send"}]
  /\ desc \in [Threads -> Descs \cup {0}]
  /\ data \in [Threads -> Seq(Messages)]
  /\ open \in [Threads -> BOOLEAN]
  /\ dest \in Seq(Descs) /\ sent \in [Descs -> Seq(Messages)] /\ failed \subseteq Messages

Sending(t) == pc[t] \in {"check", "send"}

(* One thread at a time sends for a channel and it is the one FDoingThread *)
(* names: the CHECK_EQs of MTry and MFinish hold, although any operation   *)
(* may serve any channel.                                                  *)
OneSender ==
  /\ \A t, u \in Threads : Sending(t) /\ Sending(u) /\ desc[t] = desc[u] => t = u
  /\ \A t \in Threads :
       Sending(t) /\ desc[t] \in managers => FDoingThread[desc[t]] = t
  /\ \A d \in managers : FDoingThread[d] # None =>
       Sending(FDoingThread[d]) /\ desc[FDoingThread[d]] = d

(* Buffered data is never left without a thread that is sending for the    *)
(* channel or an entry of FOperartionSendFor, and there is an operation on *)
(* its way for every entry.                                                *)
DataHasSender ==
  /\ \A d \in managers : FData[d] # <<>> =>
       \/ FDoingThread[d] # None
       \/ d \in FOperartionSendFor
       \/ \E t \in Threads : pc[t] = "try" /\ desc[t] = d
  /\ Cardinality(FOperartionSendFor)
       <= ops + Cardinality({t \in Threads : pc[t] = "pop"})

(* FBuffer is what waits in the buffer and what is being sent: the limit   *)
(* of a channel refuses messages only while it is really full.             *)
BufferIsExact ==
  FMaxBufferSizeForChannel > 0 =>
    \A d \in managers : FBuffer[d] = Len(FData[d]) + FHandlingBuffer[d]

(* A channel sends messages in the order of the MSendTo calls, each once   *)
(* and none that was noted as failed.                                      *)
SentInOrder ==
  \A d \in Descs :
    /\ \A i, j \in DOMAIN sent[d] : i < j => sent[d][i] < sent[d][j]
    /\ \A i \in DOMAIN sent[d] : dest[sent[d][i]] = d /\ sent[d][i] \notin failed

Sent == UNION {Range(sent[d]) : d \in Descs}

(* Every message for a channel that stays open is sent or noted as failed: *)
(* whatever the callers of MSendTo put, a moment comes (again and again)   *)
(* at which nothing is left over.                                          *)
AllSettled ==
  []<>(\A m \in DOMAIN dest : m \in failed \/ m \in Sent \/ dest[m] \in gone)

(* A message that is no longer in a buffer or in the hands of a thread was *)
(* sent or noted with MNoteFailSend, also when its channel is taken down:  *)
(* CCustomer.h says that "if errors occurred during the data transfer"     *)
(* EVENT_FAILED_SEND is raised.                                            *)
NoSilentLoss ==
  \A m \in DOMAIN dest :
    \/ m \in failed \/ m \in Sent
    \/ \E d \in Descs : m \in Range(FData[d])
    \/ \E t \in Threads : m \in Range(data[t])
=============================================================================
