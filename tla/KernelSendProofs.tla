-------------------------- MODULE KernelSendProofs --------------------------
(***************************************************************************)
(* Proofs about KernelSend, for any number of channels, IO threads and     *)
(* messages and any limit of a buffer.                                     *)
(***************************************************************************)
EXTENDS KernelSend, SequenceTheorems, FiniteSetTheorems, TLAPS

(* MRemoveManagerFor destroys the buffer: a descriptor without a channel   *)
(* has nothing in it.                                                      *)
Outside ==
  \A d \in Descs \ managers :
    /\ FData[d] = <<>> /\ FBuffer[d] = 0 /\ FHandlingBuffer[d] = 0
    /\ FDoingThread[d] = None

(* A thread that sends does so for a channel there is or was.              *)
Placed ==
  /\ managers \cap gone = {}
  /\ \A t \in Threads :
       /\ pc[t] \in {"try", "check", "send"} => desc[t] \in Descs
       /\ Sending(t) => desc[t] \in managers \cup gone

(* A channel in use has its info: MClose comes after MRemoveChannelFor.    *)
Opened ==
  \A d \in managers : FData[d] # <<>> \/ FDoingThread[d] # None => d \in infos

IInv == TypeOK /\ Outside /\ Placed /\ Opened /\ OneSender /\ BufferIsExact

-----------------------------------------------------------------------------
(* Facts about the messages of one MSendTo.                                *)

Batch(n) == [i \in 1 .. n |-> Len(dest) + i]

(* The numbers MSendTo gives to its messages, and their destinations.      *)
LEMMA NewMessages ==
  ASSUME TypeOK, NEW d \in Descs, NEW n \in 1 .. MaxBatch,
         Len(dest) + n <= MaxMessages,
         dest' = dest \o [i \in 1 .. n |-> d]
  PROVE  /\ Batch(n) \in Seq(Messages) /\ Len(Batch(n)) = n
         /\ \A i \in 1 .. n : Batch(n)[i] = Len(dest) + i
         /\ dest' \in Seq(Descs) /\ Len(dest') = Len(dest) + n
         /\ \A i \in 1 .. Len(dest) : dest'[i] = dest[i]
         /\ \A i \in 1 .. n : dest'[Len(dest) + i] = d
<1> DEFINE ds == [i \in 1 .. n |-> d]
<1>1. n \in Nat /\ Len(dest) \in Nat /\ dest \in Seq(Descs)
  BY KernelSendAssumption DEF TypeOK
<1>2. /\ Batch(n) \in Seq(Messages) /\ Len(Batch(n)) = n
      /\ \A i \in 1 .. n : Batch(n)[i] = Len(dest) + i
  BY <1>1, KernelSendAssumption DEF Messages, Batch
<1>3. ds \in Seq(Descs) /\ Len(ds) = n /\ \A i \in 1 .. n : ds[i] = d
  BY <1>1
<1> HIDE DEF ds
<1>4. dest' = dest \o ds
  BY DEF ds
<1>5. /\ dest' \in Seq(Descs) /\ Len(dest') = Len(dest) + n
      /\ \A i \in 1 .. Len(dest) + n : dest'[i] =
           IF i <= Len(dest) THEN dest[i] ELSE ds[i - Len(dest)]
  BY <1>1, <1>3, <1>4, ConcatProperties
<1>6. ASSUME NEW i \in 1 .. n PROVE dest'[Len(dest) + i] = d
  BY <1>1, <1>3, <1>5
<1>7. QED
  BY <1>1, <1>2, <1>5, <1>6

(* MPut takes as many messages as the limit allows.                        *)
LEMMA TakenBounds ==
  ASSUME TypeOK, NEW d \in Descs, NEW n \in Nat
  PROVE  /\ Taken(d, n) \in 0 .. n
         /\ FMaxBufferSizeForChannel > 0 =>
              FBuffer[d] + Taken(d, n) \in 0 .. FMaxBufferSizeForChannel
BY KernelSendAssumption, SMTT(30) DEF TypeOK, Taken, Smaller

(* The part of a batch that is put and the part that is not.               *)
LEMMA SplitBatch ==
  ASSUME NEW S, NEW s \in Seq(S), NEW k \in 0 .. Len(s)
  PROVE  /\ SubSeq(s, 1, k) \in Seq(S) /\ Len(SubSeq(s, 1, k)) = k
         /\ \A i \in 1 .. k : SubSeq(s, 1, k)[i] = s[i]
         /\ Range(SubSeq(s, k + 1, Len(s))) \subseteq {s[i] : i \in k + 1 .. Len(s)}
         /\ {s[i] : i \in 1 .. Len(s)} \subseteq S
<1>1. Len(s) \in Nat /\ k \in Nat /\ \A i \in 1 .. Len(s) : s[i] \in S
  BY LenProperties
<1>2. /\ SubSeq(s, 1, k) \in Seq(S) /\ Len(SubSeq(s, 1, k)) = k
      /\ \A i \in 1 .. k : SubSeq(s, 1, k)[i] = s[i]
  BY <1>1
<1>3. Range(SubSeq(s, k + 1, Len(s))) \subseteq {s[i] : i \in k + 1 .. Len(s)}
  <2> DEFINE r == SubSeq(s, k + 1, Len(s))
  <2>1. DOMAIN r = 1 .. Len(s) - k /\ \A i \in 1 .. Len(s) - k : r[i] = s[k + i]
    BY <1>1
  <2> HIDE DEF r
  <2>2. ASSUME NEW i \in DOMAIN r PROVE r[i] \in {s[j] : j \in k + 1 .. Len(s)}
    <3>1. k + i \in k + 1 .. Len(s) /\ r[i] = s[k + i]
      BY <1>1, <2>1
    <3>2. QED
      BY <3>1
  <2>3. Range(r) \subseteq {s[i] : i \in k + 1 .. Len(s)}
    BY <2>2 DEF Range
  <2>4. QED
    BY <2>3 DEF r
<1>4. QED
  BY <1>1, <1>2, <1>3

-----------------------------------------------------------------------------
LEMMA InitIInv == Init => IInv
<1> SUFFICES ASSUME Init PROVE IInv
  OBVIOUS
<1>1. TypeOK
  BY KernelSendAssumption DEF Init, TypeOK
<1>2. Outside /\ Placed /\ Opened
  BY DEF Init, Outside, Placed, Opened, Sending
<1>3. OneSender /\ BufferIsExact
  BY DEF Init, OneSender, BufferIsExact, Sending
<1>4. QED
  BY <1>1, <1>2, <1>3 DEF IInv

(* The channels and descriptors of the IO manager.                         *)
LEMMA ChannelsKeepIInv ==
  ASSUME IInv, NEW d \in Descs,
         MAddChannelFor(d) \/ MOpen(d) \/ MClose(d)
  PROVE  IInv'
<1> USE DEF IInv
<1>1. CASE MAddChannelFor(d)
  <2> USE <1>1 DEF MAddChannelFor, bufferVars, threadVars, historyVars
  <2>1. TypeOK'
    BY DEF TypeOK
  <2>2. Outside' /\ Placed' /\ Opened'
    BY DEF Outside, Placed, Opened, Sending, TypeOK
  <2>3. OneSender'
    <3>1. \A t \in Threads : Sending(t) => desc[t] # d
      BY DEF Placed
    <3>2. QED
      BY <3>1 DEF OneSender, Sending, Outside, TypeOK
  <2>4. BufferIsExact'
    BY DEF BufferIsExact, Outside
  <2>5. QED
    BY <2>1, <2>2, <2>3, <2>4
<1>2. CASE MOpen(d)
  BY <1>2 DEF MOpen, bufferVars, threadVars, historyVars, TypeOK, Outside, Placed,
              Opened, OneSender, BufferIsExact, Sending
<1>3. CASE MClose(d)
  BY <1>3 DEF MClose, bufferVars, threadVars, historyVars, TypeOK, Outside, Placed,
              Opened, OneSender, BufferIsExact, Sending
<1>4. QED
  BY <1>1, <1>2, <1>3

(* The buffer goes with its channel, the thread that sends for it goes on. *)
LEMMA RemoveKeepsIInv ==
  ASSUME IInv, NEW d \in Descs, MRemoveChannelFor(d)
  PROVE  IInv'
<1> USE DEF IInv, MRemoveChannelFor, threadVars
<1>1. TypeOK'
  <2>1. failed' \subseteq Messages
    BY RangeOfSeq DEF TypeOK
  <2>2. /\ FData' \in [Descs -> Seq(Messages)]
        /\ FBuffer' \in [Descs -> 0 .. FMaxBufferSizeForChannel]
        /\ FHandlingBuffer' \in [Descs -> 0 .. FMaxBufferSizeForChannel]
        /\ FDoingThread' \in [Descs -> Threads \cup {None}]
    BY KernelSendAssumption DEF TypeOK
  <2>3. QED
    BY <2>1, <2>2 DEF TypeOK
<1>2. Outside'
  BY DEF Outside, TypeOK
<1>3. Placed' /\ Opened'
  BY DEF Placed, Opened, Sending, TypeOK
<1>4. OneSender'
  BY DEF OneSender, Sending, TypeOK
<1>5. BufferIsExact'
  BY DEF BufferIsExact, TypeOK
<1>6. QED
  BY <1>1, <1>2, <1>3, <1>4, <1>5

LEMMA SendToKeepsIInv ==
  ASSUME IInv, NEW d \in Descs, NEW n \in 1 .. MaxBatch, MSendTo(d, n)
  PROVE  IInv'
<1> DEFINE new == Batch(n)
           k == Taken(d, Len(new))
<1>1. /\ new \in Seq(Messages) /\ Len(new) = n
      /\ dest' \in Seq(Descs)
  BY NewMessages, ZenonT(60) DEF MSendTo, IInv
<1>2. n \in Nat /\ k \in 0 .. Len(new)
  BY <1>1, TakenBounds, KernelSendAssumption DEF IInv
<1>3. CASE d \notin managers
  <2>1. Range(new) \subseteq Messages
    BY <1>1, RangeOfSeq
  <2>2. failed' = failed \cup Range(new)
    BY <1>3 DEF MSendTo, Batch
  <2> HIDE DEF new
  <2>3. UNCHANGED <<channelVars, bufferVars, FOperartionSendFor, ops, threadVars, sent>>
    BY <1>3 DEF MSendTo, bufferVars
  <2>4. QED
    BY <1>1, <2>1, <2>2, <2>3 DEF IInv, TypeOK, Outside, Placed, Opened, OneSender,
       BufferIsExact, Sending, channelVars, bufferVars, threadVars
<1>4. CASE d \in managers
  <2>1. /\ FData' = [FData EXCEPT ![d] = @ \o SubSeq(new, 1, k)]
        /\ FBuffer' = IF FMaxBufferSizeForChannel = 0 THEN FBuffer
                      ELSE [FBuffer EXCEPT ![d] = @ + k]
        /\ failed' = failed \cup Range(SubSeq(new, k + 1, Len(new)))
    BY <1>4 DEF MSendTo, PutAll, Batch
  <2>2. /\ UNCHANGED <<channelVars, FHandlingBuffer, FDoingThread, threadVars, sent>>
        /\ d \in infos \cup gone
        /\ CallSender(d)
    BY <1>4 DEF MSendTo
  <2>3. /\ SubSeq(new, 1, k) \in Seq(Messages)
        /\ Len(SubSeq(new, 1, k)) = k
        /\ Range(SubSeq(new, k + 1, Len(new))) \subseteq Messages
    <3> HIDE DEF new, k
    <3>1. {new[i] : i \in k + 1 .. Len(new)} \subseteq {new[i] : i \in 1 .. Len(new)}
      <4>1. k + 1 .. Len(new) \subseteq 1 .. Len(new)
        BY <1>1, <1>2
      <4>2. QED
        BY <4>1
    <3>2. QED
      BY <1>1, <1>2, <3>1, SplitBatch
  <2>4. FMaxBufferSizeForChannel > 0 =>
          FBuffer[d] + k \in 0 .. FMaxBufferSizeForChannel
    BY <1>1, <1>2, TakenBounds DEF IInv
  <2> DEFINE add == SubSeq(new, 1, k)
  <2> HIDE DEF new, k
  <2>5. FData[d] \in Seq(Messages)
    BY DEF IInv, TypeOK
  <2>6. /\ FData[d] \o add \in Seq(Messages)
        /\ Len(FData[d] \o add) = Len(FData[d]) + k
    BY <2>3, <2>5, ConcatProperties
  <2>7. FOperartionSendFor' \subseteq Descs /\ ops' \in Nat
    BY <2>2 DEF CallSender, IInv, TypeOK
  <2>8. FData' = [FData EXCEPT ![d] = FData[d] \o add]
    BY <2>1
  <2> HIDE DEF add
  <2>9. TypeOK'
    <3>1. FBuffer' \in [Descs -> 0 .. FMaxBufferSizeForChannel]
      BY <2>1, <2>4, KernelSendAssumption DEF IInv, TypeOK
    <3>2. FData' \in [Descs -> Seq(Messages)] /\ failed' \subseteq Messages
      BY <2>1, <2>3, <2>6, <2>8 DEF IInv, TypeOK
    <3>3. QED
      BY <1>1, <2>2, <2>7, <3>1, <3>2 DEF IInv, TypeOK, channelVars, threadVars
  <2>10. Outside'
    BY <1>4, <2>1, <2>2, <2>8 DEF IInv, TypeOK, Outside, channelVars
  <2>11. Placed' /\ Opened'
    <3>1. d \in infos
      BY <1>4, <2>2 DEF IInv, Placed
    <3>2. QED
      BY <2>2, <2>8, <3>1 DEF IInv, TypeOK, Placed, Opened, Sending, channelVars, threadVars
  <2>12. OneSender'
    BY <2>2 DEF IInv, OneSender, Sending, channelVars, threadVars
  <2>13. BufferIsExact'
    <3> SUFFICES ASSUME FMaxBufferSizeForChannel > 0, NEW e \in managers
                 PROVE  FBuffer'[e] = Len(FData'[e]) + FHandlingBuffer'[e]
      BY <2>2 DEF BufferIsExact, channelVars
    <3>1. e \in Descs /\ FBuffer[e] = Len(FData[e]) + FHandlingBuffer[e]
      BY DEF IInv, BufferIsExact, TypeOK
    <3>2. Len(FData[e]) \in Nat /\ FHandlingBuffer[e] \in Nat /\ k \in Nat
      BY <1>2, <3>1, KernelSendAssumption DEF IInv, TypeOK
    <3>3. CASE e = d
      <4>1. FData'[d] = FData[d] \o add /\ FHandlingBuffer' = FHandlingBuffer
        BY <2>2, <2>8 DEF IInv, TypeOK
      <4>2. FBuffer'[d] = FBuffer[d] + k
        BY <2>1, KernelSendAssumption DEF IInv, TypeOK
      <4>3. QED
        BY <2>6, <3>1, <3>2, <3>3, <4>1, <4>2
    <3>4. CASE e # d
      BY <2>1, <2>2, <2>8, <3>1, <3>4 DEF IInv, TypeOK
    <3>5. QED
      BY <3>3, <3>4
  <2>14. QED
    BY <2>9, <2>10, <2>11, <2>12, <2>13 DEF IInv
<1>5. QED
  BY <1>3, <1>4

(* A thread takes the whole buffer and becomes FDoingThread: MTry of       *)
(* MBeginSend and of MNextSend.                                            *)
LEMMA TakeKeepsIInv ==
  ASSUME IInv, NEW t \in Threads, NEW d \in managers,
         desc[t] = d, FData[d] # <<>>,
         FDoingThread[d] \in {None, t},
         MTry(t, d),
         NEW b \in 0 .. FMaxBufferSizeForChannel,
         FBuffer' = [FBuffer EXCEPT ![d] = b],
         FHandlingBuffer' = [FHandlingBuffer EXCEPT ![d] = b],
         pc' \in [Threads -> {"idle", "pop", "try", "check", "send"}],
         \A u \in Threads \ {t} : pc'[u] = pc[u],
         pc'[t] \in {"check", "send"},
         open' \in [Threads -> BOOLEAN],
         UNCHANGED <<channelVars, desc, FOperartionSendFor, ops, historyVars>>
  PROVE  IInv'
<1> USE DEF IInv, MTry, channelVars, historyVars
<1>0. d \in Descs /\ d \in infos
  BY DEF TypeOK, Opened
<1>1. TypeOK'
  <2>1. /\ data' \in [Threads -> Seq(Messages)]
        /\ FData' \in [Descs -> Seq(Messages)]
        /\ FDoingThread' \in [Descs -> Threads \cup {None}]
    BY <1>0 DEF TypeOK
  <2>2. /\ FBuffer' \in [Descs -> 0 .. FMaxBufferSizeForChannel]
        /\ FHandlingBuffer' \in [Descs -> 0 .. FMaxBufferSizeForChannel]
    BY <1>0 DEF TypeOK
  <2>3. QED
    BY <2>1, <2>2 DEF TypeOK
<1>2. Outside'
  BY <1>0 DEF Outside, TypeOK
<1>3. Placed'
  BY <1>0 DEF Placed, Sending
<1>4. Opened'
  BY <1>0 DEF Opened, TypeOK
<1>5. OneSender'
  <2>1. \A u \in Threads \ {t} : Sending(u) => desc[u] # d
    BY KernelSendAssumption DEF OneSender
  <2>2. \A u \in Threads \ {t} : Sending(u)' <=> Sending(u)
    BY DEF Sending
  <2>3. Sending(t)'
    BY DEF Sending
  <2>4. FDoingThread'[d] = t /\ \A e \in Descs \ {d} : FDoingThread'[e] = FDoingThread[e]
    BY <1>0 DEF TypeOK
  <2>5. \A u, v \in Threads : Sending(u)' /\ Sending(v)' /\ desc'[u] = desc'[v] => u = v
    BY <2>1, <2>2, <2>3 DEF OneSender
  <2>6. \A u \in Threads : Sending(u)' /\ desc'[u] \in managers' => FDoingThread'[desc'[u]] = u
    <3>1. managers \subseteq Descs
      BY DEF TypeOK
    <3>2. QED
      BY <1>0, <2>1, <2>2, <2>4, <3>1 DEF OneSender
  <2>7. \A e \in managers' : FDoingThread'[e] # None =>
          /\ pc'[FDoingThread'[e]] \in {"check", "send"}
          /\ desc'[FDoingThread'[e]] = e
    <3> SUFFICES ASSUME NEW e \in managers, FDoingThread'[e] # None
                 PROVE  /\ pc'[FDoingThread'[e]] \in {"check", "send"}
                        /\ desc[FDoingThread'[e]] = e
      OBVIOUS
    <3>1. CASE e = d
      BY <2>4, <3>1
    <3>2. CASE e # d
      <4>1. e \in Descs /\ FDoingThread'[e] = FDoingThread[e]
        BY <2>4, <3>2 DEF TypeOK
      <4>2. FDoingThread[e] \in Threads /\ Sending(FDoingThread[e]) /\ desc[FDoingThread[e]] = e
        BY <4>1 DEF OneSender, TypeOK
      <4>3. FDoingThread[e] # t
        BY <3>2, <4>2
      <4>4. QED
        BY <4>1, <4>2, <4>3 DEF Sending
    <3>3. QED
      BY <3>1, <3>2
  <2>8. QED
    BY <2>5, <2>6, <2>7 DEF OneSender, Sending
<1>6. BufferIsExact'
  <2> SUFFICES ASSUME FMaxBufferSizeForChannel > 0, NEW e \in managers
               PROVE  FBuffer'[e] = Len(FData'[e]) + FHandlingBuffer'[e]
    BY DEF BufferIsExact
  <2>1. e \in Descs /\ FBuffer[e] = Len(FData[e]) + FHandlingBuffer[e]
    BY DEF BufferIsExact, TypeOK
  <2>2. CASE e = d
    <3>1. FBuffer'[e] = b /\ FHandlingBuffer'[e] = b /\ FData'[e] = <<>>
      BY <1>0, <2>2 DEF TypeOK
    <3>2. QED
      BY <3>1
  <2>3. CASE e # d
    BY <2>1, <2>3 DEF TypeOK
  <2>4. QED
    BY <2>2, <2>3
<1>7. QED
  BY <1>1, <1>2, <1>3, <1>4, <1>5, <1>6

(* A thread that holds nothing ends its operation.                         *)
LEMMA EndKeepsIInv ==
  ASSUME IInv, NEW t \in Threads, End(t),
         \A d \in managers : FDoingThread[d] # t,
         UNCHANGED <<channelVars, bufferVars, ops, historyVars>>,
         FOperartionSendFor' = FOperartionSendFor
  PROVE  IInv'
<1> USE DEF IInv, End, channelVars, bufferVars, historyVars
<1>1. TypeOK'
  BY EmptySeq DEF TypeOK
<1>2. Outside' /\ Placed' /\ Opened'
  BY DEF Outside, Placed, Opened, Sending, TypeOK
<1>3. OneSender'
  BY DEF OneSender, Sending, TypeOK
<1>4. BufferIsExact'
  BY DEF BufferIsExact
<1>5. QED
  BY <1>1, <1>2, <1>3, <1>4

LEMMA BeginKeepsIInv ==
  ASSUME IInv, NEW t \in Threads,
         StartOperation(t) \/ PopDescriptor(t) \/ TryData(t)
  PROVE  IInv'
<1>0. TypeOK
  BY DEF IInv
<1>1. CASE StartOperation(t)
  <2> USE <1>1 DEF IInv, StartOperation, channelVars, bufferVars, historyVars
  <2>1. TypeOK'
    BY DEF TypeOK
  <2>2. Outside' /\ Placed' /\ Opened' /\ BufferIsExact'
    BY DEF Outside, Placed, Opened, BufferIsExact, Sending, TypeOK
  <2>3. OneSender'
    BY DEF OneSender, Sending, TypeOK
  <2>4. QED
    BY <2>1, <2>2, <2>3
<1>2. ASSUME pc[t] \in {"pop", "try"}, NEW d \in managers
      PROVE  FDoingThread[d] # t
  BY <1>0, <1>2, KernelSendAssumption DEF IInv, OneSender, Sending
<1>3. CASE PopDescriptor(t)
  <2>1. CASE End(t) /\ UNCHANGED FOperartionSendFor
    BY <1>2, <1>3, <2>1, EndKeepsIInv DEF PopDescriptor
  <2>2. ASSUME NEW d \in FOperartionSendFor,
               FOperartionSendFor' = FOperartionSendFor \ {d},
               desc' = [desc EXCEPT ![t] = d],
               pc' = [pc EXCEPT ![t] = "try"],
               UNCHANGED <<data, open>>
        PROVE  IInv'
    <3> USE <1>3, <2>2 DEF IInv, PopDescriptor, channelVars, bufferVars, historyVars
    <3>1. TypeOK'
      BY DEF TypeOK
    <3>2. Outside' /\ Placed' /\ Opened' /\ BufferIsExact'
      BY DEF Outside, Placed, Opened, BufferIsExact, Sending, TypeOK
    <3>3. OneSender'
      BY DEF OneSender, Sending, TypeOK
    <3>4. QED
      BY <3>1, <3>2, <3>3
  <2>3. QED
    BY <1>3, <2>1, <2>2 DEF PopDescriptor
<1>4. CASE TryData(t)
  <2> DEFINE d == desc[t]
  <2>1. CASE d \in managers /\ FDoingThread[d] = None /\ FData[d] # <<>>
    <3>1. d \in Descs /\ FBuffer[d] \in 0 .. FMaxBufferSizeForChannel
      BY <1>0, <2>1 DEF TypeOK
    <3>2. /\ MTry(t, d)
          /\ FHandlingBuffer' = [FHandlingBuffer EXCEPT ![d] = FBuffer[d]]
          /\ pc' = [pc EXCEPT ![t] = "check"]
          /\ UNCHANGED <<desc, open>>
          /\ UNCHANGED <<channelVars, FBuffer, FOperartionSendFor, ops, historyVars>>
      BY <1>4, <2>1 DEF TryData
    <3>3. /\ pc' \in [Threads -> {"idle", "pop", "try", "check", "send"}]
          /\ pc'[t] = "check" /\ \A u \in Threads \ {t} : pc'[u] = pc[u]
          /\ open' \in [Threads -> BOOLEAN]
          /\ FBuffer' = [FBuffer EXCEPT ![d] = FBuffer[d]]
      BY <1>0, <3>2 DEF TypeOK
    <3> HIDE DEF d
    <3>4. desc[t] = d
      BY DEF d
    <3>5. QED
      BY <2>1, <3>1, <3>2, <3>3, <3>4, TakeKeepsIInv
  <2>2. CASE ~ (d \in managers /\ FDoingThread[d] = None /\ FData[d] # <<>>)
    <3>1. End(t) /\ UNCHANGED <<FData, FDoingThread, FHandlingBuffer>>
      BY <1>4, <2>2 DEF TryData
    <3>2. QED
      BY <1>2, <1>4, <3>1, EndKeepsIInv DEF TryData, bufferVars
  <2>3. QED
    BY <2>1, <2>2
<1>5. QED
  BY <1>1, <1>3, <1>4

LEMMA SendKeepsIInv ==
  ASSUME IInv, NEW t \in Threads, CheckInfo(t) \/ SendOne(t)
  PROVE  IInv'
<1>0. TypeOK
  BY DEF IInv
<1>1. CASE CheckInfo(t)
  <2>1. CASE desc[t] \in infos /\ pc' = [pc EXCEPT ![t] = "send"]
                               /\ UNCHANGED <<desc, data, open>>
    <3> USE <1>1, <2>1 DEF IInv, CheckInfo, channelVars, bufferVars, historyVars
    <3>1. TypeOK'
      BY DEF TypeOK
    <3>2. Outside' /\ Placed' /\ Opened' /\ BufferIsExact'
      BY DEF Outside, Placed, Opened, BufferIsExact, Sending, TypeOK
    <3>3. OneSender'
      <4>1. \A u \in Threads : Sending(u)' <=> Sending(u)
        BY DEF Sending, TypeOK
      <4>2. QED
        BY <4>1 DEF OneSender, Sending, TypeOK
    <3>4. QED
      BY <3>1, <3>2, <3>3
  <2>2. CASE desc[t] \notin infos /\ End(t)
    <3>1. \A d \in managers : FDoingThread[d] # t
      BY <2>2, KernelSendAssumption DEF IInv, OneSender, Opened
    <3>2. QED
      BY <1>1, <2>2, <3>1, EndKeepsIInv DEF CheckInfo
  <2>3. QED
    BY <1>1, <2>1, <2>2 DEF CheckInfo
<1>2. CASE SendOne(t)
  <2>1. /\ data[t] \in Seq(Messages) /\ data[t] # <<>>
        /\ desc[t] \in Descs /\ sent[desc[t]] \in Seq(Messages)
    BY <1>0, <1>2 DEF SendOne, TypeOK, IInv, Placed
  <2>2. Head(data[t]) \in Messages /\ Tail(data[t]) \in Seq(Messages)
    BY <2>1, HeadTailProperties
  <2>3. /\ data' = [data EXCEPT ![t] = Tail(data[t])]
        /\ \/ /\ sent' = [sent EXCEPT ![desc[t]] = Append(sent[desc[t]], Head(data[t]))]
              /\ UNCHANGED <<failed, open>>
           \/ /\ failed' = failed \cup {Head(data[t])}
              /\ open' = [open EXCEPT ![t] = open[t] /\ desc[t] \in infos]
              /\ UNCHANGED sent
        /\ UNCHANGED <<channelVars, bufferVars, FOperartionSendFor, ops, pc, desc, dest>>
    BY <1>2 DEF SendOne, FailOne
  <2>4. Append(sent[desc[t]], Head(data[t])) \in Seq(Messages)
    BY <2>1, <2>2, AppendProperties
  <2>5. /\ data' \in [Threads -> Seq(Messages)] /\ sent' \in [Descs -> Seq(Messages)]
        /\ failed' \subseteq Messages
    BY <1>0, <2>1, <2>2, <2>3, <2>4, ZenonT(60) DEF TypeOK
  <2>6. open' \in [Threads -> BOOLEAN]
    <3>1. (open[t] /\ desc[t] \in infos) \in BOOLEAN
      OBVIOUS
    <3>2. QED
      BY <1>0, <2>3, <3>1 DEF TypeOK
  <2>7. TypeOK'
    BY <1>0, <2>3, <2>5, <2>6 DEF TypeOK, channelVars, bufferVars
  <2>8. QED
    BY <2>3, <2>7 DEF IInv, Outside, Placed, Opened, OneSender, BufferIsExact,
                      Sending, channelVars, bufferVars
<1>3. QED
  BY <1>1, <1>2

(* MFinish subtracts what MTry counted: there is nothing below zero.       *)
LEMMA FinishedBounds ==
  ASSUME IInv, NEW d \in managers
  PROVE  /\ Finished(d) \in 0 .. FMaxBufferSizeForChannel
         /\ FMaxBufferSizeForChannel > 0 => Finished(d) = Len(FData[d])
<1>1. /\ d \in Descs
      /\ FBuffer[d] \in 0 .. FMaxBufferSizeForChannel
      /\ FHandlingBuffer[d] \in 0 .. FMaxBufferSizeForChannel
      /\ Len(FData[d]) \in Nat
  BY DEF IInv, TypeOK
<1>2. FMaxBufferSizeForChannel > 0 => FBuffer[d] = Len(FData[d]) + FHandlingBuffer[d]
  BY DEF IInv, BufferIsExact
<1>3. QED
  BY <1>1, <1>2, KernelSendAssumption DEF Finished

LEMMA NextSendKeepsIInv ==
  ASSUME IInv, NEW t \in Threads, MNextSend(t)
  PROVE  IInv'
<1> DEFINE d == desc[t]
<1>0. /\ TypeOK /\ pc[t] = "send"
      /\ UNCHANGED <<channelVars, FOperartionSendFor, ops, historyVars>>
  BY DEF IInv, MNextSend
<1>1. CASE d \notin managers
  <2>1. \A e \in managers : FDoingThread[e] # t
    BY <1>1, KernelSendAssumption DEF IInv, OneSender
  <2>2. QED
    BY <1>0, <1>1, <2>1, EndKeepsIInv DEF MNextSend
<1>2. CASE d \in managers /\ FData[d] # <<>>
  <2>1. d \in managers /\ FDoingThread[d] = t
    BY <1>0, <1>2 DEF IInv, OneSender, Sending
  <2>2. Finished(d) \in 0 .. FMaxBufferSizeForChannel
    BY <2>1, FinishedBounds
  <2>3. /\ FBuffer' = [FBuffer EXCEPT ![d] = Finished(d)]
        /\ FHandlingBuffer' = [FHandlingBuffer EXCEPT ![d] = Finished(d)]
        /\ MTry(t, d)
        /\ open' = [open EXCEPT ![t] = TRUE]
        /\ UNCHANGED <<pc, desc>>
    BY <1>2 DEF MNextSend
  <2>4. /\ open' \in [Threads -> BOOLEAN]
        /\ pc' \in [Threads -> {"idle", "pop", "try", "check", "send"}]
    BY <1>0, <2>3 DEF TypeOK
  <2>5. pc'[t] = "send" /\ \A u \in Threads \ {t} : pc'[u] = pc[u]
    BY <1>0, <2>3
  <2>6. desc[t] = d
    OBVIOUS
  <2> HIDE DEF d
  <2>7. QED
    BY <1>0, <1>2, <2>1, <2>2, <2>3, <2>4, <2>5, <2>6, TakeKeepsIInv
<1>3. CASE d \in managers /\ FData[d] = <<>>
  <2>1. d \in Descs /\ FDoingThread[d] = t
    BY <1>0, <1>3 DEF IInv, OneSender, Sending, TypeOK
  <2>2. /\ FBuffer' = [FBuffer EXCEPT ![d] = Finished(d)]
        /\ FHandlingBuffer' = [FHandlingBuffer EXCEPT ![d] = 0]
        /\ FDoingThread' = [FDoingThread EXCEPT ![d] = None]
        /\ End(t) /\ UNCHANGED FData
    BY <1>3 DEF MNextSend
  <2>3. /\ Finished(d) \in 0 .. FMaxBufferSizeForChannel
        /\ FMaxBufferSizeForChannel > 0 => Finished(d) = 0
    BY <1>3, FinishedBounds
  <2>10. \A e \in managers \ {d} : FDoingThread[e] # t
    BY KernelSendAssumption DEF IInv, OneSender
  <2> USE <1>0, <2>2 DEF End, IInv, channelVars, historyVars
  <2>4. TypeOK'
    <3>1. /\ FBuffer' \in [Descs -> 0 .. FMaxBufferSizeForChannel]
          /\ FHandlingBuffer' \in [Descs -> 0 .. FMaxBufferSizeForChannel]
          /\ FDoingThread' \in [Descs -> Threads \cup {None}]
      BY <2>1, <2>3, KernelSendAssumption DEF TypeOK
    <3>2. data' \in [Threads -> Seq(Messages)]
      BY EmptySeq DEF TypeOK
    <3>3. QED
      BY <3>1, <3>2 DEF TypeOK
  <2>5. Outside' /\ Placed' /\ Opened'
    BY <1>3, <2>1 DEF Outside, Placed, Opened, Sending, TypeOK
  <2>6. OneSender'
    <3>1. \A u \in Threads \ {t} : Sending(u)' = Sending(u) /\ desc'[u] = desc[u]
      BY DEF Sending, TypeOK
    <3>2. ~ Sending(t)'
      BY DEF Sending, TypeOK
    <3>3. FDoingThread'[d] = None /\ \A e \in Descs \ {d} : FDoingThread'[e] = FDoingThread[e]
      BY <2>1 DEF TypeOK
    <3>4. \A u \in Threads \ {t} : Sending(u) => desc[u] # d
      BY <1>3, <2>1 DEF OneSender
    <3>5. managers \subseteq Descs /\ \A e \in managers \ {d} : FDoingThread[e] # t
      BY <2>10 DEF TypeOK
    <3>6. \A u, v \in Threads : Sending(u)' /\ Sending(v)' /\ desc'[u] = desc'[v] => u = v
      BY <3>1, <3>2 DEF OneSender
    <3>7. \A u \in Threads : Sending(u)' /\ desc'[u] \in managers => FDoingThread'[desc'[u]] = u
      BY <3>1, <3>2, <3>3, <3>4, <3>5 DEF OneSender
    <3>8. ASSUME NEW e \in managers, FDoingThread'[e] # None
          PROVE  /\ pc'[FDoingThread'[e]] \in {"check", "send"}
                 /\ desc'[FDoingThread'[e]] = e
      <4>1. e # d /\ e \in Descs /\ FDoingThread'[e] = FDoingThread[e] /\ FDoingThread[e] # t
        BY <3>3, <3>5, <3>8
      <4>2. FDoingThread[e] \in Threads \ {t} /\ Sending(FDoingThread[e])
            /\ desc[FDoingThread[e]] = e
        BY <3>8, <4>1 DEF OneSender, TypeOK
      <4>3. QED
        BY <4>1, <4>2 DEF Sending, TypeOK
    <3>9. QED
      BY <3>6, <3>7, <3>8 DEF OneSender, Sending
  <2>7. BufferIsExact'
    <3> SUFFICES ASSUME FMaxBufferSizeForChannel > 0, NEW e \in managers
                 PROVE  FBuffer'[e] = Len(FData'[e]) + FHandlingBuffer'[e]
      BY DEF BufferIsExact
    <3>1. e \in Descs /\ FBuffer[e] = Len(FData[e]) + FHandlingBuffer[e]
      BY DEF BufferIsExact, TypeOK
    <3>2. CASE e = d
      <4>1. FBuffer'[e] = 0 /\ FHandlingBuffer'[e] = 0 /\ FData'[e] = <<>>
        BY <1>3, <2>1, <2>3, <3>2 DEF TypeOK
      <4>2. QED
        BY <4>1
    <3>3. CASE e # d
      BY <3>1, <3>3 DEF TypeOK
    <3>4. QED
      BY <3>2, <3>3
  <2>8. QED
    BY <2>4, <2>5, <2>6, <2>7
<1>4. QED
  BY <1>1, <1>2, <1>3

LEMMA NextIInv == IInv /\ [Next]_vars => IInv'
<1> SUFFICES ASSUME IInv, [Next]_vars PROVE IInv'
  OBVIOUS
<1>1. ASSUME NEW d \in Descs,
             MAddChannelFor(d) \/ MOpen(d) \/ MRemoveChannelFor(d) \/ MClose(d)
      PROVE  IInv'
  BY <1>1, ChannelsKeepIInv, RemoveKeepsIInv
<1>2. ASSUME NEW d \in Descs, NEW n \in 1 .. MaxBatch, MSendTo(d, n)
      PROVE  IInv'
  BY <1>2, SendToKeepsIInv
<1>3. ASSUME NEW t \in Threads, MSendUserDataImpl(t)
      PROVE  IInv'
  BY <1>3, BeginKeepsIInv, SendKeepsIInv, NextSendKeepsIInv DEF MSendUserDataImpl
<1>4. CASE UNCHANGED vars
  BY <1>4 DEF IInv, TypeOK, Outside, Placed, Opened, OneSender, BufferIsExact, Sending,
              vars, channelVars, bufferVars, threadVars, historyVars
<1>5. QED
  BY <1>1, <1>2, <1>3, <1>4 DEF Next

LEMMA IInvHolds == Spec => []IInv
BY InitIInv, NextIInv, PTL DEF Spec

(* One thread at a time sends for a channel, and it is the one that        *)
(* FDoingThread names, whatever operation came to serve the channel and    *)
(* however often channels are added and taken down meanwhile.              *)
THEOREM OneSenderHolds == Spec => []OneSender
<1>1. IInv => OneSender
  BY DEF IInv
<1>2. QED
  BY <1>1, IInvHolds, PTL

(* The size FBuffer that MPut compares with its limit is the size of what  *)
(* waits and of what is being sent, and stays within the limit.            *)
THEOREM BufferIsExactHolds == Spec => [](TypeOK /\ BufferIsExact)
<1>1. IInv => TypeOK /\ BufferIsExact
  BY DEF IInv
<1>2. QED
  BY <1>1, IInvHolds, PTL

-----------------------------------------------------------------------------
(* DataHasSender                                                           *)

Popping == {t \in Threads : pc[t] = "pop"}

(* Where a channel with data looks for its sender.                         *)
Served(d) ==
  \/ FDoingThread[d] # None
  \/ d \in FOperartionSendFor
  \/ \E t \in Threads : pc[t] = "try" /\ desc[t] = d

LEMMA FiniteCounts ==
  ASSUME TypeOK
  PROVE  /\ IsFiniteSet(FOperartionSendFor) /\ IsFiniteSet(Popping)
         /\ Cardinality(FOperartionSendFor) \in Nat /\ Cardinality(Popping) \in Nat
<1>1. FOperartionSendFor \in SUBSET Descs /\ Popping \in SUBSET Threads
  BY DEF TypeOK, Popping
<1>2. QED
  BY <1>1, FS_Subset, FS_CardinalityType, KernelSendAssumption

(* Entries and operations balance when neither set changes.                *)
LEMMA SameCounts ==
  ASSUME DataHasSender, UNCHANGED <<FOperartionSendFor, ops>>, Popping' = Popping,
         \A d \in managers' : FData'[d] # <<>> => Served(d)'
  PROVE  DataHasSender'
BY DEF DataHasSender, Popping, Served

LEMMA NextDataHasSender ==
  IInv /\ DataHasSender /\ [Next]_vars => DataHasSender'
<1> SUFFICES ASSUME IInv, DataHasSender, [Next]_vars PROVE DataHasSender'
  OBVIOUS
<1>0. /\ TypeOK
      /\ \A d \in managers : FData[d] # <<>> => Served(d)
      /\ Cardinality(FOperartionSendFor) <= ops + Cardinality(Popping)
      /\ Cardinality(FOperartionSendFor) \in Nat /\ Cardinality(Popping) \in Nat
      /\ ops \in Nat
      /\ IsFiniteSet(FOperartionSendFor) /\ IsFiniteSet(Popping)
  BY FiniteCounts DEF IInv, DataHasSender, Popping, Served, TypeOK
<1>1. ASSUME NEW d \in Descs, MAddChannelFor(d) \/ MOpen(d) \/ MClose(d)
      PROVE  DataHasSender'
  <2>1. UNCHANGED <<bufferVars, FOperartionSendFor, ops, threadVars>>
    BY <1>1 DEF MAddChannelFor, MOpen, MClose
  <2>2. managers' \subseteq managers \cup {d}
    BY <1>1 DEF MAddChannelFor, MOpen, MClose
  <2>3. d \notin managers => FData[d] = <<>>
    BY DEF IInv, Outside
  <2>4. QED
    BY <1>0, <2>1, <2>2, <2>3, SameCounts
       DEF Popping, Served, bufferVars, threadVars
<1>2. ASSUME NEW d \in Descs, MRemoveChannelFor(d) PROVE DataHasSender'
  <2>0. FOperartionSendFor' = FOperartionSendFor \ {d}
    BY <1>2 DEF MRemoveChannelFor
  <2>1. Cardinality(FOperartionSendFor') =
          IF d \in FOperartionSendFor THEN Cardinality(FOperartionSendFor) - 1
          ELSE Cardinality(FOperartionSendFor)
    BY <1>0, <2>0, FS_RemoveElement
  <2>2. Cardinality(FOperartionSendFor') \in Nat
    BY <1>0, <2>0, FS_RemoveElement, FS_CardinalityType
  <2>3. Popping' = Popping /\ ops' = ops
    BY <1>2 DEF MRemoveChannelFor, Popping, threadVars
  <2>4. Cardinality(FOperartionSendFor') <= ops' + Cardinality(Popping')
    BY <1>0, <2>1, <2>2, <2>3
  <2>5. \A e \in managers' : FData'[e] # <<>> => Served(e)'
    BY <1>0, <1>2 DEF MRemoveChannelFor, Served, TypeOK, threadVars
  <2>6. QED
    BY <2>4, <2>5 DEF DataHasSender, Popping, Served
<1>3. ASSUME NEW d \in Descs, NEW n \in 1 .. MaxBatch, MSendTo(d, n)
      PROVE  DataHasSender'
  <2>1. UNCHANGED <<channelVars, FDoingThread, threadVars>>
    BY <1>3 DEF MSendTo
  <2>2. Popping' = Popping
    BY <2>1 DEF Popping, threadVars
  <2>3. \A e \in managers \ {d} : FData'[e] = FData[e]
    BY <1>0, <1>3 DEF MSendTo, PutAll, TypeOK
  <2>4. CASE d \in managers
    <3>1. CallSender(d)
      BY <1>3, <2>4 DEF MSendTo
    <3>2. Served(d)' /\ \A e \in managers : Served(e) => Served(e)'
      BY <2>1, <3>1 DEF CallSender, Served, threadVars
    <3>3. Cardinality(FOperartionSendFor') <= ops' + Cardinality(Popping)
      <4>1. CASE UNCHANGED <<FOperartionSendFor, ops>>
        BY <1>0, <4>1
      <4>2. CASE FOperartionSendFor' = FOperartionSendFor \cup {d} /\ ops' = ops + 1
                 /\ d \notin FOperartionSendFor
        <5>1. Cardinality(FOperartionSendFor') = Cardinality(FOperartionSendFor) + 1
          BY <1>0, <4>2, FS_AddElement
        <5>2. QED
          BY <1>0, <4>2, <5>1
      <4>3. QED
        BY <3>1, <4>1, <4>2 DEF CallSender
    <3>4. QED
      BY <1>0, <2>1, <2>2, <2>3, <3>2, <3>3
         DEF DataHasSender, Popping, Served, channelVars
  <2>5. CASE d \notin managers
    <3>1. UNCHANGED <<FData, FOperartionSendFor, ops>>
      BY <1>3, <2>5 DEF MSendTo
    <3>2. QED
      BY <1>0, <2>1, <2>2, <3>1, SameCounts DEF Served, channelVars, threadVars
  <2>6. QED
    BY <2>4, <2>5
<1>4. ASSUME NEW t \in Threads, StartOperation(t) PROVE DataHasSender'
  <2>1. Popping' = Popping \cup {t} /\ t \notin Popping
    BY <1>0, <1>4 DEF StartOperation, Popping, TypeOK
  <2>2. Cardinality(Popping') = Cardinality(Popping) + 1
    BY <1>0, <2>1, FS_AddElement
  <2>3. ops' = ops - 1 /\ FOperartionSendFor' = FOperartionSendFor
    BY <1>4 DEF StartOperation
  <2>4. \A e \in managers' : FData'[e] # <<>> => Served(e)'
    BY <1>0, <1>4 DEF StartOperation, Served, TypeOK, channelVars, bufferVars
  <2>5. QED
    BY <1>0, <2>2, <2>3, <2>4 DEF DataHasSender, Popping, Served
<1>5. ASSUME NEW t \in Threads, PopDescriptor(t) PROVE DataHasSender'
  <2>1. UNCHANGED <<managers, FData, FDoingThread, ops>> /\ pc[t] = "pop"
    BY <1>5 DEF PopDescriptor, channelVars, bufferVars
  <2>2. CASE FOperartionSendFor = {} /\ End(t) /\ UNCHANGED FOperartionSendFor
    <3>1. Cardinality(FOperartionSendFor') = 0
      BY <2>2, FS_EmptySet
    <3>2. IsFiniteSet(Popping') /\ Cardinality(Popping') \in Nat
      <4>1. Popping' = Popping \ {t}
        BY <1>0, <2>2 DEF End, Popping, TypeOK
      <4>2. QED
        BY <1>0, <4>1, FS_RemoveElement, FS_CardinalityType
    <3>3. \A e \in managers' : FData'[e] # <<>> => Served(e)'
      BY <1>0, <2>1, <2>2 DEF End, Served, TypeOK
    <3>4. QED
      BY <1>0, <2>1, <3>1, <3>2, <3>3 DEF DataHasSender, Popping, Served
  <2>3. ASSUME NEW d \in FOperartionSendFor,
               FOperartionSendFor' = FOperartionSendFor \ {d},
               desc' = [desc EXCEPT ![t] = d],
               pc' = [pc EXCEPT ![t] = "try"]
        PROVE  DataHasSender'
    <3>1. Popping' = Popping \ {t} /\ t \in Popping
      BY <1>0, <2>1, <2>3 DEF Popping, TypeOK
    <3>2. /\ Cardinality(Popping') = Cardinality(Popping) - 1
          /\ Cardinality(FOperartionSendFor') = Cardinality(FOperartionSendFor) - 1
      BY <1>0, <2>3, <3>1, FS_RemoveElement
    <3>3. pc'[t] = "try" /\ desc'[t] = d
          /\ \A u \in Threads \ {t} : pc'[u] = pc[u] /\ desc'[u] = desc[u]
      BY <1>0, <2>3 DEF TypeOK
    <3>4. \A e \in managers' : FData'[e] # <<>> => Served(e)'
      BY <1>0, <2>1, <2>3, <3>3 DEF Served
    <3>5. QED
      BY <1>0, <2>1, <3>2, <3>4 DEF DataHasSender, Popping, Served
  <2>4. QED
    BY <1>5, <2>2, <2>3 DEF PopDescriptor
<1>6. ASSUME NEW t \in Threads, TryData(t) PROVE DataHasSender'
  <2>1. UNCHANGED <<managers, FOperartionSendFor, ops>> /\ pc[t] = "try"
    BY <1>6 DEF TryData, channelVars
  <2>2. Popping' = Popping
    BY <1>0, <1>6 DEF TryData, End, Popping, TypeOK
  <2>3. \A u \in Threads \ {t} : pc'[u] = pc[u] /\ desc'[u] = desc[u]
    BY <1>0, <1>6 DEF TryData, End, TypeOK
  <2>4. CASE desc[t] \in managers /\ FDoingThread[desc[t]] = None /\ FData[desc[t]] # <<>>
    <3>1. FDoingThread' = [FDoingThread EXCEPT ![desc[t]] = t]
          /\ FData' = [FData EXCEPT ![desc[t]] = <<>>]
      BY <1>6, <2>4 DEF TryData, MTry
    <3>2. FData'[desc[t]] = <<>> /\ \A e \in managers \ {desc[t]} :
            FData'[e] = FData[e] /\ FDoingThread'[e] = FDoingThread[e]
      BY <1>0, <2>4, <3>1 DEF TypeOK
    <3>3. QED
      BY <1>0, <2>1, <2>2, <2>3, <3>2, SameCounts DEF Served
  <2>5. CASE ~ (desc[t] \in managers /\ FDoingThread[desc[t]] = None
                /\ FData[desc[t]] # <<>>)
    <3>1. UNCHANGED <<FData, FDoingThread>>
      BY <1>6, <2>5 DEF TryData
    <3>2. QED
      BY <1>0, <2>1, <2>2, <2>3, <2>5, <3>1, SameCounts DEF Served
  <2>6. QED
    BY <2>4, <2>5
<1>7. ASSUME NEW t \in Threads, CheckInfo(t) \/ SendOne(t) PROVE DataHasSender'
  <2>1. UNCHANGED <<managers, FData, FDoingThread, FOperartionSendFor, ops>>
    BY <1>7 DEF CheckInfo, SendOne, channelVars, bufferVars
  <2>2. /\ Popping' = Popping
        /\ \A u \in Threads : pc[u] = "try" => pc'[u] = "try" /\ desc'[u] = desc[u]
    BY <1>0, <1>7 DEF CheckInfo, SendOne, End, Popping, TypeOK
  <2>3. QED
    BY <1>0, <2>1, <2>2, SameCounts DEF Served
<1>8. ASSUME NEW t \in Threads, MNextSend(t) PROVE DataHasSender'
  <2>1. UNCHANGED <<managers, FOperartionSendFor, ops>>
    BY <1>8 DEF MNextSend, channelVars
  <2>2. /\ Popping' = Popping
        /\ \A u \in Threads : pc[u] = "try" => pc'[u] = "try" /\ desc'[u] = desc[u]
    BY <1>0, <1>8 DEF MNextSend, End, Popping, TypeOK
  <2>3. \A e \in managers : FData'[e] # <<>> =>
          FData[e] # <<>> /\ (FDoingThread'[e] = FDoingThread[e] \/ FDoingThread'[e] # None)
    BY <1>0, <1>8, KernelSendAssumption DEF MNextSend, MTry, bufferVars, TypeOK
  <2>4. QED
    BY <1>0, <2>1, <2>2, <2>3, SameCounts DEF Served
<1>9. CASE UNCHANGED vars
  BY <1>9 DEF DataHasSender, vars, channelVars, bufferVars, threadVars
<1>10. QED
  BY <1>1, <1>2, <1>3, <1>4, <1>5, <1>6, <1>7, <1>8, <1>9 DEF Next, MSendUserDataImpl

(* Data in the buffer of a channel always has a thread that sends it or    *)
(* will be offered to one, and there is an operation for every entry: no   *)
(* message is stranded because two threads each left it to the other.      *)
THEOREM DataHasSenderHolds == Spec => []DataHasSender
<1>1. Init => DataHasSender
  <2> SUFFICES ASSUME Init PROVE DataHasSender
    OBVIOUS
  <2>1. Cardinality(FOperartionSendFor) = 0 /\ ops = 0
    BY FS_EmptySet DEF Init
  <2>2. Popping = {} /\ Cardinality(Popping) = 0
    BY FS_EmptySet DEF Init, Popping
  <2>3. managers = {}
    BY DEF Init
  <2>4. QED
    BY <2>1, <2>2, <2>3 DEF DataHasSender, Popping
<1>2. QED
  BY <1>1, IInvHolds, NextDataHasSender, PTL DEF Spec

-----------------------------------------------------------------------------
(* SentInOrder.  Messages are numbered in the order of MSendTo.  What a    *)
(* channel sent, what its thread holds and what waits in its buffer follow *)
(* each other, and nothing of it has failed.                               *)

Increases(s) == \A i, j \in DOMAIN s : i < j => s[i] < s[j]

Before(A, B) == \A x \in A, y \in B : x < y

Carried(d, A) == \A m \in A : m \in DOMAIN dest /\ dest[m] = d /\ m \notin failed

ChannelOrder(d) ==
  /\ Increases(sent[d]) /\ Increases(FData[d])
  /\ Before(Range(sent[d]), Range(FData[d]))
  /\ Carried(d, Range(sent[d])) /\ Carried(d, Range(FData[d]))

HeldOrder(t) ==
  /\ Increases(data[t])
  /\ Before(Range(sent[desc[t]]), Range(data[t]))
  /\ Before(Range(data[t]), Range(FData[desc[t]]))
  /\ Carried(desc[t], Range(data[t]))

Order ==
  /\ \A d \in Descs : ChannelOrder(d)
  /\ \A t \in Threads : Sending(t) => HeldOrder(t)
  /\ failed \subseteq DOMAIN dest

LEMMA EmptyFacts == Increases(<<>>) /\ Range(<<>>) = {}
BY DEF Increases, Range

LEMMA TailFacts ==
  ASSUME NEW S, S \subseteq Nat, NEW s \in Seq(S), s # <<>>, Increases(s)
  PROVE  /\ Increases(Tail(s))
         /\ Range(s) = {Head(s)} \cup Range(Tail(s))
         /\ \A y \in Range(Tail(s)) : Head(s) < y
<1>1. /\ Tail(s) \in Seq(S) /\ Len(s) \in Nat \ {0} /\ Len(Tail(s)) = Len(s) - 1
      /\ \A i \in 1 .. Len(s) - 1 : Tail(s)[i] = s[i + 1]
      /\ Head(s) = s[1]
      /\ DOMAIN s = 1 .. Len(s)
  BY HeadTailProperties, LenProperties
<1>2. Range(s) = {s[i] : i \in 1 .. Len(s)} /\ Range(Tail(s)) = {Tail(s)[i] : i \in 1 .. Len(s) - 1}
  BY <1>1, RangeEquality, ZenonT(60)
<1>3. DOMAIN Tail(s) = 1 .. Len(s) - 1
  BY <1>1, LenProperties
<1>4. Increases(Tail(s))
  <2> SUFFICES ASSUME NEW i \in 1 .. Len(s) - 1, NEW j \in 1 .. Len(s) - 1, i < j
               PROVE  Tail(s)[i] < Tail(s)[j]
    BY <1>3 DEF Increases
  <2>1. i + 1 \in DOMAIN s /\ j + 1 \in DOMAIN s /\ i + 1 < j + 1
    BY <1>1
  <2>2. QED
    BY <1>1, <2>1 DEF Increases
<1>5. ASSUME NEW y \in Range(Tail(s)) PROVE Head(s) < y /\ y \in Range(s)
  <2>1. PICK i \in 1 .. Len(s) - 1 : y = Tail(s)[i]
    BY <1>2
  <2>2. i + 1 \in DOMAIN s /\ 1 \in DOMAIN s /\ 1 < i + 1 /\ y = s[i + 1]
    BY <1>1, <2>1
  <2>3. QED
    BY <1>1, <1>2, <2>2 DEF Increases
<1>6. ASSUME NEW y \in Range(s) PROVE y = Head(s) \/ y \in Range(Tail(s))
  <2>1. PICK i \in 1 .. Len(s) : y = s[i]
    BY <1>2
  <2>2. CASE i = 1
    BY <1>1, <2>1, <2>2
  <2>3. CASE i # 1
    <3>1. i - 1 \in 1 .. Len(s) - 1 /\ i = (i - 1) + 1
      BY <1>1, <2>3
    <3>2. y = Tail(s)[i - 1]
      BY <1>1, <2>1, <3>1
    <3>3. QED
      BY <1>2, <3>1, <3>2
  <2>4. QED
    BY <2>2, <2>3
<1>7. Head(s) \in Range(s)
  BY <1>1, <1>2
<1>8. QED
  BY <1>4, <1>5, <1>6, <1>7

LEMMA ConcatFacts ==
  ASSUME NEW S, S \subseteq Nat, NEW s \in Seq(S), NEW u \in Seq(S),
         Increases(s), Increases(u), Before(Range(s), Range(u))
  PROVE  Increases(s \o u) /\ Range(s \o u) = Range(s) \cup Range(u)
<1> DEFINE w == s \o u
<1>1. /\ w \in Seq(S) /\ Len(w) = Len(s) + Len(u)
      /\ \A i \in 1 .. Len(w) : w[i] = IF i <= Len(s) THEN s[i] ELSE u[i - Len(s)]
  BY ConcatProperties
<1> HIDE DEF w
<1>2. /\ DOMAIN w = 1 .. Len(w) /\ DOMAIN s = 1 .. Len(s) /\ DOMAIN u = 1 .. Len(u)
      /\ Len(s) \in Nat /\ Len(u) \in Nat /\ Len(w) \in Nat
  BY <1>1, LenProperties
<1>3. Increases(w)
  <2> SUFFICES ASSUME NEW i \in DOMAIN w, NEW j \in DOMAIN w, i < j
               PROVE  w[i] < w[j]
    BY DEF Increases
  <2>1. CASE j <= Len(s)
    BY <1>1, <1>2, <2>1 DEF Increases
  <2>2. CASE i > Len(s)
    <3>1. i - Len(s) \in DOMAIN u /\ j - Len(s) \in DOMAIN u /\ i - Len(s) < j - Len(s)
      BY <1>1, <1>2, <2>2
    <3>2. w[i] = u[i - Len(s)] /\ w[j] = u[j - Len(s)]
      BY <1>1, <1>2, <2>2
    <3>3. QED
      BY <3>1, <3>2 DEF Increases
  <2>3. CASE i <= Len(s) /\ j > Len(s)
    <3>1. i \in DOMAIN s /\ j - Len(s) \in DOMAIN u
      BY <1>1, <1>2, <2>3
    <3>2. w[i] = s[i] /\ w[j] = u[j - Len(s)]
      BY <1>1, <1>2, <2>3
    <3>3. QED
      BY <3>1, <3>2 DEF Before, Range
  <2>4. QED
    BY <1>2, <2>1, <2>2, <2>3
<1>4. QED
  BY <1>3, RangeConcatenation DEF w

LEMMA AppendFacts ==
  ASSUME NEW S, S \subseteq Nat, NEW s \in Seq(S), NEW x \in S,
         Increases(s), Before(Range(s), {x})
  PROVE  Increases(Append(s, x)) /\ Range(Append(s, x)) = Range(s) \cup {x}
<1> DEFINE one == <<x>>
<1>1. Append(s, x) = s \o one /\ one \in Seq(S)
  BY AppendIsConcat
<1>2. Range(one) = {x} /\ Increases(one)
  BY DEF Range, Increases
<1> HIDE DEF one
<1>3. Before(Range(s), Range(one))
  BY <1>2
<1>4. Increases(s \o one) /\ Range(s \o one) = Range(s) \cup Range(one)
  BY <1>1, <1>2, <1>3, ConcatFacts, ZenonT(60)
<1>5. QED
  BY <1>1, <1>2, <1>4

(* Steps that touch no message, and end or begin operations only.          *)
LEMMA QuietKeepsOrder ==
  ASSUME Order, UNCHANGED <<FData, dest, sent, failed>>,
         \A t \in Threads : Sending(t)' => Sending(t) /\ desc'[t] = desc[t] /\ data'[t] = data[t]
  PROVE  Order'
<1>1. \A d \in Descs : ChannelOrder(d)'
  BY DEF Order, ChannelOrder, Carried
<1>2. ASSUME NEW t \in Threads, Sending(t)' PROVE HeldOrder(t)'
  BY <1>2 DEF Order, HeldOrder, Carried
<1>3. QED
  BY <1>1, <1>2 DEF Order

(* MTry moves the buffer to the thread.                                    *)
LEMMA TakeKeepsOrder ==
  ASSUME IInv, Order, NEW t \in Threads, NEW d \in Descs, desc[t] = d, MTry(t, d),
         UNCHANGED <<desc, dest, sent, failed>>,
         \A u \in Threads \ {t} : Sending(u)' => Sending(u)
  PROVE  Order'
<1>1. /\ FData'[d] = <<>> /\ data'[t] = FData[d]
      /\ \A e \in Descs \ {d} : FData'[e] = FData[e]
      /\ \A u \in Threads \ {t} : data'[u] = data[u]
  BY DEF IInv, TypeOK, MTry
<1>2. Increases(FData'[d]) /\ Range(FData'[d]) = {}
  BY <1>1, EmptyFacts
<1>3. ASSUME NEW e \in Descs PROVE ChannelOrder(e)'
  <2>1. CASE e = d
    BY <1>2, <2>1 DEF Order, ChannelOrder, Carried, Before
  <2>2. CASE e # d
    BY <1>1, <2>2 DEF Order, ChannelOrder, Carried, Before
  <2>3. QED
    BY <2>1, <2>2
<1>4. ASSUME NEW u \in Threads, Sending(u)' PROVE HeldOrder(u)'
  <2>1. CASE u = t
    BY <1>1, <1>2, <2>1 DEF Order, ChannelOrder, HeldOrder, Carried, Before
  <2>2. CASE u # t
    <3>1. HeldOrder(u) /\ data'[u] = data[u] /\ desc[u] \in Descs
      BY <1>1, <1>4, <2>2 DEF Order, IInv, Placed, Sending
    <3>2. Before(Range(data[u]), Range(FData'[desc[u]]))
      BY <1>1, <1>2, <3>1 DEF HeldOrder, Before
    <3>3. QED
      BY <3>1, <3>2 DEF HeldOrder, Carried
  <2>3. QED
    BY <2>1, <2>2
<1>5. QED
  BY <1>3, <1>4 DEF Order

(* Failing what waits in the buffer of d touches no other message.         *)
LEMMA RemoveKeepsOrder ==
  ASSUME IInv, Order, NEW d \in Descs, MRemoveChannelFor(d)
  PROVE  Order'
<1>1. /\ FData'[d] = <<>>
      /\ \A e \in Descs \ {d} : FData'[e] = FData[e]
      /\ failed' = failed \cup Range(FData[d])
      /\ UNCHANGED <<pc, desc, data, dest, sent>>
  BY DEF IInv, TypeOK, MRemoveChannelFor, threadVars
<1>2. Increases(FData'[d]) /\ Range(FData'[d]) = {}
  BY <1>1, EmptyFacts
<1>3. /\ \A e \in Descs : Range(sent[e]) \subseteq Nat
      /\ \A t \in Threads : Range(data[t]) \subseteq Nat
  BY RangeOfSeq, KernelSendAssumption, SMTT(30) DEF IInv, TypeOK, Messages
<1>6. ASSUME NEW e \in Descs PROVE ChannelOrder(e)'
  <2>0. ChannelOrder(e)
    BY DEF Order
  <2>1. CASE e = d
    <3>1. Carried(d, Range(sent[d]))'
      BY <1>1, <1>3, <2>0, <2>1 DEF ChannelOrder, Carried, Before
    <3>2. QED
      BY <1>1, <1>2, <2>0, <2>1, <3>1 DEF ChannelOrder, Carried, Before
  <2>2. CASE e # d
    <3>1. Carried(e, Range(sent[e]))' /\ Carried(e, Range(FData[e]))'
      BY <1>1, <2>0, <2>2 DEF Order, ChannelOrder, Carried
    <3>2. QED
      BY <1>1, <2>0, <2>2, <3>1 DEF ChannelOrder, Carried
  <2>3. QED
    BY <2>1, <2>2
<1>7. ASSUME NEW t \in Threads, Sending(t)' PROVE HeldOrder(t)'
  <2>1. HeldOrder(t) /\ desc[t] \in Descs
    BY <1>1, <1>7 DEF Order, IInv, Placed, Sending
  <2>2. \A m \in Range(data[t]) : m \notin Range(FData[d])
    <3>1. CASE desc[t] = d
      <4>1. Before(Range(data[t]), Range(FData[d])) /\ Range(data[t]) \subseteq Nat
        BY <1>3, <2>1, <3>1 DEF HeldOrder
      <4>2. \A m \in Nat : ~ (m < m)
        OBVIOUS
      <4>3. QED
        BY <4>1, <4>2 DEF Before
    <3>2. CASE desc[t] # d
      BY <2>1, <3>2 DEF Order, ChannelOrder, HeldOrder, Carried
    <3>3. QED
      BY <3>1, <3>2
  <2>3. Carried(desc[t], Range(data[t]))'
    BY <1>1, <2>1, <2>2 DEF HeldOrder, Carried
  <2>4. Before(Range(data[t]), Range(FData'[desc[t]]))
    BY <1>1, <1>2, <2>1 DEF HeldOrder, Before
  <2>5. QED
    BY <1>1, <2>1, <2>3, <2>4 DEF HeldOrder, Carried
<1>8. failed' \subseteq DOMAIN dest'
  BY <1>1 DEF Order, ChannelOrder, Carried
<1>9. QED
  BY <1>6, <1>7, <1>8 DEF Order

(* The messages of a call are numbered after all others, and those that    *)
(* fit into the buffer before those that fail.                             *)
LEMMA SendToKeepsOrder ==
  ASSUME IInv, Order, NEW d \in Descs, NEW n \in 1 .. MaxBatch, MSendTo(d, n)
  PROVE  Order'
<1> DEFINE new == Batch(n)
           k == Taken(d, Len(new))
           add == SubSeq(new, 1, k)
           rest == SubSeq(new, k + 1, Len(new))
<1>1. /\ new \in Seq(Messages) /\ Len(new) = n
      /\ \A i \in 1 .. n : new[i] = Len(dest) + i
      /\ dest' \in Seq(Descs) /\ Len(dest') = Len(dest) + n
      /\ \A i \in 1 .. Len(dest) : dest'[i] = dest[i]
      /\ \A i \in 1 .. n : dest'[Len(dest) + i] = d
  BY NewMessages DEF MSendTo, IInv
<1>2. n \in Nat /\ k \in 0 .. n /\ Len(dest) \in Nat
  <2>1. n \in Nat /\ TypeOK
    BY KernelSendAssumption DEF IInv
  <2>2. Taken(d, n) \in 0 .. n
    BY <2>1, TakenBounds
  <2>3. Len(dest) \in Nat
    BY <2>1 DEF TypeOK
  <2>4. QED
    BY <1>1, <2>1, <2>2, <2>3
<1>3. UNCHANGED <<pc, desc, data, sent>>
  BY DEF MSendTo, threadVars
<1>4. DOMAIN dest = 1 .. Len(dest) /\ DOMAIN dest' = 1 .. Len(dest) + n
  BY <1>1, LenProperties DEF IInv, TypeOK
<1> HIDE DEF new, k, add, rest
<1>6. ASSUME \A m \in failed' : m \in failed \/ m \in Len(dest) + 1 .. Len(dest) + n,
             \A e \in Descs \ {d} : FData'[e] = FData[e],
             Increases(FData'[d]), Before(Range(sent[d]), Range(FData'[d])),
             Carried(d, Range(FData[d]))',
             \A m \in Range(FData'[d]) : m \in Range(FData[d]) \/ m > Len(dest)
      PROVE  Order'
  <2>0. \A m \in failed' : m \in failed \/ m > Len(dest)
    BY <1>2, <1>6
  <2>1. ASSUME NEW e \in Descs PROVE ChannelOrder(e)'
    <3>1. ChannelOrder(e)
      BY DEF Order
    <3>2. \A m \in Range(sent[e]) \cup Range(FData[e]) :
            m \in DOMAIN dest' /\ dest'[m] = e /\ m \notin failed'
      BY <1>1, <1>2, <1>4, <2>0, <3>1 DEF ChannelOrder, Carried
    <3>3. Carried(e, Range(sent[e]))'
      BY <1>3, <3>2 DEF Carried
    <3>4. CASE e = d
      BY <1>3, <1>6, <3>1, <3>3, <3>4 DEF ChannelOrder
    <3>5. CASE e # d
      <4>1. Carried(e, Range(FData[e]))'
        BY <1>6, <3>2, <3>5 DEF Carried
      <4>2. QED
        BY <1>3, <1>6, <3>1, <3>3, <3>5, <4>1 DEF ChannelOrder
    <3>6. QED
      BY <3>4, <3>5
  <2>2. ASSUME NEW t \in Threads, Sending(t)' PROVE HeldOrder(t)'
    <3>1. HeldOrder(t) /\ desc[t] \in Descs
      BY <1>3, <2>2 DEF Order, IInv, Placed, Sending
    <3>2. \A m \in Range(data[t]) : m \in 1 .. Len(dest)
            /\ m \in DOMAIN dest' /\ dest'[m] = desc[t] /\ m \notin failed'
      BY <1>1, <1>2, <1>4, <2>0, <3>1 DEF HeldOrder, Carried
    <3>3. Before(Range(data[t]), Range(FData'[desc[t]]))
      <4>1. CASE desc[t] = d
        <5>1. ASSUME NEW x \in Range(data[t]), NEW y \in Range(FData'[d])
              PROVE  x < y
          <6>1. x \in 1 .. Len(dest)
            BY <3>2
          <6>2. CASE y \in Range(FData[d])
            BY <3>1, <4>1, <6>2 DEF HeldOrder, Before
          <6>3. CASE y > Len(dest)
            <7>1. y \in DOMAIN dest'
              BY <1>6 DEF Carried
            <7>2. QED
              BY <1>2, <1>4, <6>1, <6>3, <7>1
          <6>4. QED
            BY <1>6, <6>2, <6>3
        <5>2. QED
          BY <4>1, <5>1 DEF Before
      <4>2. CASE desc[t] # d
        BY <1>6, <3>1, <4>2 DEF HeldOrder
      <4>3. QED
        BY <4>1, <4>2
    <3>4. QED
      BY <1>3, <3>1, <3>2, <3>3 DEF HeldOrder, Carried
  <2>3. failed' \subseteq DOMAIN dest'
    BY <1>2, <1>4, <1>6 DEF Order
  <2>4. QED
    BY <2>1, <2>2, <2>3 DEF Order
<1>7. CASE d \notin managers
  <2>1. failed' = failed \cup Range(new) /\ FData' = FData
    BY <1>7 DEF MSendTo, Batch, new
  <2>2. Range(new) = {new[i] : i \in 1 .. n}
    BY <1>1, RangeEquality, ZenonT(60)
  <2>3. \A m \in failed' : m \in failed \/ m \in Len(dest) + 1 .. Len(dest) + n
    BY <1>1, <1>2, <2>1, <2>2
  <2>4. ChannelOrder(d)
    BY DEF Order
  <2>5. \A m \in Range(FData[d]) : m \in DOMAIN dest' /\ dest'[m] = d /\ m \notin failed'
    BY <1>1, <1>2, <1>4, <2>3, <2>4 DEF ChannelOrder, Carried
  <2>6. Carried(d, Range(FData[d]))'
    BY <2>1, <2>5 DEF Carried
  <2>7. QED
    BY <1>6, <2>1, <2>3, <2>4, <2>6 DEF ChannelOrder
<1>8. CASE d \in managers
  <2>1. /\ FData' = [FData EXCEPT ![d] = @ \o add]
        /\ failed' = failed \cup Range(rest)
    BY <1>8 DEF MSendTo, PutAll, Batch, new, k, add, rest
  <2>2. /\ add \in Seq(Messages) /\ Len(add) = k /\ \A i \in 1 .. k : add[i] = new[i]
        /\ Range(rest) \subseteq {new[i] : i \in k + 1 .. n}
    <3>1. new \in Seq(Messages) /\ k \in 0 .. Len(new)
      BY <1>1, <1>2
    <3>2. /\ SubSeq(new, 1, k) \in Seq(Messages) /\ Len(SubSeq(new, 1, k)) = k
          /\ \A i \in 1 .. k : SubSeq(new, 1, k)[i] = new[i]
          /\ Range(SubSeq(new, k + 1, Len(new))) \subseteq {new[i] : i \in k + 1 .. Len(new)}
      BY <3>1, SplitBatch
    <3>3. QED
      BY <1>1, <3>2 DEF add, rest
  <2>3. \A i \in 1 .. k : add[i] = Len(dest) + i
    BY <1>1, <1>2, <2>2
  <2>4. DOMAIN add = 1 .. k /\ Range(add) = {add[i] : i \in 1 .. k}
    BY <2>2, RangeEquality, LenProperties
  <2>5. Increases(add)
    BY <1>2, <2>3, <2>4 DEF Increases
  <2>6. \A m \in Range(add) : m \in Len(dest) + 1 .. Len(dest) + k
    BY <1>2, <2>3, <2>4
  <2>7. \A m \in Range(rest) : m \in Len(dest) + k + 1 .. Len(dest) + n
    BY <1>1, <1>2, <2>2
  <2>8. ChannelOrder(d) /\ FData[d] \in Seq(Messages) /\ Messages \subseteq Nat
    BY KernelSendAssumption DEF Order, IInv, TypeOK, Messages
  <2>9. \A m \in Range(FData[d]) \cup Range(sent[d]) : m \in 1 .. Len(dest)
    BY <1>4, <2>8 DEF ChannelOrder, Carried
  <2>10. Before(Range(FData[d]), Range(add)) /\ Before(Range(sent[d]), Range(add))
    BY <1>2, <2>6, <2>9 DEF Before
  <2>11. /\ FData'[d] = FData[d] \o add
         /\ \A e \in Descs \ {d} : FData'[e] = FData[e]
    BY <2>1 DEF IInv, TypeOK
  <2>12. Increases(FData'[d]) /\ Range(FData'[d]) = Range(FData[d]) \cup Range(add)
    <3>1. /\ Messages \subseteq Nat /\ FData[d] \in Seq(Messages) /\ add \in Seq(Messages)
          /\ Increases(FData[d]) /\ Before(Range(FData[d]), Range(add))
      BY <2>2, <2>8, <2>10 DEF ChannelOrder
    <3>2. /\ Increases(FData[d] \o add)
          /\ Range(FData[d] \o add) = Range(FData[d]) \cup Range(add)
      BY <2>5, <3>1, ConcatFacts, ZenonT(60)
    <3>3. QED
      BY <2>11, <3>2
  <2>13. \A m \in failed' : m \in failed \/ m \in Len(dest) + 1 .. Len(dest) + n
    BY <1>2, <2>1, <2>7
  <2>14. \A m \in failed' : m \in 1 .. Len(dest) + n /\ (m <= Len(dest) => m \in failed)
                           /\ (m > Len(dest) => m > Len(dest) + k)
    <3>1. \A m \in failed : m \in 1 .. Len(dest)
      BY <1>4 DEF Order
    <3>2. QED
      BY <1>2, <2>1, <2>7, <3>1
  <2>15. ASSUME NEW m \in Range(FData'[d])
         PROVE  m \in DOMAIN dest' /\ dest'[m] = d /\ m \notin failed'
    <3>1. CASE m \in Range(FData[d])
      BY <1>1, <1>2, <1>4, <2>8, <2>9, <2>14, <3>1 DEF ChannelOrder, Carried
    <3>2. CASE m \in Range(add)
      <4>1. PICK i \in 1 .. k : m = Len(dest) + i
        BY <2>3, <2>4, <3>2
      <4>2. i \in 1 .. n /\ m \in Len(dest) + 1 .. Len(dest) + k
        BY <1>2, <4>1
      <4>3. m \in DOMAIN dest'
        BY <1>2, <1>4, <4>2
      <4>4. dest'[m] = d
        BY <1>1, <4>1, <4>2
      <4>5. m \notin failed'
        BY <1>2, <2>14, <4>2
      <4>6. QED
        BY <4>3, <4>4, <4>5
    <3>3. QED
      BY <2>12, <3>1, <3>2
  <2>16. Carried(d, Range(FData[d]))'
    BY <2>15 DEF Carried
  <2>17. Before(Range(sent[d]), Range(FData'[d]))
    BY <2>8, <2>10, <2>12 DEF ChannelOrder, Before
  <2>18. \A m \in Range(FData'[d]) : m \in Range(FData[d]) \/ m > Len(dest)
    BY <1>2, <2>6, <2>12
  <2>19. QED
    BY <1>6, <2>11, <2>12, <2>13, <2>16, <2>17, <2>18
<1>9. QED
  BY <1>7, <1>8

(* The thread sends or fails the first of its messages.                    *)
LEMMA SendOneKeepsOrder ==
  ASSUME IInv, Order, NEW t \in Threads, SendOne(t)
  PROVE  Order'
<1> DEFINE d == desc[t]
           m == Head(data[t])
           r == Tail(data[t])
<1>1. /\ Sending(t) /\ data[t] # <<>> /\ data[t] \in Seq(Messages)
      /\ d \in Descs /\ sent[d] \in Seq(Messages)
  BY DEF IInv, TypeOK, Placed, Sending, SendOne
<1>2. HeldOrder(t) /\ ChannelOrder(d) /\ Messages \subseteq Nat
  <2>1. HeldOrder(t) /\ ChannelOrder(d)
    BY <1>1 DEF Order
  <2>2. Messages \subseteq Nat
    BY KernelSendAssumption DEF Messages
  <2>3. QED
    BY <2>1, <2>2
<1>3. /\ Increases(r) /\ Range(data[t]) = {m} \cup Range(r)
      /\ \A y \in Range(r) : m < y
  <2>1. Increases(data[t])
    BY <1>2 DEF HeldOrder
  <2>2. QED
    BY <1>1, <1>2, <2>1, TailFacts
<1>4. m \in Messages /\ r \in Seq(Messages) /\ m \in Nat
  BY <1>1, <1>2, HeadTailProperties
<1>5. \A u \in Threads \ {t} : Sending(u) => desc[u] # d
  BY <1>1 DEF IInv, OneSender
<1>6. /\ data'[t] = r /\ \A u \in Threads \ {t} : data'[u] = data[u]
      /\ UNCHANGED <<pc, desc, FData, dest>>
  BY DEF IInv, TypeOK, SendOne, FailOne, bufferVars
<1>7. /\ \A y \in Range(sent[d]) : y < m
      /\ \A y \in Range(FData[d]) : m < y
      /\ m \in DOMAIN dest /\ dest[m] = d /\ m \notin failed
  BY <1>2, <1>3 DEF HeldOrder, Before, Carried
<1> HIDE DEF d, m, r
<1>8. CASE sent' = [sent EXCEPT ![d] = Append(@, m)] /\ UNCHANGED failed
  <2>1. sent'[d] = Append(sent[d], m) /\ \A e \in Descs \ {d} : sent'[e] = sent[e]
    BY <1>1, <1>8 DEF IInv, TypeOK
  <2>2. Increases(sent'[d]) /\ Range(sent'[d]) = Range(sent[d]) \cup {m}
    <3>1. /\ Messages \subseteq Nat /\ sent[d] \in Seq(Messages) /\ m \in Messages
          /\ Increases(sent[d]) /\ Before(Range(sent[d]), {m})
      BY <1>1, <1>2, <1>4, <1>7 DEF ChannelOrder, Before
    <3>2. PICK s, S : s = sent[d] /\ S = Messages
      OBVIOUS
    <3>3. S \subseteq Nat /\ s \in Seq(S) /\ m \in S /\ Increases(s) /\ Before(Range(s), {m})
      BY <3>1, <3>2
    <3>4. Increases(Append(s, m)) /\ Range(Append(s, m)) = Range(s) \cup {m}
      BY <3>3, AppendFacts, ZenonT(60)
    <3>5. QED
      BY <2>1, <3>2, <3>4
  <2>3. ASSUME NEW e \in Descs PROVE ChannelOrder(e)'
    <3>1. CASE e = d
      BY <1>2, <1>6, <1>7, <1>8, <2>2, <3>1 DEF ChannelOrder, Before, Carried
    <3>2. CASE e # d
      BY <1>6, <1>8, <2>1, <3>2 DEF Order, ChannelOrder, Carried
    <3>3. QED
      BY <3>1, <3>2
  <2>4. ASSUME NEW u \in Threads, Sending(u)' PROVE HeldOrder(u)'
    <3>1. CASE u = t
      <4>1. desc'[t] = d /\ data'[t] = r
        BY <1>6 DEF d
      <4>2. Before(Range(sent'[d]), Range(r))
        BY <1>2, <1>3, <2>2 DEF HeldOrder, Before, d
      <4>3. Before(Range(r), Range(FData[d])) /\ Carried(d, Range(r))
        BY <1>2, <1>3 DEF HeldOrder, Before, Carried, d
      <4>4. QED
        BY <1>3, <1>6, <1>8, <3>1, <4>1, <4>2, <4>3 DEF HeldOrder, Carried
    <3>2. CASE u # t
      <4>1. Sending(u) /\ HeldOrder(u) /\ desc[u] # d /\ desc[u] \in Descs
        BY <1>5, <1>6, <2>4, <3>2 DEF Order, Sending, IInv, Placed
      <4>2. QED
        BY <1>6, <1>8, <2>1, <3>2, <4>1 DEF HeldOrder, Carried
    <3>3. QED
      BY <3>1, <3>2
  <2>5. QED
    BY <1>6, <1>8, <2>3, <2>4 DEF Order
<1>9. CASE failed' = failed \cup {m} /\ UNCHANGED sent
  <2>1. m \notin Range(sent[d]) /\ m \notin Range(FData[d]) /\ m \notin Range(r)
    <3>1. ~ (m < m)
      BY <1>4
    <3>2. QED
      BY <1>3, <1>7, <3>1
  <2>2. ASSUME NEW e \in Descs PROVE ChannelOrder(e)'
    <3>1. ChannelOrder(e) /\ m \notin Range(sent[e]) /\ m \notin Range(FData[e])
      BY <1>7, <2>1 DEF Order, ChannelOrder, Carried
    <3>2. QED
      BY <1>6, <1>9, <3>1 DEF ChannelOrder, Carried
  <2>3. ASSUME NEW u \in Threads, Sending(u)' PROVE HeldOrder(u)'
    <3>1. CASE u = t
      <4>1. desc'[t] = d /\ data'[t] = r
        BY <1>6 DEF d
      <4>2. /\ Before(Range(sent[d]), Range(r)) /\ Before(Range(r), Range(FData[d]))
            /\ Carried(d, Range(r))
        BY <1>2, <1>3 DEF HeldOrder, Before, Carried, d
      <4>3. QED
        BY <1>3, <1>6, <1>9, <2>1, <3>1, <4>1, <4>2 DEF HeldOrder, Carried
    <3>2. CASE u # t
      <4>1. Sending(u) /\ HeldOrder(u) /\ desc[u] # d
        BY <1>5, <1>6, <2>3, <3>2 DEF Order, Sending
      <4>2. m \notin Range(data[u])
        BY <1>7, <4>1 DEF HeldOrder, Carried
      <4>3. QED
        BY <1>6, <1>9, <3>2, <4>1, <4>2 DEF HeldOrder, Carried
    <3>3. QED
      BY <3>1, <3>2
  <2>4. QED
    BY <1>6, <1>7, <1>9, <2>2, <2>3 DEF Order
<1>10. QED
  BY <1>8, <1>9 DEF SendOne, FailOne, d, m

LEMMA NextOrder == IInv /\ Order /\ [Next]_vars => Order'
<1> SUFFICES ASSUME IInv, Order, [Next]_vars PROVE Order'
  OBVIOUS
<1>0. TypeOK
  BY DEF IInv
<1>1. ASSUME NEW d \in Descs, MAddChannelFor(d) \/ MOpen(d) \/ MClose(d)
      PROVE  Order'
  BY <1>1, QuietKeepsOrder DEF MAddChannelFor, MOpen, MClose, bufferVars, threadVars,
                               historyVars, Sending
<1>2. ASSUME NEW d \in Descs, MRemoveChannelFor(d) PROVE Order'
  BY <1>2, RemoveKeepsOrder
<1>3. ASSUME NEW d \in Descs, NEW n \in 1 .. MaxBatch, MSendTo(d, n)
      PROVE  Order'
  BY <1>3, SendToKeepsOrder
<1>4. ASSUME NEW t \in Threads, StartOperation(t) \/ PopDescriptor(t) \/ CheckInfo(t)
      PROVE  Order'
  <2>1. UNCHANGED <<FData, dest, sent, failed>>
    BY <1>4 DEF StartOperation, PopDescriptor, CheckInfo, bufferVars, historyVars
  <2>2. \A u \in Threads : Sending(u)' => Sending(u) /\ desc'[u] = desc[u] /\ data'[u] = data[u]
    BY <1>0, <1>4 DEF StartOperation, PopDescriptor, CheckInfo, End, Sending, TypeOK
  <2>3. QED
    BY <2>1, <2>2, QuietKeepsOrder
<1>5. ASSUME NEW t \in Threads, TryData(t) PROVE Order'
  <2>1. UNCHANGED <<dest, sent, failed>> /\ pc[t] = "try"
    BY <1>5 DEF TryData, historyVars
  <2>2. CASE desc[t] \in managers /\ FDoingThread[desc[t]] = None /\ FData[desc[t]] # <<>>
    <3>1. MTry(t, desc[t]) /\ pc' = [pc EXCEPT ![t] = "check"] /\ UNCHANGED desc
      BY <1>5, <2>2 DEF TryData
    <3>2. desc[t] \in Descs /\ \A u \in Threads \ {t} : Sending(u)' => Sending(u)
      BY <1>0, <2>2, <3>1 DEF Sending, TypeOK
    <3>3. QED
      BY <2>1, <3>1, <3>2, TakeKeepsOrder
  <2>3. CASE ~ (desc[t] \in managers /\ FDoingThread[desc[t]] = None
                /\ FData[desc[t]] # <<>>)
    <3>1. End(t) /\ UNCHANGED FData
      BY <1>5, <2>3 DEF TryData
    <3>2. \A u \in Threads : Sending(u)' =>
            Sending(u) /\ desc'[u] = desc[u] /\ data'[u] = data[u]
      BY <1>0, <3>1 DEF End, Sending, TypeOK
    <3>3. QED
      BY <2>1, <3>1, <3>2, QuietKeepsOrder
  <2>4. QED
    BY <2>2, <2>3
<1>6. ASSUME NEW t \in Threads, SendOne(t) PROVE Order'
  BY <1>6, SendOneKeepsOrder
<1>7. ASSUME NEW t \in Threads, MNextSend(t) PROVE Order'
  <2>1. UNCHANGED <<dest, sent, failed>> /\ pc[t] = "send"
    BY <1>7 DEF MNextSend, historyVars
  <2>2. CASE MTry(t, desc[t]) /\ UNCHANGED <<pc, desc>>
    <3>1. desc[t] \in Descs /\ \A u \in Threads \ {t} : Sending(u)' => Sending(u)
      BY <2>1, <2>2 DEF Sending, IInv, Placed
    <3>2. QED
      BY <2>1, <2>2, <3>1, TakeKeepsOrder
  <2>3. CASE End(t) /\ UNCHANGED FData
    <3>1. \A u \in Threads : Sending(u)' =>
            Sending(u) /\ desc'[u] = desc[u] /\ data'[u] = data[u]
      BY <1>0, <2>3 DEF End, Sending, TypeOK
    <3>2. QED
      BY <2>1, <2>3, <3>1, QuietKeepsOrder
  <2>4. QED
    BY <1>7, <2>2, <2>3 DEF MNextSend, bufferVars
<1>8. CASE UNCHANGED vars
  BY <1>8, QuietKeepsOrder DEF vars, bufferVars, threadVars, historyVars, Sending
<1>9. QED
  BY <1>1, <1>2, <1>3, <1>4, <1>5, <1>6, <1>7, <1>8 DEF Next, MSendUserDataImpl

(* A channel sends messages in the order of the MSendTo calls, each once   *)
(* and none that was noted as failed, although any IO thread may serve any *)
(* channel and the channel may be taken down at any moment.                *)
THEOREM SentInOrderHolds == Spec => []SentInOrder
<1>1. Init => Order
  <2> SUFFICES ASSUME Init PROVE Order
    OBVIOUS
  <2>1. ASSUME NEW d \in Descs PROVE ChannelOrder(d)
    <3>1. sent[d] = <<>> /\ FData[d] = <<>>
      BY DEF Init
    <3>2. QED
      BY <3>1, EmptyFacts DEF ChannelOrder, Carried, Before
  <2>2. \A t \in Threads : ~ Sending(t)
    BY DEF Init, Sending
  <2>3. failed \subseteq DOMAIN dest
    BY DEF Init
  <2>4. QED
    BY <2>1, <2>2, <2>3 DEF Order
<1>2. Order => SentInOrder
  <2> SUFFICES ASSUME Order, NEW d \in Descs
               PROVE  /\ \A i, j \in DOMAIN sent[d] : i < j => sent[d][i] < sent[d][j]
                      /\ \A i \in DOMAIN sent[d] :
                           dest[sent[d][i]] = d /\ sent[d][i] \notin failed
    BY DEF SentInOrder
  <2>1. Increases(sent[d]) /\ Carried(d, Range(sent[d]))
    BY DEF Order, ChannelOrder
  <2>2. \A i \in DOMAIN sent[d] : sent[d][i] \in Range(sent[d])
    BY DEF Range
  <2>3. QED
    BY <2>1, <2>2 DEF Increases, Carried
<1>3. QED
  BY <1>1, <1>2, IInvHolds, NextOrder, PTL DEF Spec
=============================================================================
