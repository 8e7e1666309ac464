----------------------------- MODULE EventFifo -----------------------------
(***************************************************************************)
(* event_fifo_t (SHARE/include/SHARE/Socket/CSharedMemoryImplTypes.h): the *)
(* ring of events that every endpoint of the shared-memory transport keeps *)
(* in shared memory.  FRead and FWrite are free-running uint16_t counters  *)
(* reduced modulo FMaxValue, the largest multiple of the array size that   *)
(* fits; a slot is the counter modulo the array size.  E_DATA events may   *)
(* use only FMaxCountRecvEvent slots, so that protocol events always find  *)
(* some of the EVENT_RESERV slots kept for them.                           *)
(*                                                                         *)
(* All operations run under the mutex of the event condition variable, so  *)
(* each is one action.  The width of the counters is a constant: uint16_t  *)
(* is UintMax = 65535.                                                     *)
(***************************************************************************)
EXTENDS Integers, Sequences, FiniteSets

CONSTANTS
  FArraySize,    (* number of slots of FInfo                               *)
  UintMax,       (* std::numeric_limits<uint16_t>::max()                   *)
  EVENT_RESERV,  (* slots kept for protocol events                         *)
  Data,          (* events of type E_DATA                                  *)
  Control,       (* events of every other type                             *)
  NoEvent        (* E_NO: the content of a slot that was never written     *)

ASSUME FifoAssumption ==
  /\ FArraySize \in Nat /\ FArraySize > 1
  /\ UintMax \in Nat /\ 2 * FArraySize <= UintMax
  /\ EVENT_RESERV \in Nat
  /\ Data \cap Control = {}
  /\ NoEvent \notin Data \cup Control

VARIABLES
  FRead, FWrite,    (* free-running counters                               *)
  FInfo,            (* the slots                                           *)
  FCountRecvEvent   (* E_DATA events counted as queued                     *)

vars == <<FRead, FWrite, FInfo, FCountRecvEvent>>

Events == Data \cup Control
Slots == 0 .. FArraySize - 1

MutantFMaxValue == UintMax
FMaxValue == (UintMax \div FArraySize) * FArraySize
MutantFMaxCountRecvEvent == FArraySize
FMaxCountRecvEvent ==
  IF FArraySize > EVENT_RESERV THEN FArraySize - EVENT_RESERV ELSE FArraySize

Counters == 0 .. FMaxValue - 1

Slot(c) == c % FArraySize

(* ++aVal and --aVal wrap at the width of uint16_t before the reduction. *)
MInc(c) == ((c + 1) % (UintMax + 1)) % FMaxValue
MDec(c) == (IF c = 0 THEN UintMax ELSE c - 1) % FMaxValue

MCount == IF FWrite >= FRead THEN FWrite - FRead ELSE FWrite - FRead + FMaxValue
MEmpty == FRead = FWrite

Init ==
  /\ FRead = 0
  /\ FWrite = 0
  /\ FInfo = [s \in Slots |-> NoEvent]
  /\ FCountRecvEvent = 0

MutantCanPut(e) == e \in Data => FCountRecvEvent < FMaxCountRecvEvent

(* The early returns of MPut: the ring is full, or e is one E_DATA event   *)
(* too many.                                                               *)
CanPut(e) ==
  /\ MCount # FArraySize
  /\ e \in Data => FCountRecvEvent < FMaxCountRecvEvent

MPut(e) ==
  /\ CanPut(e)
  /\ FCountRecvEvent' = FCountRecvEvent + (IF e \in Data THEN 1 ELSE 0)
  /\ FInfo' = [FInfo EXCEPT ![Slot(FWrite)] = e]
  /\ FWrite' = MInc(FWrite)
  /\ UNCHANGED FRead

(* The decrement of the unsigned FCountRecvEvent follows a CHECK_NE that   *)
(* aborts at zero.                                                         *)
MPop ==
  /\ ~MEmpty
  /\ FInfo[Slot(FRead)] \in Data => FCountRecvEvent # 0
  /\ FCountRecvEvent' =
       FCountRecvEvent - (IF FInfo[Slot(FRead)] \in Data THEN 1 ELSE 0)
  /\ FRead' = MInc(FRead)
  /\ UNCHANGED <<FWrite, FInfo>>

-----------------------------------------------------------------------------
(* MEraseFromFifo.  The search walks back from FWrite with MDec and stops  *)
(* at the first slot equal to the event, or once it has looked at FRead.   *)
(* A walk longer than FMaxValue has entered a cycle and never ends.        *)
Back[k \in 0 .. FMaxValue] == IF k = 0 THEN FWrite ELSE MDec(Back[k - 1])

Matches(e) ==
  {k \in 1 .. FMaxValue :
     /\ \A j \in 1 .. k - 1 : Back[j] # FRead
     /\ FInfo[Slot(Back[k])] = e}

MutantShiftDown(c) == FInfo

(* Every slot from counter c up to FWrite receives its successor. *)
ShiftDown(c) ==
  LET steps == (FWrite - c - 1) % FMaxValue
      at(k) == Slot((c + k) % FMaxValue)
      shifted[k \in 0 .. steps] ==
        IF k = 0 THEN FInfo
        ELSE [shifted[k - 1] EXCEPT ![at(k - 1)] = shifted[k - 1][at(k)]]
  IN shifted[steps]

MutantMEraseFromFifo(e) ==
  /\ ~MEmpty
  /\ \E k \in Matches(e) :
       /\ \A j \in Matches(e) : k <= j
       /\ FInfo' = ShiftDown(Back[k])
  /\ FWrite' = MDec(FWrite)
  /\ FCountRecvEvent > 0
  /\ FCountRecvEvent' = FCountRecvEvent - 1
  /\ UNCHANGED FRead

(* Without a match nothing changes.  FCountRecvEvent keeps its value. *)
MEraseFromFifo(e) ==
  /\ ~MEmpty
  /\ \E k \in Matches(e) :
       /\ \A j \in Matches(e) : k <= j
       /\ FInfo' = ShiftDown(Back[k])
  /\ FWrite' = MDec(FWrite)
  /\ UNCHANGED <<FRead, FCountRecvEvent>>

PutPop ==
  \/ \E e \in Events : MPut(e)
  \/ MPop

(* Endpoints that send without blocking never erase. *)
Spec == Init /\ [][PutPop]_vars

(* A blocking send erases its event when no confirmation came in time.     *)
(* Only erases within a lap of the counters are steps here: MDec(0) is     *)
(* UintMax % FMaxValue and not FMaxValue - 1, so an erase while the queued *)
(* counters straddle the wrap leaves FWrite astray.                        *)
NextEraseInLap ==
  \/ PutPop
  \/ \E e \in Events : FRead < FWrite /\ MEraseFromFifo(e)

SpecEraseInLap == Init /\ [][NextEraseInLap]_vars

-----------------------------------------------------------------------------
(* The events held, oldest first. *)
Queued == [i \in 1 .. MCount |-> FInfo[Slot(FRead + i - 1)]]

QueuedOf(S) == {i \in 1 .. MCount : Queued[i] \in S}

Fifo == INSTANCE BoundedFifo WITH Capacity <- FArraySize, queue <- Queued

(* The counters stay in the range FMaxValue gives them, and the counter of *)
(* E_DATA events within its limit.                                         *)
TypeOK ==
  /\ FRead \in Counters
  /\ FWrite \in Counters
  /\ FInfo \in [Slots -> Events \cup {NoEvent}]
  /\ FCountRecvEvent \in 0 .. FMaxCountRecvEvent

(* CHECK_LE(_count, FArraySize) of MCount never fails: the two counters    *)
(* never drift further apart than the number of slots, over any number of  *)
(* wraps of either.                                                        *)
CountWithinArray == MCount <= FArraySize

(* FCountRecvEvent is never less than the number of E_DATA events in the   *)
(* ring, so the CHECK_NE(FCountRecvEvent, 0) of MPop never fails and data  *)
(* never takes more than FMaxCountRecvEvent slots.  It may be more: an     *)
(* erased E_DATA event stays counted.                                      *)
CountCoversData == Cardinality(QueuedOf(Data)) <= FCountRecvEvent

(* The purpose of EVENT_RESERV: data alone never fills the ring, a         *)
(* protocol event is refused only behind EVENT_RESERV protocol events.     *)
ControlIsNotStarved ==
  \A e \in Control :
    (FArraySize > EVENT_RESERV /\ ~CanPut(e))
       => Cardinality(QueuedOf(Control)) >= EVENT_RESERV

(* The ring is a bounded queue: events come out in the order they were put *)
(* in, each once, none invented and no slot delivered that was never       *)
(* written.                                                                *)
RingIsFifo == Fifo!Spec

(* An erase withdraws the newest occurrence of its event and no other, the *)
(* events behind it keep their order: the copy loop shifts the right       *)
(* slots wherever the event is found.                                      *)
EraseIsExact ==
  [][\A e \in Events : FRead < FWrite /\ MEraseFromFifo(e) => Fifo!Erase(e)]_vars
=============================================================================
