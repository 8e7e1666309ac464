---------------------------- MODULE BoundedFifo ----------------------------
(***************************************************************************)
(* What the event ring of SHARE/Socket promises its users: a bounded       *)
(* first-in first-out queue of events from which the newest occurrence of  *)
(* an event can be withdrawn.  A put may be refused, a refused put leaves  *)
(* no trace.                                                               *)
(***************************************************************************)
EXTENDS Naturals, Sequences, SequencesExt

CONSTANTS
  Events,    (* everything that can be put                                 *)
  Capacity   (* the number of slots                                        *)

VARIABLE queue

Init == queue = <<>>

Put(e) ==
  /\ Len(queue) < Capacity
  /\ queue' = Append(queue, e)

Pop ==
  /\ queue # <<>>
  /\ queue' = Tail(queue)

(* Withdraw the occurrence of e that was put last. *)
Erase(e) ==
  \E i \in DOMAIN queue :
    /\ queue[i] = e
    /\ \A j \in DOMAIN queue : j > i => queue[j] # e
    /\ queue' = RemoveAt(queue, i)

Next ==
  \/ \E e \in Events : Put(e)
  \/ Pop
  \/ \E e \in Events : Erase(e)

Spec == Init /\ [][Next]_queue
=============================================================================
