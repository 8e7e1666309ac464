--------------------------- MODULE PacketDivisor ---------------------------
(***************************************************************************)
(* CPacketDivisor: a packet that is larger than a link allows is split by  *)
(* the kernel that sends it over the link, its parts may be split again by *)
(* the kernels behind it, and the kernel of the receiver joins them, since *)
(* a customer takes whole packets only (CAN_NOT_SPLIT).                    *)
(*                                                                         *)
(* One program sends to one customer through a chain of links.  Kernel h   *)
(* sends over link h; the kernel behind the last link has the customer.    *)
(* Parts keep their order on a link; any of them may be lost, with or      *)
(* without a report, when the buffer of a channel is full or its link is   *)
(* closed.  A packet is the sequence 1 .. n of its bytes.  Merging is done in the call              *)
(* (NO_MERGE_THREAD is defined), so a merge under way is touched only by   *)
(* the receiver.                                                           *)
(***************************************************************************)
EXTENDS Integers, Sequences, FiniteSets

CONSTANTS
  Links,        (* number of links of the chain                            *)
  Limit,        (* FMaxSize of each link, 0 for none                       *)
  Header,       (* what pMCalculate adds to the size of the data           *)
  CustomerMax,  (* FMaxSize of the customer, 0 for none                    *)
  CounterMod,   (* 2^16: the values of FCounter and FCoefficient           *)
  Sizes,        (* sizes of the packets that are sent                      *)
  MaxPackets,   (* bound: packets sent                                     *)
  MaxLost,      (* bound: parts lost                                       *)
  MaxBatch      (* bound: parts handed over in one call                    *)

(* A limit of one byte, or one that the header alone reaches, makes MSplit *)
(* produce empty parts or divide by zero.                                  *)
ASSUME LinkAssumption ==
  /\ Links \in Nat \ {0}
  /\ Header \in Nat
  /\ Limit \in [1 .. Links -> {0} \cup {n \in Nat : n > 1 /\ n > Header}]
  /\ CustomerMax \in Nat
ASSUME SizeAssumption == CounterMod \in Nat \ {0} /\ Sizes \subseteq Nat \ {0}

VARIABLES
  sizeOf,       (* the sizes of the packets sent so far                    *)
  wire,         (* the parts on each link                                  *)
  aWhat,        (* what the customer's kernel has to handle in this call   *)
  FMergeOp,     (* the merge under way for this sender and customer        *)
  out,          (* the packets put on the customer's channel               *)
  reported,     (* the fails the kernels reported to the sender            *)
  lost,         (* the packets of the parts lost, one by one (history)     *)
  arrived,      (* the packets of which a part arrived (history)           *)
  levels,       (* packets, and the coefficients their parts arrive with:   *)
                (* a later one for each earlier one (history)              *)
  cut           (* packets with a coefficient over 16 bits (history)       *)

vars == <<sizeOf, wire, aWhat, FMergeOp, out, reported, lost, arrived, levels, cut>>
history == <<lost, arrived, levels, cut>>

NoOp == [pkt |-> 0, buf |-> <<>>, FSplitLevel |-> <<>>]

Init ==
  /\ sizeOf = <<>>
  /\ wire = [h \in 1 .. Links |-> <<>>]
  /\ aWhat = <<>>
  /\ FMergeOp = NoOp
  /\ out = <<>>
  /\ reported = {}
  /\ lost = <<>>
  /\ arrived = {}
  /\ levels = {}
  /\ cut = {}

-----------------------------------------------------------------------------
(* Splitting *)

(* split_packet_t of a packet that was never split *)
Whole(p, n) ==
  [pkt |-> p, FCoefficient |-> 1, FCounter |-> 1, FIsLast |-> TRUE,
   data |-> [i \in 1 .. n |-> i]]

MIsSplited(part) ==
  ~(part.FCounter = 1 /\ part.FCoefficient = 1 /\ part.FIsLast)

(* _valid_num_part: enough parts of aPartSize, made even *)
NumberOfParts(n, aPartSize) ==
  LET max == IF aPartSize >= n THEN n - 1 ELSE aPartSize
      num == n \div max + (IF n % max = 0 THEN 0 ELSE 1)
  IN IF num % 2 = 0 THEN num ELSE num + 1

(* Parts of equal size, of which the last one also takes the remainder,    *)
(* whatever the limit says of it.                                          *)
MSplit(part, aPartSize) ==
  LET n == Len(part.data)
      valid == NumberOfParts(n, aPartSize)
      size == n \div valid
  IN [i \in 1 .. valid |->
        [part EXCEPT
           !.FCoefficient = (@ * valid) % CounterMod,
           !.FCounter = (@ * valid - valid + i) % CounterMod,
           !.FIsLast = @ /\ i = valid,
           !.data = SubSeq(@, (i - 1) * size + 1,
                           IF i = valid THEN n ELSE i * size)]]

(* MSplitOrMergeIfNeed for a link that is LIMITED, or has no limit. *)
SplitIfNeed(part, max) ==
  IF max = 0 \/ max >= Len(part.data) + Header THEN <<part>> ELSE MSplit(part, max)

LevelsFor(p) == {l[3] : l \in {m \in levels : m[1] = p}}

(* Kernel h has put the parts of a part on its link; all of them have the  *)
(* same coefficient.                                                       *)
Note(h, part, parts) ==
  /\ levels' = IF h = Links
               THEN LET d == parts[1].FCoefficient
                    IN levels \cup {<<part.pkt, c, d>> : c \in LevelsFor(part.pkt) \cup {d}}
               ELSE levels
  /\ cut' = IF part.FCoefficient * Len(parts) >= CounterMod
            THEN cut \cup {part.pkt} ELSE cut

(* The program sends a packet; its kernel passes it to the first link. *)
MSendTo(n) ==
  LET packet == Whole(Len(sizeOf) + 1, n)
      parts == SplitIfNeed(packet, Limit[1])
  IN
  /\ Len(sizeOf) < MaxPackets
  /\ sizeOf' = Append(sizeOf, n)
  /\ wire' = [wire EXCEPT ![1] = @ \o parts]
  /\ Note(1, packet, parts)
  /\ UNCHANGED <<aWhat, FMergeOp, out, reported, lost, arrived>>

(* The kernel behind link h passes a part on. *)
Forward(h) ==
  LET parts == SplitIfNeed(Head(wire[h]), Limit[h + 1])
  IN
  /\ wire[h] # <<>>
  /\ wire' = [wire EXCEPT ![h] = Tail(@), ![h + 1] = @ \o parts]
  /\ Note(h + 1, Head(wire[h]), parts)
  /\ UNCHANGED <<sizeOf, aWhat, FMergeOp, out, reported, lost, arrived>>

(* What a kernel on the way reports of a part that a full or closed channel *)
(* refused or did not send; it stands for E_SOCKET_CLOSED and              *)
(* E_UNKNOWN_ERROR too, which no property tells apart.                     *)
SendError == "E_BUFFER_IS_FULL"

(* A part is lost: refused by the channel or left over when that is closed, *)
(* which the kernel reports, or gone with the socket, which nobody does.   *)
(* Nothing reads the report, so that of a part refused when it was put is  *)
(* made here, when the part comes to the head of its link.                 *)
Lose(h) ==
  /\ wire[h] # <<>>
  /\ Len(lost) < MaxLost
  /\ lost' = Append(lost, Head(wire[h]).pkt)
  /\ wire' = [wire EXCEPT ![h] = Tail(@)]
  /\ \/ UNCHANGED reported
     \/ reported' = reported \cup {<<Head(wire[h]).pkt, SendError>>}
  /\ UNCHANGED <<sizeOf, aWhat, FMergeOp, out, arrived, levels, cut>>

-----------------------------------------------------------------------------
(* Merging: MSplitOrMergeIfNeed for the customer, which CAN_NOT_SPLIT.     *)
(* The call handles its list from the front; each round of its loop is a   *)
(* step.                                                                   *)

(* CKernelIo::MSendTo calls it with the parts that came together. *)
Receive(n) ==
  /\ aWhat = <<>>
  /\ n \in 1 .. Len(wire[Links])
  /\ aWhat' = SubSeq(wire[Links], 1, n)
  /\ wire' = [wire EXCEPT ![Links] = SubSeq(@, n + 1, Len(@))]
  /\ arrived' = arrived \cup {aWhat'[i].pkt : i \in 1 .. n}
  /\ UNCHANGED <<sizeOf, FMergeOp, out, reported, lost, levels, cut>>

(* A packet that was not split. *)
PassOrRefuse ==
  LET part == Head(aWhat)
      fits == CustomerMax = 0 \/ CustomerMax >= Len(part.data)
  IN
  /\ aWhat # <<>>
  /\ ~MIsSplited(part)
  /\ out' = IF fits THEN Append(out, [pkt |-> part.pkt, data |-> part.data]) ELSE out
  /\ reported' = IF fits THEN reported ELSE reported \cup {<<part.pkt, "E_DATA_TOO_LARGE">>}
  /\ aWhat' = Tail(aWhat)
  /\ UNCHANGED <<sizeOf, wire, FMergeOp, history>>

(* The parts that MMerge takes from the list: those of one packet. *)
Run ==
  LET n == CHOOSE n \in 1 .. Len(aWhat) :
             /\ \A i \in 1 .. n : aWhat[i].pkt = aWhat[1].pkt
             /\ n < Len(aWhat) => aWhat[n + 1].pkt # aWhat[1].pkt
  IN SubSeq(aWhat, 1, n)

MutantSupersede ==
  /\ aWhat # <<>>
  /\ MIsSplited(Head(aWhat))
  /\ FMergeOp # NoOp
  /\ FMergeOp.pkt # Head(aWhat).pkt
  /\ FMergeOp' = NoOp
  /\ UNCHANGED <<sizeOf, wire, aWhat, out, reported, history>>

(* A part of another packet: what was merged so far is reported as lost    *)
(* and the loop of MMerge begins anew.                                     *)
Supersede ==
  /\ aWhat # <<>>
  /\ MIsSplited(Head(aWhat))
  /\ FMergeOp # NoOp
  /\ FMergeOp.pkt # Head(aWhat).pkt
  /\ reported' = reported \cup {<<FMergeOp.pkt, "E_PACKET_LOST">>}
  /\ FMergeOp' = NoOp
  /\ UNCHANGED <<sizeOf, wire, aWhat, out, history>>

(* merge_operation_t for a packet *)
OpFor(part) == [NoOp EXCEPT !.pkt = part.pkt]

MutantInSequence(op, parts) ==
  \A i \in DOMAIN parts :
    parts[i].FCoefficient \in DOMAIN op.FSplitLevel =>
      parts[i].FCounter > op.FSplitLevel[parts[i].FCoefficient]

(* MCheckingSequence: each coefficient counts on its own, and the first    *)
(* part with a new coefficient is not checked.                             *)
InSequence(op, parts) ==
  \A i \in DOMAIN parts :
    LET before == {j \in 1 .. i - 1 : parts[j].FCoefficient = parts[i].FCoefficient}
        k == CHOOSE k \in before : \A j \in before : j <= k
    IN IF before # {} THEN parts[i].FCounter = parts[k].FCounter + 1
       ELSE parts[i].FCoefficient \in DOMAIN op.FSplitLevel =>
              parts[i].FCounter = op.FSplitLevel[parts[i].FCoefficient] + 1

(* FSplitLevel after the parts: the last counter of each coefficient *)
LevelAfter(op, parts) ==
  LET coefs == {parts[i].FCoefficient : i \in DOMAIN parts}
      Last(c) == CHOOSE k \in DOMAIN parts :
                   /\ parts[k].FCoefficient = c
                   /\ \A j \in k + 1 .. Len(parts) : parts[j].FCoefficient # c
  IN [c \in coefs \cup DOMAIN op.FSplitLevel |->
        IF c \in coefs THEN parts[Last(c)].FCounter ELSE op.FSplitLevel[c]]

(* MMergePacket of the parts, one after the other *)
DataOf(parts) ==
  LET F[i \in 0 .. Len(parts)] == IF i = 0 THEN <<>> ELSE F[i - 1] \o parts[i].data
  IN F[Len(parts)]

MutantMMerge ==
  LET parts == Run
      op == IF FMergeOp = NoOp THEN OpFor(parts[1]) ELSE FMergeOp
      fail == ~InSequence(op, parts)
      merged == [op EXCEPT !.buf = @ \o DataOf(parts),
                           !.FSplitLevel = LevelAfter(op, parts)]
      done == parts[Len(parts)].FIsLast
  IN
  /\ aWhat # <<>>
  /\ MIsSplited(Head(aWhat))
  /\ FMergeOp = NoOp \/ FMergeOp.pkt = parts[1].pkt
  /\ FMergeOp' = IF done THEN NoOp ELSE merged
  /\ out' = IF ~fail /\ done
            THEN Append(out, [pkt |-> op.pkt, data |-> merged.buf]) ELSE out
  /\ reported' = IF fail THEN reported \cup {<<op.pkt, "E_PACKET_LOST">>} ELSE reported
  /\ aWhat' = SubSeq(aWhat, Len(parts) + 1, Len(aWhat))
  /\ UNCHANGED <<sizeOf, wire, history>>

MMerge ==
  LET parts == Run
      op == IF FMergeOp = NoOp THEN OpFor(parts[1]) ELSE FMergeOp
      fail == \/ FMergeOp = NoOp /\ parts[1].FCounter # 1
              \/ ~InSequence(op, parts)
      merged == [op EXCEPT !.buf = @ \o DataOf(parts),
                           !.FSplitLevel = LevelAfter(op, parts)]
      done == parts[Len(parts)].FIsLast
  IN
  /\ aWhat # <<>>
  /\ MIsSplited(Head(aWhat))
  /\ FMergeOp = NoOp \/ FMergeOp.pkt = parts[1].pkt
  /\ \A i \in 1 .. Len(parts) - 1 : ~parts[i].FIsLast   (* CHECK *)
  /\ FMergeOp' = IF fail \/ done THEN NoOp ELSE merged
  /\ out' = IF ~fail /\ done
            THEN Append(out, [pkt |-> op.pkt, data |-> merged.buf]) ELSE out
  /\ reported' = IF fail THEN reported \cup {<<op.pkt, "E_PACKET_LOST">>} ELSE reported
  /\ aWhat' = SubSeq(aWhat, Len(parts) + 1, Len(aWhat))
  /\ UNCHANGED <<sizeOf, wire, history>>

-----------------------------------------------------------------------------
Handled == aWhat = <<>> /\ \A h \in 1 .. Links : wire[h] = <<>>

(* All is sent and handled. *)
Done ==
  /\ Handled
  /\ Len(sizeOf) = MaxPackets
  /\ UNCHANGED vars

Next ==
  \/ \E n \in Sizes : MSendTo(n)
  \/ \E h \in 1 .. Links - 1 : Forward(h)
  \/ \E h \in 1 .. Links : Lose(h)
  \/ \E n \in 1 .. MaxBatch : Receive(n)
  \/ PassOrRefuse
  \/ Supersede
  \/ MMerge
  \/ Done

Spec == Init /\ [][Next]_vars

-----------------------------------------------------------------------------
Packets == 1 .. Len(sizeOf)
IsEntire(o) == o.data = [i \in 1 .. sizeOf[o.pkt] |-> i]
Lossy(p) == \E i \in DOMAIN lost : lost[i] = p
Delivered(p) == \E i \in DOMAIN out : out[i].pkt = p
Refused(p) == <<p, SendError>> \in reported
Reported(p) == \E e \in {"E_PACKET_LOST", "E_DATA_TOO_LARGE"} : <<p, e>> \in reported

(* Parts of the packet arrive with different coefficients, and with one of *)
(* them again after another one.                                           *)
Uneven(p) == \E l \in levels : l[1] = p /\ l[2] # l[3]
Recurs(p) == \E l \in levels : l[1] = p /\ l[2] # l[3] /\ <<p, l[3], l[2]>> \in levels

Part == [pkt : Nat, FCoefficient : Nat, FCounter : Nat, FIsLast : BOOLEAN, data : Seq(Nat)]

(* Parts are parts and the merge under way belongs to a packet that was    *)
(* sent.                                                                   *)
TypeOK ==
  /\ sizeOf \in Seq(Sizes)
  /\ wire \in [1 .. Links -> Seq(Part)]
  /\ aWhat \in Seq(Part)
  /\ FMergeOp = NoOp \/ FMergeOp.pkt \in Packets
  /\ lost \in Seq(Packets)
  /\ arrived \subseteq Packets

(* The sequence check protects a packet whose parts all carry the same     *)
(* coefficient, and joining undoes splitting for every packet that arrives *)
(* with all its parts, however often they were split: only a lost part of  *)
(* a packet that was split twice unevenly goes unnoticed.  A packet with   *)
(* more parts than 16 bits count is not protected.                         *)
EntireUnlessUneven ==
  \A i \in DOMAIN out :
    \/ IsEntire(out[i])
    \/ Lossy(out[i].pkt) /\ Uneven(out[i].pkt)
    \/ out[i].pkt \in cut

(* The customer gets packets in the order they were sent, none twice, and  *)
(* a packet given to it is not reported as failed to its sender: not by    *)
(* the customer's kernel, and not by a kernel on the way either, unless it *)
(* was split unevenly, when the loss of the refused part goes unnoticed.   *)
(* A packet whose counters begin anew because 16 bits do not suffice may   *)
(* be given and reported.                                                  *)
OneFate ==
  /\ \A i, j \in DOMAIN out : i < j => out[i].pkt < out[j].pkt
  /\ \A i \in DOMAIN out :
       /\ Reported(out[i].pkt) => out[i].pkt \in cut
       /\ Refused(out[i].pkt) => out[i].pkt \in cut \/ Uneven(out[i].pkt)

(* A packet of which something arrived was given to the customer, was      *)
(* reported, or waits for its last part.                                   *)
HasFate(p) == p \in arrived => Delivered(p) \/ Reported(p) \/ FMergeOp.pkt = p

(* When everything is handled, no packet of which something arrived is     *)
(* forgotten; and one that lost nothing was given to the customer, unless  *)
(* it is too large, its coefficient does not fit into 16 bits, or parts    *)
(* with one coefficient arrive on both sides of one with another: their    *)
(* counters do not follow each other, and the packet is reported as lost.  *)
NothingIsForgotten ==
  Handled =>
    \A p \in Packets :
      /\ HasFate(p)
      /\ ~Lossy(p) /\ ~Delivered(p) =>
           \/ <<p, "E_DATA_TOO_LARGE">> \in reported
           \/ p \in cut
           \/ Recurs(p)
=============================================================================
