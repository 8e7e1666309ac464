--------------------------- MODULE Subscriptions ---------------------------
(***************************************************************************)
(* Who receives what: CRequiredDG, which a kernel keeps up to date while   *)
(* customers come, go and change what they want, and the handlers of       *)
(* CRoutingService that drive it (kernel/services).                        *)
(*                                                                         *)
(* A demand names a message and a program or a group it should come from.  *)
(* For every sender CRequiredDG keeps, per message and receiver, the       *)
(* callbacks to call, and counts those that are not registrars: a message  *)
(* nobody but registrars wants is not sent.  A demand for a message holds  *)
(* for its children too.  A demand for the nearest senders holds for the   *)
(* ones with the smallest distance only, which is kept in FNearestInfo.    *)
(* Nothing of this is computed again: every change is applied as a         *)
(* difference.                                                             *)
(*                                                                         *)
(* Versions, byte order and protocols are left out; the text of a name is  *)
(* a program and a sequence of groups.  An assertion of a debug build      *)
(* (DCHECK, DFATAL) does not stop the kernel, a CHECK does.                *)
(***************************************************************************)
EXTENDS Integers, SequencesExt

CONSTANTS
  Clients,              (* the customers of the net, in the order of uuids *)
  Local,                (* those that are connected to this kernel         *)
  NameOf,               (* the name of each: program and groups            *)
  Messages,             (* in the order of headers                         *)
  Children,             (* of each message, with their depth               *)
  Wishes,               (* the demands each customer may have              *)
  Kinships,             (* customers that come and go together             *)
  MaxDiffs              (* bound: differences not yet handled              *)

Client == ToSet(Clients)
Message == ToSet(Messages)
MAX == 100              (* numeric_limits<unsigned>::max()                 *)

ASSUME ClientAssumption ==
  /\ Local \subseteq Client /\ Kinships \subseteq SUBSET Client
  /\ \A g \in Kinships : g \subseteq Local => Cardinality(g) = 1
ASSUME ChildrenAssumption ==
  \A m \in Message : DOMAIN Children[m] \subseteq Message \ {m}
(* The customer library numbers its demands and replaces one that asks for *)
(* the same.                                                               *)
ASSUME WishAssumption ==
  \A c \in Client : \A d, e \in Wishes[c] :
    (d.handler = e.handler \/ (d.what = e.what /\ d.from = e.from)) => d = e

VARIABLES
  linked,               (* the customers with a connection to some kernel  *)
  diffs,                (* kernel_infos_diff_t events not yet handled      *)
  FIds, FDGs, FWhatIsSendingBy, FNumberOfRealReceivers, FNearestInfo,
  told,                 (* the receivers each publisher was told of        *)
  overwritten,          (* those it was not, as _update was assigned twice *)
  missed,               (* a nearest demand has been without its senders   *)
  aborted               (* a CHECK failed                                  *)

vars == <<linked, diffs, FIds, FDGs, FWhatIsSendingBy, FNumberOfRealReceivers,
          FNearestInfo, told, overwritten, missed, aborted>>

Routes == Client \X Message \X Client          (* sender, message, receiver *)
AllWishes == UNION {Wishes[c] : c \in Client}
NoHandlers == [handlers |-> <<>>, real |-> 0]

(* What one call of CRequiredDG works on: its fields, the receivers it     *)
(* reports as new and as removed, and whether all its CHECKs held.         *)
Fields ==
  [ids |-> FIds, dgs |-> FDGs, expected |-> FWhatIsSendingBy,
   receivers |-> FNumberOfRealReceivers, nearest |-> FNearestInfo,
   new |-> {}, old |-> {}, ok |-> TRUE]

-----------------------------------------------------------------------------
(* Names.  An empty name stands for a whole group.                         *)

Level(aWhat, aWith) == Len(aWhat) - Len(aWith) + 1

sMCompare(aWhat, aWith) ==
  IF aWhat.name # aWith.name \/ ~IsPrefix(aWith.group, aWhat.group) THEN 0
  ELSE IF aWith.group = <<>> /\ aWhat.group # <<>> THEN MAX
  ELSE Level(aWhat.group, aWith.group)

sMIsSubGroupOf(aWhat, aWith) ==
  IF ~IsPrefix(aWith.group, aWhat.group) THEN 0
  ELSE IF aWith.group = <<>> THEN MAX
  ELSE Level(aWhat.group, aWith.group)

MDoesIdConformTo(aTestId, d) ==
  LET name == NameOf[aTestId]
      what == IF d.invert THEN [name EXCEPT !.group = d.from.group] ELSE name
      with == IF d.invert THEN [d.from EXCEPT !.group = name.group] ELSE d.from
  IN  IF d.from.name # "" THEN sMCompare(what, with) ELSE sMIsSubGroupOf(what, with)

MGetUUIDFor(ids, d) == {c \in ids : MDoesIdConformTo(c, d) # 0}

MGetOnlyNearestUUIDFor(uuids, d) ==
  {c \in uuids : \A e \in uuids : MDoesIdConformTo(c, d) <= MDoesIdConformTo(e, d)}

DistanceOf(uuids, d) ==
  IF uuids = {} THEN MAX ELSE MDoesIdConformTo(CHOOSE c \in uuids : TRUE, d)

-----------------------------------------------------------------------------
(* The callbacks of one receiver of one message, by priority.              *)

Family(d) == {d.what} \cup DOMAIN Children[d.what]
Priority(d, m) == IF m = d.what THEN 0 ELSE Children[d.what][m] + 1
Real(d) == IF d.registrator THEN 0 ELSE 1

Position(handlers, h) == SelectInSeq(handlers, LAMBDA e : e.handler = h)

LowerBound(handlers, p) ==
  Len(SelectSeq(handlers, LAMBDA e : e.priority < p)) + 1

MAddHandler(entry, d, m) ==
  LET p == Priority(d, m)
      at == Position(entry.handlers, d.handler)
      better == at # 0 /\ p < entry.handlers[at].priority
      others == IF better THEN RemoveAt(entry.handlers, at) ELSE entry.handlers
  IN  [handlers |-> IF at # 0 /\ ~better THEN entry.handlers
                    ELSE InsertAt(others, LowerBound(others, p),
                                  [handler |-> d.handler, priority |-> p]),
       real |-> entry.real + Real(d)]

MRemoveHandler(entry, d) ==
  LET at == Position(entry.handlers, d.handler)
      rest == IF at = 0 THEN entry.handlers ELSE RemoveAt(entry.handlers, at)
  IN  IF rest = <<>> THEN NoHandlers
      ELSE [handlers |-> rest, real |-> entry.real - Real(d)]

IsReceived(expected, from, m) ==
  \E c \in Client : expected[<<from, m, c>>] # NoHandlers

(* Mutant: reported for the first callback, a registrar's or not.          *)
MutantMSendPacketFromTo(s, from, to, d) ==
  LET keys == {<<from, m, to>> : m \in Family(d)}
  IN  [s EXCEPT
         !.expected = [k \in Routes |-> IF k \in keys
                         THEN MAddHandler(s.expected[k], d, k[2]) ELSE s.expected[k]],
         !.receivers = [k \in Client \X Message |->
                          s.receivers[k] + (IF k[1] = from /\ k[2] \in Family(d)
                                            THEN Real(d) ELSE 0)],
         !.new = @ \cup {k \in keys : s.expected[k] = NoHandlers}]

(* The receiver gets the message and its children; it is reported for the  *)
(* messages whose first callback that is not a registrar's this is.        *)
MSendPacketFromTo(s, from, to, d) ==
  LET keys == {<<from, m, to>> : m \in Family(d)}
  IN  [s EXCEPT
         !.expected = [k \in Routes |-> IF k \in keys
                         THEN MAddHandler(s.expected[k], d, k[2]) ELSE s.expected[k]],
         !.receivers = [k \in Client \X Message |->
                          s.receivers[k] + (IF k[1] = from /\ k[2] \in Family(d)
                                            THEN Real(d) ELSE 0)],
         !.new = @ \cup {k \in keys : Real(d) = 1 /\ s.expected[k].real = 0}]

(* Mutant: the receivers that are left keep their number.                  *)
MutantMUnSendPacketFromTo(s, from, to, d) ==
  LET found == {k \in {<<from, m, to>> : m \in Family(d)} : s.expected[k] # NoHandlers}
  IN  [s EXCEPT
         !.expected = [k \in Routes |-> IF k \in found
                         THEN MRemoveHandler(s.expected[k], d) ELSE s.expected[k]],
         !.old = @ \cup {k \in found : Real(d) = 1 /\ s.expected[k].real = 1},
         !.ok = @ /\ \A k \in found : Real(d) = 1 => s.expected[k].real > 0]

MUnSendPacketFromTo(s, from, to, d) ==
  LET found == {k \in {<<from, m, to>> : m \in Family(d)} : s.expected[k] # NoHandlers}
      left == [k \in Routes |-> IF k \in found
                 THEN MRemoveHandler(s.expected[k], d) ELSE s.expected[k]]
  IN  [s EXCEPT
         !.expected = left,
         !.receivers = [k \in Client \X Message |->
                          IF <<k[1], k[2], to>> \notin found THEN s.receivers[k]
                          ELSE IF IsReceived(left, k[1], k[2])
                               THEN s.receivers[k] - Real(d) ELSE 0],
         !.old = @ \cup {k \in found : Real(d) = 1 /\ s.expected[k].real = 1},
         !.ok = @ /\ \A k \in found : Real(d) = 1 => s.expected[k].real > 0]

-----------------------------------------------------------------------------
(* A change of the demands of one customer.                                *)

InOrder(demands) == SetToSortSeq(demands, LAMBDA d, e : d.handler < e.handler)

SendersOf(s, d) ==
  LET uuids == MGetUUIDFor(s.ids, d)
  IN  IF d.nearest THEN MGetOnlyNearestUUIDFor(uuids, d) ELSE uuids

MAddSendersOfMsgFor(s, to, added) ==
  LET Add(acc, d) ==
        LET uuids == SendersOf(acc, d)
            leveled == IF d.nearest
                       THEN [acc EXCEPT !.nearest[to][d.handler] = DistanceOf(uuids, d)]
                       ELSE acc
        IN  FoldLeft(LAMBDA a, c : MSendPacketFromTo(a, c, to, d), leveled,
                     SelectSeq(Clients, LAMBDA c : c \in uuids))
  IN  FoldLeft(Add, s, InOrder(added))

MRemoveSendersOfMsgFor(s, to, removed) ==
  LET Remove1(acc, d) ==
        LET uuids == SendersOf(acc, d)
            leveled == IF d.nearest
                       THEN [acc EXCEPT !.nearest[to][d.handler] = 0] ELSE acc
        IN  FoldLeft(LAMBDA a, c : MUnSendPacketFromTo(a, c, to, d), leveled,
                     SelectSeq(Clients, LAMBDA c : c \in uuids))
  IN  FoldLeft(Remove1, s, InOrder(removed))

MRemoveAllSendersOfMsgsFor(s, to) ==
  MRemoveSendersOfMsgFor([s EXCEPT !.dgs[to] = {}], to, s.dgs[to])

(* Two demands are equal when they ask for the same from the same.         *)
Without(demands, others) ==
  {d \in demands : \A e \in others : d.what # e.what \/ d.from # e.from}

(* Mutant: what is not demanded any more is still sent.                    *)
MutantMSetDemandsDGFor(s, for, demands) ==
  IF demands = {} THEN MRemoveAllSendersOfMsgsFor(s, for)
  ELSE MAddSendersOfMsgFor([s EXCEPT !.dgs[for] = demands],
                           for, Without(demands, s.dgs[for]))

MSetDemandsDGFor(s, for, demands) ==
  IF demands = {} THEN MRemoveAllSendersOfMsgsFor(s, for)
  ELSE MAddSendersOfMsgFor(
         MRemoveSendersOfMsgFor([s EXCEPT !.dgs[for] = demands],
                                for, Without(s.dgs[for], demands)),
         for, Without(demands, s.dgs[for]))

-----------------------------------------------------------------------------
(* A customer that comes or goes.  A way is a demand and a sender.         *)

Way(from, to, d) ==
  [from |-> from, to |-> to, what |-> d, distance |-> MDoesIdConformTo(from, d)]

WaysFrom(senders, way) ==
  [i \in DOMAIN senders |-> Way(senders[i], way.to, way.what)]

MUpdateSendInfoFor(s, added, removed) ==
  FoldLeft(LAMBDA a, w : MSendPacketFromTo(a, w.from, w.to, w.what),
           FoldLeft(LAMBDA a, w : MUnSendPacketFromTo(a, w.from, w.to, w.what),
                    s, removed),
           added)

MGetListOfReceiversOfMsgsFrom(s, from) ==
  FlattenSeq([i \in DOMAIN Clients |->
    LET wanted == {d \in s.dgs[Clients[i]] : MDoesIdConformTo(from, d) # 0}
    IN  [j \in 1..Cardinality(wanted) |-> Way(from, Clients[i], InOrder(wanted)[j])]])

(* Mutant: the present senders stay when a nearer one comes.               *)
MutantStay(s, added) ==
  LET Step(acc, w) ==
        LET current == acc.nearest[w.to][w.what.handler]
        IN  IF ~w.what.nearest \/ w.distance = current
            THEN [acc EXCEPT !.added = Append(@, w)]
            ELSE IF w.distance > current THEN acc
            ELSE [acc EXCEPT !.added = Append(@, w),
                             !.nearest[w.to][w.what.handler] = w.distance]
  IN  FoldLeft(Step, [added |-> <<>>, removed |-> <<>>, nearest |-> s.nearest], added)

(* Mutant: the distance is not updated.                                    *)
MutantDistance(s, added) ==
  LET Step(acc, w) ==
        LET current == acc.nearest[w.to][w.what.handler]
            senders == SendersOf(s, w.what)
        IN  IF ~w.what.nearest \/ w.distance = current
            THEN [acc EXCEPT !.added = Append(@, w)]
            ELSE IF w.distance > current THEN acc
            ELSE [acc EXCEPT !.added = Append(@, w),
                             !.removed = @ \o
                     WaysFrom(SelectSeq(Clients, LAMBDA c : c \in senders), w)]
  IN  FoldLeft(Step, [added |-> <<>>, removed |-> <<>>, nearest |-> s.nearest], added)

(* A nearer sender takes the place of the present ones; a sender that is   *)
(* farther away is not used.                                               *)
MRemoveSenderIfNeed(s, added) ==
  LET Step(acc, w) ==
        LET current == acc.nearest[w.to][w.what.handler]
            senders == SendersOf(s, w.what)
        IN  IF ~w.what.nearest \/ w.distance = current
            THEN [acc EXCEPT !.added = Append(@, w)]
            ELSE IF w.distance > current THEN acc
            ELSE [added |-> Append(acc.added, w),
                  removed |-> acc.removed \o
                     WaysFrom(SelectSeq(Clients, LAMBDA c : c \in senders), w),
                  nearest |-> [acc.nearest EXCEPT ![w.to][w.what.handler] = w.distance]]
  IN  FoldLeft(Step, [added |-> <<>>, removed |-> <<>>, nearest |-> s.nearest], added)

MAddClient(s, id) ==
  LET ways == MRemoveSenderIfNeed(s, MGetListOfReceiversOfMsgsFrom(s, id))
      sent == MUpdateSendInfoFor([s EXCEPT !.nearest = ways.nearest],
                                 ways.added, ways.removed)
  IN  [sent EXCEPT !.ids = @ \cup {id}, !.ok = @ /\ id \notin s.ids]

(* The demands the callbacks stand for, once per message they are for.     *)
MGetWhatMsgSentFrom(s, from) ==
  LET DemandsFor(to, m) ==
        LET handlers == s.expected[<<from, m, to>>].handlers
            known == SelectSeq(handlers,
                       LAMBDA e : \E d \in s.dgs[to] : d.handler = e.handler)
        IN  [i \in DOMAIN known |->
               Way(from, to, CHOOSE d \in s.dgs[to] : d.handler = known[i].handler)]
  IN  FlattenSeq([i \in DOMAIN Clients |->
        FlattenSeq([j \in DOMAIN Messages |-> DemandsFor(Clients[i], Messages[j])])])

(* The next nearest senders take the place of the one that is removed, if  *)
(* it was the last one at its distance.                                    *)
MAddSenderIfNeed(s, from, removed) ==
  LET Step(acc, w) ==
        LET current == acc.nearest[w.to][w.what.handler]
            senders == MGetOnlyNearestUUIDFor(
                         MGetUUIDFor(s.ids, w.what) \ {from}, w.what)
            next == DistanceOf(senders, w.what)
        IN  IF ~w.what.nearest THEN acc
            ELSE IF w.distance < current THEN [acc EXCEPT !.ok = FALSE]
            ELSE IF w.distance # current \/ senders = {} \/ next = current THEN acc
            ELSE [acc EXCEPT
                    !.added = @ \o
                       WaysFrom(SelectSeq(Clients, LAMBDA c : c \in senders), w),
                    !.nearest[w.to][w.what.handler] = next]
  IN  FoldLeft(Step, [added |-> <<>>, nearest |-> s.nearest, ok |-> TRUE], removed)

MRemoveAllReceiversForMsgsFrom(s, from) ==
  LET removed == MGetWhatMsgSentFrom(s, from)
      ways == MAddSenderIfNeed(s, from, removed)
      sent == MUpdateSendInfoFor([s EXCEPT !.nearest = ways.nearest],
                                 ways.added, removed)
  IN  [sent EXCEPT
         !.expected = [k \in Routes |-> IF k[1] = from THEN NoHandlers ELSE @[k]],
         !.receivers = [k \in Client \X Message |-> IF k[1] = from THEN 0 ELSE @[k]],
         !.ok = @ /\ ways.ok]

MRemoveClient(s, uuid) ==
  IF uuid \notin s.ids THEN s
  ELSE [MRemoveAllReceiversForMsgsFrom(MRemoveAllSendersOfMsgsFor(s, uuid), uuid)
          EXCEPT !.ids = @ \ {uuid}]

-----------------------------------------------------------------------------
(* The receivers of a message that is sent to everybody who wants it       *)
(* (sentTo = {}) or to the given customers.                                *)

MFillRouteAndDestanationInfo(from, m, sentTo) ==
  LET entry(c) == FWhatIsSendingBy[<<from, m, c>>]
      chosen == {c \in Client :
                   /\ entry(c) # NoHandlers
                   /\ sentTo = {} \/ c \in sentTo
                      \/ Len(entry(c).handlers) # entry(c).real}
  IN  [destination |-> {c \in chosen : entry(c).real > 0},
       registrators |-> {c \in chosen : entry(c).real = 0}]

MFillMsgReceivers(from, m, sentTo) ==
  IF FNumberOfRealReceivers[<<from, m>>] > 0
  THEN MFillRouteAndDestanationInfo(from, m, sentTo)
  ELSE [destination |-> {}, registrators |-> {}]

-----------------------------------------------------------------------------
(* The handlers of the routing service, under its write access.            *)

(* What the demands and the known customers ask for, from scratch.         *)
Wanted(from, m, to) ==
  {d \in FDGs[to] : from \in FIds /\ m \in Family(d) /\ MDoesIdConformTo(from, d) # 0}
Callbacks(from, m, to) ==
  {e.handler : e \in ToSet(FWhatIsSendingBy[<<from, m, to>>].handlers)}
Called(from, m, to) == {d \in FDGs[to] : d.handler \in Callbacks(from, m, to)}

(* A nearest demand is served by all its senders at the smallest distance, *)
(* as the comment on E_NEAREST has it.                                     *)
NearestIsServed ==
  \A to \in Client : \A d \in FDGs[to] : d.nearest =>
    {c \in Client : d \in Called(c, d.what, to)}
      = MGetOnlyNearestUUIDFor(MGetUUIDFor(FIds, d), d)

(* A CHECK stops the kernel in the middle of the call.                     *)
KeepUnlessAborted(s, known) ==
  /\ aborted' = ~s.ok
  /\ IF s.ok
     THEN /\ FIds' = s.ids /\ FDGs' = s.dgs /\ FWhatIsSendingBy' = s.expected
          /\ FNumberOfRealReceivers' = s.receivers /\ FNearestInfo' = s.nearest
          /\ told' = known /\ missed' = (missed \/ ~NearestIsServed')
     ELSE UNCHANGED <<FIds, FDGs, FWhatIsSendingBy, FNumberOfRealReceivers,
                      FNearestInfo, told, missed>>

(* What is new is sent first, what is removed second, both only to         *)
(* customers of this kernel that are connected.                            *)
Ours(keys) == {k \in keys : k[1] \in Local \cap linked}
MInformNewReceiver(known, s) == (known \cup Ours(s.new)) \ Ours(s.old)

Unreported(s) == [s EXCEPT !.new = {}, !.old = {}]

(* The customers of a kernel one after the other: _update is assigned for  *)
(* each and only the last one is told.                                     *)
InTurn(group) == SelectSeq(Clients, LAMBDA c : c \in group)
Handled(acc, s) == [last |-> s, lost |-> acc.lost \cup acc.last.new]

MHandleNewId(s, group) ==
  FoldLeft(LAMBDA acc, c : Handled(acc, MAddClient(Unreported(acc.last), c)),
           [last |-> Unreported(s), lost |-> {}], InTurn(group))

MHandleCloseId(s, group) ==
  FoldLeft(LAMBDA acc, c : Handled(acc, MRemoveClient(Unreported(acc.last), c)),
           [last |-> Unreported(s), lost |-> {}], InTurn(group))

MHandleDiff ==
  /\ ~aborted /\ diffs # <<>>
  /\ LET diff == Head(diffs)
         opened == MHandleNewId(Fields, diff.opened)
         closed == MHandleCloseId(opened.last, diff.closed)
     IN  /\ KeepUnlessAborted(closed.last,
              MInformNewReceiver(MInformNewReceiver(told, opened.last), closed.last))
         /\ overwritten' = (overwritten \cup Ours(opened.lost \cup closed.lost)) \ told'
  /\ diffs' = Tail(diffs)
  /\ UNCHANGED linked

(* A list of demands holds all of them.  The customer library sends it     *)
(* after every change, and when it is connected.                           *)
Lists(c) ==
  {w \in SUBSET Wishes[c] :
     w # FDGs[c] /\ (FDGs[c] = {} \/ Cardinality(SymDiff(w, FDGs[c])) = 1)}

(* From a customer of this kernel.                                         *)
MHandleFrom(c) ==
  /\ ~aborted /\ c \in Local \cap linked
  /\ \E w \in Lists(c) :
       LET s == MSetDemandsDGFor(Fields, c, w)
       IN  KeepUnlessAborted(s, MInformNewReceiver(told, s))
  /\ UNCHANGED <<linked, diffs, overwritten>>

(* From the kernel of another customer, which may be unknown yet or no     *)
(* more.  The removed receivers are not passed on.                         *)
MHandleNewDemands(c) ==
  /\ ~aborted /\ c \notin Local
  /\ \E w \in Lists(c) :
       LET s == MSetDemandsDGFor(Fields, c, w)
       IN  KeepUnlessAborted(s, MInformNewReceiver(told, [s EXCEPT !.old = {}]))
  /\ UNCHANGED <<linked, diffs, overwritten>>

-----------------------------------------------------------------------------
(* The network, as the descriptors and CInfoService show it.               *)

Connect(g) ==
  /\ ~aborted /\ g \cap linked = {} /\ Len(diffs) < MaxDiffs
  /\ linked' = linked \cup g
  /\ diffs' = Append(diffs, [opened |-> g, closed |-> {}])
  /\ UNCHANGED <<FIds, FDGs, FWhatIsSendingBy, FNumberOfRealReceivers, FNearestInfo,
                 told, overwritten, missed, aborted>>

(* A customer that is connected again knows of no receiver.                *)
Disconnect(g) ==
  /\ ~aborted /\ g \subseteq linked /\ Len(diffs) < MaxDiffs
  /\ linked' = linked \ g
  /\ diffs' = Append(diffs, [opened |-> {}, closed |-> g])
  /\ told' = {k \in told : k[1] \notin g}
  /\ overwritten' = {k \in overwritten : k[1] \notin g}
  /\ UNCHANGED <<FIds, FDGs, FWhatIsSendingBy, FNumberOfRealReceivers, FNearestInfo,
                 missed, aborted>>

Init ==
  /\ linked = {} /\ diffs = <<>> /\ FIds = {} /\ FDGs = [c \in Client |-> {}]
  /\ FWhatIsSendingBy = [k \in Routes |-> NoHandlers]
  /\ FNumberOfRealReceivers = [k \in Client \X Message |-> 0]
  /\ FNearestInfo = [c \in Client |-> [h \in {d.handler : d \in AllWishes} |-> 0]]
  /\ told = {} /\ overwritten = {} /\ missed = FALSE /\ aborted = FALSE

Next ==
  \/ MHandleDiff
  \/ \E c \in Client : MHandleFrom(c) \/ MHandleNewDemands(c)
  \/ \E g \in Kinships : Connect(g) \/ Disconnect(g)

Spec == Init /\ [][Next]_vars

-----------------------------------------------------------------------------
(* Properties                                                              *)

(* The callbacks a message from a sender reaches are the demands of the    *)
(* receiver it satisfies, whatever was subscribed, cancelled, connected    *)
(* and disconnected in between and in which order (nearest demands apart). *)
CallbacksAreExact ==
  \A from, to \in Client, m \in Message :
    Callbacks(from, m, to) \ {d.handler : d \in {e \in FDGs[to] : e.nearest}}
      = {d.handler : d \in {e \in Wanted(from, m, to) : ~e.nearest}}

(* A nearest demand is served by the senders at one distance, the smallest *)
(* one, by all of them or by none.                                         *)
NearestOnly ==
  \A to \in Client : \A d \in FDGs[to] : d.nearest =>
    LET served == {c \in Client : d \in Called(c, d.what, to)}
    IN  served \in {{}, MGetOnlyNearestUUIDFor(MGetUUIDFor(FIds, d), d)}

(* A message is sent to its receivers, and to registrars only if somebody  *)
(* else wants it: the counters agree with the callbacks.  Once a nearest   *)
(* demand missed its senders, its removal counts a sender it never had.    *)
RegistrarsDoNotCount ==
  ~missed => \A from \in Client, m \in Message : \A sentTo \in {{}} \cup {{c} : c \in Client} :
    LET real == {c \in Client : \E d \in Called(from, m, c) : ~d.registrator}
        registrars == {c \in Client : \E d \in Called(from, m, c) : d.registrator}
        route == MFillMsgReceivers(from, m, sentTo)
        all == route.destination \cup route.registrators
        asked == IF sentTo = {} THEN real ELSE real \cap sentTo
    IN  all = IF real = {} THEN {} ELSE asked \cup registrars

(* A customer was told of everybody who receives a message from it, once   *)
(* its own connection was handled, unless what it should be told was       *)
(* dropped by the loop over several customers.                             *)
PublishersAreTold ==
  \A k \in Routes :
    (/\ k[1] \in Local \cap linked /\ FWhatIsSendingBy[k].real > 0
     /\ \A i \in DOMAIN diffs : k[1] \notin diffs[i].opened \cup diffs[i].closed)
      => k \in told \cup overwritten

(* Otherwise a CHECK stops the kernel for one reason only: a nearest       *)
(* demand for a message with children loses its sender.                    *)
AbortsOnlyByInheritance ==
  aborted /\ ~missed => \E c \in Client : \E d \in FDGs[c] : d.nearest /\ DOMAIN Children[d.what] # {}
=============================================================================
