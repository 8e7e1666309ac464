----------------------------- MODULE KernelNet -----------------------------
(***************************************************************************)
(* What every kernel knows of the others: CInfoService, the descriptors    *)
(* and the events between them and the routing service (kernel/services,   *)
(* kernel/core).                                                           *)
(*                                                                         *)
(* A kernel keeps one record per kernel, the programs connected to it with *)
(* a number that grows with every change, and for each record the links it *)
(* was learnt from.  It sends all of them to its neighbours when a program *)
(* is connected or gone, and merges what they send.  IO threads open and   *)
(* close descriptors; this and the differences found go to a pool as       *)
(* IMMEDIATE operations, the records that were received as AS_LOWER ones.  *)
(* A thread takes an operation and applies it later, when FUpdateMutex is  *)
(* free.                                                                   *)
(*                                                                         *)
(* A link stands for the two descriptors at its ends; descriptors are      *)
(* never used again and a program that is started again has a new uuid.    *)
(***************************************************************************)
EXTENDS Naturals, Sequences, FiniteSets

CONSTANTS
  Kernels, Customers,   (* programs                                        *)
  Links, Ends,          (* links, each with its two programs               *)
  INVALID,              (* the descriptor of the kernel's own record       *)
  Worlds                (* networks and bounds: the links that are made,   *)
                        (* those that may break, the size of the pools,    *)
                        (* the programs a way is looked for, the kernels   *)
                        (* that connect and take no further steps          *)

Programs == Kernels \cup Customers

ASSUME LinkAssumption ==
  /\ Kernels \cap Customers = {} /\ INVALID \notin Links
  /\ \A l \in Links :
       /\ Ends[l] \in SUBSET Programs /\ IsFiniteSet(Ends[l]) /\ Cardinality(Ends[l]) = 2
       /\ Ends[l] \cap Kernels # {}
(* A customer is connected to one kernel.                                  *)
ASSUME CustomerAssumption ==
  \A x \in Customers : \A l, m \in Links :
    x \in Ends[l] \cap Ends[m] => Ends[l] = Ends[m]
ASSUME WorldAssumption ==
  Worlds \subseteq [links : SUBSET Links, breakable : SUBSET Links,
                    threads : Nat \ {0}, destinations : SUBSET Programs,
                    silent : SUBSET Kernels]

VARIABLES
  world,                (* one of Worlds                                   *)
  FDescriptors,         (* state of each descriptor of each kernel         *)
  FByUUIDs,             (* the descriptor of each program                  *)
  FNet, FUUIDFrom, FAllDescriptors, FGraph, FDestinationCache,
  FIds,                 (* the customers known to the routing service      *)
  events,               (* IMMEDIATE operations of each pool               *)
  infos,                (* records on their way to each end of a link and  *)
                        (* AS_LOWER operations                             *)
  taken,                (* operations threads have taken and not applied   *)
  broken,               (* the links that were broken                      *)
  aborted               (* the kernels stopped by a CHECK                  *)

descVars == <<FDescriptors, FByUUIDs>>
infoVars == <<FNet, FUUIDFrom, FAllDescriptors, FGraph, FDestinationCache>>
vars == <<world, descVars, infoVars, FIds, events, infos, taken, broken, aborted>>

LinksOf(k) == {l \in world.links : k \in Ends[l]}
Peer(k, l) == CHOOSE p \in Ends[l] : p # k

Open(l) == [what |-> "open", id |-> l]
Close(l) == [what |-> "close", id |-> l]
Diff(opened, closed) == [what |-> "diff", opened |-> opened, closed |-> closed]
Info(l, net) == [what |-> "info", id |-> l, net |-> net]

Record(links, n) == [FCustomerInfo |-> links, FIndexNumber |-> n]
EmptyMap == [x \in {} |-> x]

Init ==
  /\ world \in Worlds
  /\ FDescriptors = [k \in Kernels |-> [l \in LinksOf(k) |-> "created"]]
  /\ FByUUIDs = [k \in Kernels |-> [p \in Programs |-> INVALID]]
  /\ FNet = [k \in Kernels |-> [i \in {k} |-> Record({}, 0)]]
  /\ FUUIDFrom = [k \in Kernels |-> [i \in {k} |-> {INVALID}]]
  /\ FAllDescriptors = [k \in Kernels |-> {}]
  /\ FGraph = [k \in Kernels |-> EmptyMap]
  /\ FDestinationCache = [k \in Kernels |-> EmptyMap]
  /\ FIds = [k \in Kernels |-> {}]
  /\ events = [k \in Kernels |-> <<>>]
  /\ infos = [k \in Kernels |-> [l \in LinksOf(k) |-> <<>>]]
  /\ taken = [k \in Kernels |-> <<>>]
  /\ broken = {} /\ aborted = {}

-----------------------------------------------------------------------------
(* CDescriptors, called by the threads that read the links.                *)

MOpen(k, l) ==
  /\ FDescriptors[k][l] = "created"
  /\ FDescriptors' = [FDescriptors EXCEPT ![k][l] = "open"]
  /\ FByUUIDs' = [FByUUIDs EXCEPT ![k][Peer(k, l)] = l]
  /\ events' = [events EXCEPT ![k] = Append(@, Open(l))]
  /\ UNCHANGED <<world, infoVars, FIds, infos, taken, broken, aborted>>

(* The link breaks: what was read of it stays in the pool.                 *)
MClose(k, l) ==
  /\ FDescriptors[k][l] # "closed"
  /\ l \in broken \cup world.breakable
  /\ broken' = broken \cup {l}
  /\ FDescriptors' = [FDescriptors EXCEPT ![k][l] = "closed"]
  /\ \E read \in 0 .. Len(infos[k][l]) :
       infos' = [infos EXCEPT ![k][l] = SubSeq(@, 1, read)]
  /\ IF FDescriptors[k][l] = "open"
       THEN /\ FByUUIDs' = [FByUUIDs EXCEPT ![k][Peer(k, l)] = INVALID]
            /\ events' = [events EXCEPT ![k] = Append(@, Close(l))]
       ELSE UNCHANGED <<FByUUIDs, events>>
  /\ UNCHANGED <<world, infoVars, FIds, taken, aborted>>

-----------------------------------------------------------------------------
(* The pool: IMMEDIATE operations come first.                              *)

MutantTakeEvent(k) ==
  /\ Len(taken[k]) < world.threads /\ events[k] # <<>>
  /\ taken' = [taken EXCEPT ![k] = Append(@, events[k][Len(events[k])])]
  /\ events' = [events EXCEPT ![k] = SubSeq(@, 1, Len(@) - 1)]
  /\ UNCHANGED <<world, descVars, infoVars, FIds, infos, broken, aborted>>
TakeEvent(k) ==
  /\ Len(taken[k]) < world.threads /\ events[k] # <<>>
  /\ taken' = [taken EXCEPT ![k] = Append(@, Head(events[k]))]
  /\ events' = [events EXCEPT ![k] = Tail(@)]
  /\ UNCHANGED <<world, descVars, infoVars, FIds, infos, broken, aborted>>

(* Mutant: the record stays where it was taken from.                       *)
MutantTakeInfo(k, l) ==
  /\ Len(taken[k]) < world.threads /\ events[k] = <<>> /\ infos[k][l] # <<>>
  /\ taken' = [taken EXCEPT ![k] = Append(@, Info(l, Head(infos[k][l])))]
  /\ UNCHANGED <<world, descVars, infoVars, FIds, events, infos, broken, aborted>>
TakeInfo(k, l) ==
  /\ Len(taken[k]) < world.threads /\ events[k] = <<>> /\ infos[k][l] # <<>>
  /\ taken' = [taken EXCEPT ![k] = Append(@, Info(l, Head(infos[k][l])))]
  /\ infos' = [infos EXCEPT ![k][l] = Tail(@)]
  /\ UNCHANGED <<world, descVars, infoVars, FIds, events, broken, aborted>>

Without(s, i) == SubSeq(s, 1, i - 1) \o SubSeq(s, i + 1, Len(s))

-----------------------------------------------------------------------------
(* The graph of routes: the programs and the programs connected to each.   *)

MAddNode(graph, name, edges) ==
  [v \in DOMAIN graph \cup edges \cup {name} |->
     (IF v \in DOMAIN graph THEN graph[v] ELSE {})
     \cup (IF v = name THEN edges ELSE {})]

MRemoveNode(graph, name) ==
  [v \in DOMAIN graph \ {name} |-> graph[v] \ {name}]

MRebuildGraph(net) ==
  LET vertices == DOMAIN net \cup UNION {net[i].FCustomerInfo : i \in DOMAIN net}
  IN [v \in vertices |-> IF v \in DOMAIN net THEN net[v].FCustomerInfo ELSE {}]

(* The programs that can be reached from a program in at most n steps.     *)
WithinSteps(graph, from) ==
  LET within[n \in Nat] ==
        IF n = 0 THEN {from}
        ELSE within[n - 1]
             \cup UNION {graph[v] : v \in within[n - 1] \cap DOMAIN graph}
  IN within[Cardinality(DOMAIN graph)]

(* First steps of the ways MDijkstraComputePathsFor may choose: latencies  *)
(* are left out.                                                           *)
MShortestPath(graph, start, finish) ==
  {hop \in graph[start] \ {start} :
     finish \in WithinSteps(MRemoveNode(graph, start), hop)}

-----------------------------------------------------------------------------
(* The handlers of CInfoService.  Each runs under FUpdateMutex, and ends   *)
(* by sending FNet to some descriptors and the difference to the pool; one *)
(* without customers changes nothing in the routing service.               *)

MSendNet(k, net, to) ==
  [p \in Kernels |-> [l \in LinksOf(p) |->
     IF /\ p # k /\ l \in to \cap LinksOf(k)
        /\ FDescriptors[k][l] = "open" /\ FDescriptors[p][l] # "closed" /\ p \notin world.silent
       THEN Append(infos[p][l], net) ELSE infos[p][l]]]

MSynchronize(k, i, net, to, opened, closed) ==
  /\ infos' = MSendNet(k, net, to)
  /\ events' = [events EXCEPT ![k] =
       IF opened \cup closed = {} THEN @ ELSE Append(@, Diff(opened, closed))]
  /\ taken' = [taken EXCEPT ![k] = Without(@, i)]
  /\ UNCHANGED <<world, descVars, FIds, broken, aborted>>

MutantMResetCache(k) == UNCHANGED FDestinationCache
MResetCache(k) == FDestinationCache' = [FDestinationCache EXCEPT ![k] = EmptyMap]

(* MPutConsumerToMyInfo, MPopConsumerFromMyInfo: the kernel's own record.  *)
PutToMyInfo(k, net, p) ==
  [net EXCEPT ![k] = Record(@.FCustomerInfo \cup {p}, @.FIndexNumber + 1)]
MutantPopFromMyInfo(k, net, p) ==
  [net EXCEPT ![k] = Record(@.FCustomerInfo \ {p}, @.FIndexNumber)]
PopFromMyInfo(k, net, p) ==
  [net EXCEPT ![k] = Record(@.FCustomerInfo \ {p}, @.FIndexNumber + 1)]

CustomersOf(net, kernels) ==
  Customers \cap UNION {net[j].FCustomerInfo : j \in kernels}

(* MAddKernel: a record for a kernel seen for the first time.              *)
MAddKernel(net, p) ==
  [j \in DOMAIN net \cup {p} |-> IF j \in DOMAIN net THEN net[j] ELSE Record({}, 0)]
AddFrom(from, p, l) ==
  [j \in DOMAIN from \cup {p} |->
     (IF j \in DOMAIN from THEN from[j] ELSE {}) \cup (IF j = p THEN {l} ELSE {})]
MutantIsNewFrom(from, p, l) == TRUE
IsNewFrom(from, p, l) == p \notin DOMAIN from \/ l \notin from[p]

MHandleOpen(k, i) ==
  LET l == taken[k][i].id
      p == Peer(k, l)
      mine == PutToMyInfo(k, FNet[k], p)
      net == IF p \in Kernels THEN MAddKernel(mine, p) ELSE mine
      all == FAllDescriptors[k] \cup {l}
  IN /\ taken[k][i].what = "open"
     /\ FNet' = [FNet EXCEPT ![k] = net]
     /\ FAllDescriptors' = [FAllDescriptors EXCEPT ![k] = all]
     /\ FUUIDFrom' = [FUUIDFrom EXCEPT
          ![k] = IF p \in Kernels THEN AddFrom(@, p, l) ELSE @]
     /\ FGraph' = [FGraph EXCEPT ![k] = MAddNode(@, k, {p})]
     /\ MResetCache(k)
     /\ MSynchronize(k, i, net,
          IF p \in Kernels /\ IsNewFrom(FUUIDFrom[k], p, l) THEN {l} ELSE all,
          {p} \cap Customers, {})

(* The kernels known from link l only, MRemoveKernel and MPopKernel.       *)
MutantOnlyFrom(from, l) == {}
OnlyFrom(from, l) == {j \in DOMAIN from : from[j] = {l}}

MHandleClose(k, i) ==
  LET l == taken[k][i].id
      p == Peer(k, l)
      mine == PopFromMyInfo(k, FNet[k], p)
      gone == IF p \in Kernels THEN OnlyFrom(FUUIDFrom[k], l) ELSE {}
      net == [j \in DOMAIN mine \ gone |-> mine[j]]
      all == FAllDescriptors[k] \ {l}
  IN /\ taken[k][i].what = "close"
     /\ FNet' = [FNet EXCEPT ![k] = net]
     /\ FAllDescriptors' = [FAllDescriptors EXCEPT ![k] = all]
     /\ FUUIDFrom' = [FUUIDFrom EXCEPT ![k] =
          IF p \in Kernels THEN [j \in DOMAIN @ \ gone |-> @[j] \ {l}] ELSE @]
     /\ FGraph' = [FGraph EXCEPT ![k] =
          IF p \in Kernels THEN MRebuildGraph(net) ELSE MRemoveNode(@, p)]
     /\ MResetCache(k)
     /\ MSynchronize(k, i, net, all, {}, ({p} \cap Customers) \cup CustomersOf(FNet[k], gone))

(* MSynchronizeNetInfo: what changes when the records new come from l.     *)
Added(old, new) == DOMAIN new \ DOMAIN old
Removed(from, new, l) == OnlyFrom(from, l) \ DOMAIN new
Newer(old, new) ==
  {j \in DOMAIN old \cap DOMAIN new : new[j].FIndexNumber > old[j].FIndexNumber}
Changed(old, new, removed) ==
  Added(old, new) \cup removed
  \cup {j \in Newer(old, new) : new[j].FCustomerInfo # old[j].FCustomerInfo}

MHandle(k, i) ==
  LET l == taken[k][i].id
      old == FNet[k]
      new == taken[k][i].net
      from == FUUIDFrom[k]
      added == Added(old, new)
      removed == Removed(from, new, l)
      newer == Newer(old, new)
      net == [j \in (DOMAIN old \ removed) \cup added |->
                IF j \in added \cup newer THEN new[j] ELSE old[j]]
      opened == CustomersOf(new, added)
                \cup UNION {CustomersOf(new, {j}) \ CustomersOf(old, {j}) : j \in newer}
      closed == CustomersOf(old, removed)
                \cup UNION {CustomersOf(old, {j}) \ CustomersOf(new, {j}) : j \in newer}
  IN /\ taken[k][i].what = "info"
     /\ FUUIDFrom' = [FUUIDFrom EXCEPT ![k] =
          [j \in (DOMAIN from \ removed) \cup added |->
             IF j \in added THEN {l}
             ELSE IF j \in DOMAIN new THEN from[j] ELSE from[j] \ {l}]]
     /\ UNCHANGED FAllDescriptors
     /\ IF Changed(old, new, removed) # {}
          THEN /\ FNet' = [FNet EXCEPT ![k] = net]
               /\ FGraph' = [FGraph EXCEPT ![k] = MRebuildGraph(net)]
               /\ MResetCache(k)
               /\ MSynchronize(k, i, net,
                    IF l \in FAllDescriptors[k] THEN FAllDescriptors[k] \ {l} ELSE {},
                    opened, closed)
          ELSE /\ taken' = [taken EXCEPT ![k] = Without(@, i)]
               /\ UNCHANGED <<world, descVars, FNet, FGraph, FDestinationCache,
                              FIds, events, infos, broken, aborted>>

(* The routing service: the customers opened are added, then those closed  *)
(* removed.  A customer that is there already stops the kernel.            *)
MHandleDiff(k, i) ==
  LET d == taken[k][i]
  IN /\ d.what = "diff"
     /\ taken' = [taken EXCEPT ![k] = Without(@, i)]
     /\ IF d.opened \cap FIds[k] = {}
          THEN /\ FIds' = [FIds EXCEPT ![k] = (@ \cup d.opened) \ d.closed]
               /\ UNCHANGED <<aborted, broken>>
          ELSE /\ aborted' = aborted \cup {k}
               /\ broken' = broken \cup LinksOf(k)
               /\ UNCHANGED FIds
     /\ UNCHANGED <<world, descVars, infoVars, events, infos>>

(* The descriptor on the way to a program, remembered until the next event.*)
NextOnTheWay(k, to) ==
  LET hops == MShortestPath(FGraph[k], k, to)
  IN IF hops = {} THEN {INVALID} ELSE {FByUUIDs[k][hop] : hop \in hops}

MNextDestinations(k, to) ==
  /\ k \in DOMAIN FGraph[k] /\ to # k /\ to \notin DOMAIN FDestinationCache[k]
  /\ \E d \in NextOnTheWay(k, to) :
       FDestinationCache' = [FDestinationCache EXCEPT ![k] =
         [t \in DOMAIN @ \cup {to} |-> IF t = to THEN d ELSE @[t]]]
  /\ UNCHANGED <<world, descVars, FNet, FUUIDFrom, FAllDescriptors, FGraph,
                 FIds, events, infos, taken, broken, aborted>>

Apply(k) ==
  \E i \in 1 .. Len(taken[k]) :
    \/ MHandleOpen(k, i) \/ MHandleClose(k, i) \/ MHandle(k, i) \/ MHandleDiff(k, i)

Pool(k) ==
  /\ k \notin aborted \cup world.silent
  /\ TakeEvent(k) \/ (\E l \in LinksOf(k) : TakeInfo(k, l)) \/ Apply(k)

Next ==
  \E k \in Kernels \ (aborted \cup world.silent) :
    \/ \E l \in LinksOf(k) : MOpen(k, l) \/ MClose(k, l)
    \/ Pool(k)
    \/ \E to \in world.destinations : MNextDestinations(k, to)

Spec == Init /\ [][Next]_vars

(* The threads of a pool work as long as it has operations.                *)
FairSpec == Spec /\ \A k \in Kernels : WF_vars(Pool(k))

-----------------------------------------------------------------------------
(* Properties                                                              *)

(* Every kernel that is known is known from somewhere and every kernel     *)
(* with a source has a record, whatever order opens, closes and records    *)
(* are applied in: the CHECKs of MRemoveKernel and MPopKernel and the      *)
(* DCHECK of MPutKernel.  The own record never goes.                       *)
FromMatchesNet ==
  \A k \in Kernels :
    /\ DOMAIN FNet[k] = DOMAIN FUUIDFrom[k]
    /\ \A j \in DOMAIN FUUIDFrom[k] : FUUIDFrom[k][j] # {}
    /\ FUUIDFrom[k][k] = {INVALID}

NetsAt(k) ==
  {FNet[k]}
  \cup (UNION {{infos[k][l][i] : i \in 1 .. Len(infos[k][l])} : l \in LinksOf(k)})
  \cup {taken[k][i].net : i \in {n \in 1 .. Len(taken[k]) : taken[k][n].what = "info"}}
AllNets == UNION {NetsAt(k) : k \in Kernels}

(* FIndexNumber is a version: all copies of a kernel's record with the     *)
(* same number are the same, in every kernel and in every message, and     *)
(* none is newer than the kernel's own.  So newer records win everywhere   *)
(* (MHandle) and a kernel never takes over its own record from others.     *)
VersionsAgree ==
  \A net \in AllNets : \A j \in DOMAIN net :
    /\ net[j].FIndexNumber <= FNet[j][j].FIndexNumber
    /\ \A other \in AllNets :
         (j \in DOMAIN other /\ other[j].FIndexNumber = net[j].FIndexNumber)
           => other[j] = net[j]

Pending(k, whats) ==
  \/ \E i \in 1 .. Len(events[k]) : events[k][i].what \in whats
  \/ \E i \in 1 .. Len(taken[k]) : taken[k][i].what \in whats

(* A remembered destination is one that would be found now: descriptors    *)
(* are opened and closed under another lock and the memory is emptied only *)
(* when the event is applied, yet once it is no stale descriptor is left.  *)
CacheIsCurrent ==
  \A k \in Kernels :
    ~Pending(k, {"open", "close"})
      => \A to \in DOMAIN FDestinationCache[k] :
           FDestinationCache[k][to] \in NextOnTheWay(k, to)

(* With one thread the routing service has, once the differences are       *)
(* applied, exactly the customers of the records.                          *)
ClientsMatchNet ==
  world.threads = 1 =>
    \A k \in Kernels : ~Pending(k, {"diff"}) => FIds[k] = CustomersOf(FNet[k], DOMAIN FNet[k])

Idle(k) ==
  k \in aborted \cup world.silent \/ (events[k] = <<>> /\ taken[k] = <<>> /\ \A l \in LinksOf(k) : infos[k][l] = <<>>)
Quiet == \A k \in Kernels : Idle(k)

KernelLinks == {l \in world.links : Ends[l] \subseteq Kernels}
ConnectedBy(links, k) ==
  {j \in Kernels : \A S \in SUBSET Kernels :
     (k \in S /\ \A l \in links : Ends[l] \cap S # {} => Ends[l] \subseteq S) => j \in S}
Connected(k) == ConnectedBy(KernelLinks, k)

(* No kernel hears of another by two ways, but for two kernels with several*)
(* links and no third one.                                                 *)
OneWayOnly ==
  \A l \in KernelLinks : \A k \in Ends[l] :
    Peer(k, l) \in ConnectedBy(KernelLinks \ {l}, k) => Connected(k) = Ends[l]

(* With one thread, when every link has been opened and none has broken,   *)
(* and nothing is left to apply, every kernel has the current record of    *)
(* every kernel it can reach: where kernels hear of each other one way     *)
(* only, no send that MHandleOpen and MHandle leave out was needed.  With  *)
(* two ways it may be: a kernel that opens a link to a kernel it has heard *)
(* of sends its changed record to that kernel alone.                       *)
EveryoneIsKnown ==
  (/\ world.threads = 1 /\ broken = {} /\ Quiet /\ OneWayOnly
   /\ \A k \in Kernels : \A l \in LinksOf(k) : FDescriptors[k][l] = "open")
    => \A k \in Kernels :
         /\ DOMAIN FNet[k] = Connected(k)
         /\ \A j \in Connected(k) : FNet[k][j].FCustomerInfo = FNet[j][j].FCustomerInfo

(* The exchange of records comes to an end: the answers to an answer stop. *)
(* It is checked in a chain of links that may break or stay and on two     *)
(* links between two kernels that stay; with a loop of links and a kernel  *)
(* that vanishes behind it the exchange need not end (run net_storm).      *)
ExchangeEnds == <>[]Quiet

=============================================================================
