-------------------------- MODULE KernelNetProofs --------------------------
(***************************************************************************)
(* Proofs about KernelNet, for any network of kernels and customers, any   *)
(* number of threads and any order in which the threads apply what they    *)
(* have taken.                                                             *)
(***************************************************************************)
EXTENDS KernelNet, CountingLemmas, TLAPS

(* The records a kernel can have, and the links they were learnt from.     *)
Records == [FCustomerInfo : SUBSET Programs, FIndexNumber : Nat]
Nets == UNION {[S -> Records] : S \in SUBSET Kernels}
Sources == UNION {[S -> SUBSET (Links \cup {INVALID})] : S \in SUBSET Kernels}

(* The operations of a pool; the IMMEDIATE ones carry no records.          *)
LinkOps == [what : {"open", "close"}, id : Links]
DiffOps == [what : {"diff"}, opened : SUBSET Programs, closed : SUBSET Programs]
InfoOps == [what : {"info"}, id : Links, net : Nets]
Immediate == LinkOps \cup DiffOps
Ops == Immediate \cup InfoOps

(* FromMatchesNet for one kernel, and the own record.                      *)
Matches(k, net, from) ==
  /\ DOMAIN net = DOMAIN from
  /\ \A j \in DOMAIN from : from[j] # {}
  /\ k \in DOMAIN net /\ from[k] = {INVALID}

LettersType == \A k \in Kernels : infos[k] \in [LinksOf(k) -> Seq(Nets)]

Types ==
  /\ world \in Worlds
  /\ FNet \in [Kernels -> Nets]
  /\ FUUIDFrom \in [Kernels -> Sources]
  /\ events \in [Kernels -> Seq(Immediate)]
  /\ taken \in [Kernels -> Seq(Ops)]
  /\ DOMAIN infos = Kernels /\ LettersType
  /\ DOMAIN FGraph = Kernels /\ DOMAIN FDestinationCache = Kernels
  /\ DOMAIN FByUUIDs = Kernels

Known == \A k \in Kernels : Matches(k, FNet[k], FUUIDFrom[k])

LEMMA NetsAre ==
  /\ \A net \in Nets : /\ DOMAIN net \subseteq Kernels
                       /\ \A j \in DOMAIN net : net[j] \in Records
  /\ \A S \in SUBSET Kernels : \A net \in [S -> Records] : net \in Nets
BY DEF Nets

LEMMA SourcesAre ==
  /\ \A from \in Sources : /\ DOMAIN from \subseteq Kernels
                           /\ \A j \in DOMAIN from : from[j] \subseteq Links \cup {INVALID}
  /\ \A S \in SUBSET Kernels : \A from \in [S -> SUBSET (Links \cup {INVALID})] : from \in Sources
BY DEF Sources

LEMMA OpsAre ==
  /\ \A op \in Ops : /\ op.what \in {"open", "close", "info"} => op.id \in Links
                     /\ op.what = "info" => op.net \in Nets
                     /\ op.what \in {"open", "close", "diff", "info"}
  /\ \A op \in Immediate : op.what # "info" /\ op \in Ops
  /\ \A l \in Links : Open(l) \in Immediate /\ Close(l) \in Immediate
  /\ \A l \in Links, net \in Nets : Info(l, net) \in Ops
  /\ \A o, c \in SUBSET Programs : Diff(o, c) \in Immediate
BY DEF Ops, Immediate, LinkOps, DiffOps, InfoOps, Open, Close, Info, Diff

(* Every link has another end, a program other than the kernel.            *)
LEMMA PeerIs ==
  ASSUME NEW k, NEW l \in Links
  PROVE  Peer(k, l) \in Programs /\ Peer(k, l) # k
<1>1. Ends[l] \in SUBSET Programs /\ Cardinality(Ends[l]) = 2
  BY LinkAssumption
<1>2. \E p \in Ends[l] : p # k
  <2> SUFFICES ASSUME \A p \in Ends[l] : p = k PROVE FALSE
    OBVIOUS
  <2>1. Ends[l] = {} \/ Ends[l] = {k}
    OBVIOUS
  <2>2. Cardinality(Ends[l]) = 0 \/ Cardinality(Ends[l]) = 1
    BY <2>1, FS_EmptySet, FS_Singleton
  <2>3. QED
    BY <1>1, <2>2
<1>3. QED
  BY <1>1, <1>2 DEF Peer

LEMMA InitTypes == Init => Types /\ Known
<1> SUFFICES ASSUME Init PROVE Types /\ Known
  OBVIOUS
<1>1. \A k \in Kernels : [i \in {k} |-> Record({}, 0)] \in Nets
  <2> SUFFICES ASSUME NEW k \in Kernels PROVE [i \in {k} |-> Record({}, 0)] \in Nets
    OBVIOUS
  <2>1. Record({}, 0) \in Records /\ {k} \in SUBSET Kernels
    BY DEF Records, Record
  <2>2. QED
    BY <2>1, NetsAre
<1>2. \A k \in Kernels : [i \in {k} |-> {INVALID}] \in Sources
  <2> SUFFICES ASSUME NEW k \in Kernels PROVE [i \in {k} |-> {INVALID}] \in Sources
    OBVIOUS
  <2>1. {INVALID} \in SUBSET (Links \cup {INVALID}) /\ {k} \in SUBSET Kernels
    OBVIOUS
  <2>2. QED
    BY <2>1, SourcesAre
<1>3. FNet \in [Kernels -> Nets] /\ FUUIDFrom \in [Kernels -> Sources]
  BY <1>1, <1>2 DEF Init
<1>4. events \in [Kernels -> Seq(Immediate)] /\ taken \in [Kernels -> Seq(Ops)]
  BY EmptySeq DEF Init
<1>5. LettersType
  BY EmptySeq DEF Init, LettersType
<1>6. Known
  BY DEF Init, Known, Matches
<1>7. QED
  BY <1>3, <1>4, <1>5, <1>6 DEF Types, Init

LEMMA ClearIs ==
  ASSUME NEW T, NEW s \in Seq(T), NEW i \in 1 .. Len(s)
  PROVE  /\ Without(s, i) \in Seq(T) /\ Len(s) \in Nat /\ Len(Without(s, i)) = Len(s) - 1
         /\ \A n \in 1 .. Len(Without(s, i)) : \E m \in 1 .. Len(s) : Without(s, i)[n] = s[m]
<1>1. Without(s, i) = DropAt(s, i)
  BY DEF Without, DropAt
<1>2. /\ DropAt(s, i) \in Seq(T) /\ Len(DropAt(s, i)) = Len(s) - 1
      /\ \A n \in 1 .. Len(s) - 1 : DropAt(s, i)[n] = IF n < i THEN s[n] ELSE s[n + 1]
  BY DropAtProperties
<1>3. Len(s) \in Nat
  BY LenProperties
<1>4. ASSUME NEW n \in 1 .. Len(s) - 1 PROVE \E m \in 1 .. Len(s) : DropAt(s, i)[n] = s[m]
  <2>1. n \in 1 .. Len(s) /\ n + 1 \in 1 .. Len(s)
    BY <1>3
  <2>2. QED
    BY <1>2, <2>1
<1>5. QED
  BY <1>1, <1>2, <1>3, <1>4

-----------------------------------------------------------------------------
(* What the handlers of CInfoService do to the records of their kernel.    *)

(* Some kernel or message has the record r of kernel j.                    *)
IsCopy(j, r) == \E net \in AllNets : j \in DOMAIN net /\ net[j] = r

(* The records net take the place of the present ones: the own record is   *)
(* the same or the next version, the others are copies or still empty.     *)
Continues(k, net) ==
  /\ \/ net[k] = FNet[k][k]
     \/ net[k].FIndexNumber = FNet[k][k].FIndexNumber + 1
  /\ \A j \in DOMAIN net \ {k} : net[j] = Record({}, 0) \/ IsCopy(j, net[j])

Renews(k) ==
  \E net \in Nets, from \in Sources :
    /\ FNet' = [FNet EXCEPT ![k] = net]
    /\ FUUIDFrom' = [FUUIDFrom EXCEPT ![k] = from]
    /\ Matches(k, net, from)
    /\ Continues(k, net)

(* They are sent to some neighbours, the difference goes to the pool.      *)
Synchronizes(k, i) ==
  \E to : \E opened, closed \in SUBSET Programs :
    MSynchronize(k, i, FNet'[k], to, opened, closed)

LEMMA OwnNetIsCopy ==
  ASSUME NEW k \in Kernels
  PROVE  FNet[k] \in AllNets /\ \A j \in DOMAIN FNet[k] : IsCopy(j, FNet[k][j])
BY DEF AllNets, NetsAt, IsCopy

LEMMA TakenNetIsCopy ==
  ASSUME NEW k \in Kernels, NEW i \in 1 .. Len(taken[k]), taken[k][i].what = "info"
  PROVE  /\ taken[k][i].net \in AllNets
         /\ \A j \in DOMAIN taken[k][i].net : IsCopy(j, taken[k][i].net[j])
<1>1. taken[k][i].net \in NetsAt(k)
  BY DEF NetsAt
<1>2. QED
  BY <1>1 DEF AllNets, IsCopy

LEMMA OpenRenews ==
  ASSUME Types, Known, NEW k \in Kernels, NEW i \in 1 .. Len(taken[k]), MHandleOpen(k, i)
  PROVE  Renews(k) /\ Synchronizes(k, i)
<1> DEFINE l == taken[k][i].id
           p == Peer(k, l)
           old == FNet[k]
           from == FUUIDFrom[k]
           mine == PutToMyInfo(k, old, p)
           net == IF p \in Kernels THEN MAddKernel(mine, p) ELSE mine
           src == IF p \in Kernels THEN AddFrom(from, p, l) ELSE from
           to == IF p \in Kernels /\ IsNewFrom(from, p, l) THEN {l} ELSE FAllDescriptors[k] \cup {l}
<1>1. /\ FNet' = [FNet EXCEPT ![k] = net]
      /\ FUUIDFrom' = [FUUIDFrom EXCEPT ![k] = src]
      /\ MSynchronize(k, i, net, to, {p} \cap Customers, {})
      /\ taken[k][i].what = "open"
  BY DEF MHandleOpen
<1>2. /\ old \in Nets /\ from \in Sources /\ Matches(k, old, from) /\ taken[k] \in Seq(Ops)
      /\ FNet \in [Kernels -> Nets]
  BY DEF Types, Known
<1>3. l \in Links
  BY <1>1, <1>2, ElementOfSeq, OpsAre
<1>4. p \in Programs /\ p # k
  BY <1>3, PeerIs
<1>5. /\ DOMAIN old \subseteq Kernels /\ DOMAIN from = DOMAIN old /\ k \in DOMAIN old
      /\ \A j \in DOMAIN old : old[j] \in Records
      /\ \A j \in DOMAIN old : from[j] \subseteq Links \cup {INVALID}
      /\ \A j \in DOMAIN old : from[j] # {}
      /\ from[k] = {INVALID}
  BY <1>2, NetsAre, SourcesAre DEF Matches
<1> HIDE DEF l, p, old, from
<1>6. /\ mine \in Nets /\ DOMAIN mine = DOMAIN old
      /\ mine[k] \in Records /\ mine[k].FIndexNumber = old[k].FIndexNumber + 1
      /\ \A j \in DOMAIN old \ {k} : mine[j] = old[j]
  <2> DEFINE r == Record(old[k].FCustomerInfo \cup {p}, old[k].FIndexNumber + 1)
  <2>1. r \in Records /\ r.FIndexNumber = old[k].FIndexNumber + 1
    BY <1>4, <1>5 DEF Records, Record
  <2>2. /\ DOMAIN mine = DOMAIN old /\ mine[k] = r
        /\ \A j \in DOMAIN old \ {k} : mine[j] = old[j]
    BY <1>5 DEF PutToMyInfo
  <2>3. mine \in [DOMAIN old -> Records]
    BY <1>5, <2>1 DEF PutToMyInfo
  <2>4. mine \in Nets
    BY <1>5, <2>3, NetsAre
  <2>5. QED
    BY <2>1, <2>2, <2>4
<1> HIDE DEF mine
<1>7. ASSUME p \in Kernels
      PROVE  /\ net \in Nets /\ DOMAIN net = DOMAIN old \cup {p}
             /\ \A j \in DOMAIN net : net[j] = IF j \in DOMAIN old THEN mine[j] ELSE Record({}, 0)
             /\ src \in Sources /\ DOMAIN src = DOMAIN old \cup {p}
             /\ \A j \in DOMAIN src :
                  src[j] = (IF j \in DOMAIN old THEN from[j] ELSE {}) \cup (IF j = p THEN {l} ELSE {})
  <2>1. /\ net = [j \in DOMAIN old \cup {p} |-> IF j \in DOMAIN old THEN mine[j] ELSE Record({}, 0)]
        /\ src = [j \in DOMAIN old \cup {p} |->
                    (IF j \in DOMAIN old THEN from[j] ELSE {}) \cup (IF j = p THEN {l} ELSE {})]
    BY <1>5, <1>6, <1>7 DEF MAddKernel, AddFrom
  <2>2. DOMAIN old \cup {p} \in SUBSET Kernels /\ Record({}, 0) \in Records
    BY <1>5, <1>7 DEF Record, Records
  <2>3. \A j \in DOMAIN old : mine[j] \in Records
    BY <1>6, NetsAre
  <2> HIDE DEF net, src
  <2>4. net \in [DOMAIN old \cup {p} -> Records]
    BY <2>1, <2>2, <2>3
  <2>5. src \in [DOMAIN old \cup {p} -> SUBSET (Links \cup {INVALID})]
    BY <1>3, <1>5, <2>1
  <2>6. net \in Nets /\ src \in Sources
    BY <2>2, <2>4, <2>5, NetsAre, SourcesAre
  <2>7. QED
    BY <2>1, <2>6
<1>8. p \notin Kernels => net = mine /\ src = from
  OBVIOUS
<1> HIDE DEF net, src
<1>9. net \in Nets /\ src \in Sources /\ Matches(k, net, src)
  <2>1. CASE p \in Kernels
    BY <1>4, <1>5, <1>7, <2>1 DEF Matches
  <2>2. CASE p \notin Kernels
    BY <1>2, <1>5, <1>6, <1>8, <2>2 DEF Matches
  <2>3. QED
    BY <2>1, <2>2
<1>10. Continues(k, net)
  <2>1. \A j \in DOMAIN old : IsCopy(j, old[j])
    BY OwnNetIsCopy DEF old
  <2>2. net[k] = mine[k] /\ \A j \in DOMAIN net \ {k} : net[j] = Record({}, 0) \/ IsCopy(j, net[j])
    <3>1. CASE p \in Kernels
      BY <1>5, <1>6, <1>7, <2>1, <3>1
    <3>2. CASE p \notin Kernels
      BY <1>6, <1>8, <2>1, <3>2
    <3>3. QED
      BY <3>1, <3>2
  <2>3. QED
    BY <1>6, <2>2 DEF Continues, old
<1>11. Renews(k)
  BY <1>1, <1>9, <1>10 DEF Renews
<1>12. Synchronizes(k, i)
  <2>1. FNet'[k] = net
    BY <1>1, <1>2
  <2>2. {p} \cap Customers \in SUBSET Programs /\ {} \in SUBSET Programs
    BY <1>4
  <2>3. QED
    BY <1>1, <2>1, <2>2 DEF Synchronizes
<1>13. QED
  BY <1>11, <1>12

LEMMA CloseRenews ==
  ASSUME Types, Known, NEW k \in Kernels, NEW i \in 1 .. Len(taken[k]), MHandleClose(k, i)
  PROVE  Renews(k) /\ Synchronizes(k, i)
<1> DEFINE l == taken[k][i].id
           p == Peer(k, l)
           old == FNet[k]
           from == FUUIDFrom[k]
           mine == PopFromMyInfo(k, old, p)
           gone == IF p \in Kernels THEN OnlyFrom(from, l) ELSE {}
           net == [j \in DOMAIN mine \ gone |-> mine[j]]
           src == IF p \in Kernels THEN [j \in DOMAIN from \ gone |-> from[j] \ {l}] ELSE from
           closed == ({p} \cap Customers) \cup CustomersOf(FNet[k], gone)
<1>1. /\ FNet' = [FNet EXCEPT ![k] = net]
      /\ FUUIDFrom' = [FUUIDFrom EXCEPT ![k] = src]
      /\ MSynchronize(k, i, net, FAllDescriptors[k] \ {l}, {}, closed)
      /\ taken[k][i].what = "close"
  BY DEF MHandleClose
<1>2. /\ old \in Nets /\ from \in Sources /\ Matches(k, old, from) /\ taken[k] \in Seq(Ops)
      /\ FNet \in [Kernels -> Nets]
  BY DEF Types, Known
<1>3. l \in Links /\ l # INVALID
  BY <1>1, <1>2, ElementOfSeq, OpsAre, LinkAssumption
<1>4. p \in Programs /\ p # k /\ closed \in SUBSET Programs
  BY <1>3, PeerIs DEF CustomersOf, Programs
<1>5. /\ DOMAIN old \subseteq Kernels /\ DOMAIN from = DOMAIN old /\ k \in DOMAIN old
      /\ \A j \in DOMAIN old : old[j] \in Records
      /\ \A j \in DOMAIN old : from[j] \subseteq Links \cup {INVALID}
      /\ \A j \in DOMAIN old : from[j] # {}
      /\ from[k] = {INVALID}
  BY <1>2, NetsAre, SourcesAre DEF Matches
<1> HIDE DEF l, p, old, from, closed
<1>6. /\ DOMAIN mine = DOMAIN old /\ \A j \in DOMAIN old : mine[j] \in Records
      /\ mine[k].FIndexNumber = old[k].FIndexNumber + 1
      /\ \A j \in DOMAIN old \ {k} : mine[j] = old[j]
  <2> DEFINE r == Record(old[k].FCustomerInfo \ {p}, old[k].FIndexNumber + 1)
  <2>1. r \in Records /\ r.FIndexNumber = old[k].FIndexNumber + 1
    BY <1>5 DEF Records, Record
  <2>2. /\ DOMAIN mine = DOMAIN old /\ mine[k] = r
        /\ \A j \in DOMAIN old \ {k} : mine[j] = old[j]
    BY <1>5 DEF PopFromMyInfo
  <2>3. QED
    BY <1>5, <2>1, <2>2
<1> HIDE DEF mine
<1>7. /\ gone \subseteq DOMAIN old /\ k \notin gone
      /\ \A j \in DOMAIN old \ gone : p \in Kernels => from[j] \ {l} # {}
      /\ p \notin Kernels => gone = {}
  BY <1>3, <1>5 DEF OnlyFrom
<1> HIDE DEF gone
<1>8. net \in [DOMAIN old \ gone -> Records] /\ DOMAIN old \ gone \in SUBSET Kernels
  BY <1>5, <1>6
<1>9. net \in Nets
  BY <1>8, NetsAre
<1>10. src \in Sources /\ Matches(k, net, src)
  <2>1. CASE p \in Kernels
    <3>1. src = [j \in DOMAIN old \ gone |-> from[j] \ {l}]
      BY <1>5, <2>1
    <3>2. src \in [DOMAIN old \ gone -> SUBSET (Links \cup {INVALID})]
      BY <1>5, <3>1
    <3>3. src \in Sources
      BY <1>8, <3>2, SourcesAre
    <3>4. QED
      BY <1>3, <1>5, <1>6, <1>7, <2>1, <3>1, <3>3 DEF Matches
  <2>2. CASE p \notin Kernels
    BY <1>2, <1>5, <1>6, <1>7, <2>2 DEF Matches
  <2>3. QED
    BY <2>1, <2>2
<1>11. Continues(k, net)
  <2>1. \A j \in DOMAIN old : IsCopy(j, old[j])
    BY OwnNetIsCopy DEF old
  <2>2. net[k] = mine[k] /\ \A j \in DOMAIN net \ {k} : IsCopy(j, net[j])
    BY <1>5, <1>6, <1>7, <2>1
  <2> HIDE DEF net
  <2>3. QED
    BY <1>6, <2>2 DEF Continues, old
<1> HIDE DEF net, src
<1>12. Renews(k)
  BY <1>1, <1>9, <1>10, <1>11 DEF Renews
<1>13. Synchronizes(k, i)
  <2>1. FNet'[k] = net /\ {} \in SUBSET Programs
    BY <1>1, <1>2
  <2>2. QED
    BY <1>1, <1>4, <2>1 DEF Synchronizes
<1>14. QED
  BY <1>12, <1>13

(* Records that change nothing are not passed on.                          *)
NothingChanges(k, i) ==
  /\ taken' = [taken EXCEPT ![k] = Without(@, i)]
  /\ UNCHANGED <<world, descVars, FNet, FGraph, FDestinationCache, FIds, events, infos,
                 broken, aborted>>

LEMMA HandleRenews ==
  ASSUME Types, Known, NEW k \in Kernels, NEW i \in 1 .. Len(taken[k]), MHandle(k, i),
         \A net \in AllNets : k \in DOMAIN net =>
           net[k].FIndexNumber <= FNet[k][k].FIndexNumber
  PROVE  Renews(k) /\ (Synchronizes(k, i) \/ NothingChanges(k, i))
<1> DEFINE l == taken[k][i].id
           old == FNet[k]
           new == taken[k][i].net
           from == FUUIDFrom[k]
           added == Added(old, new)
           removed == Removed(from, new, l)
           newer == Newer(old, new)
           net == [j \in (DOMAIN old \ removed) \cup added |->
                     IF j \in added \cup newer THEN new[j] ELSE old[j]]
           src == [j \in (DOMAIN from \ removed) \cup added |->
                     IF j \in added THEN {l}
                     ELSE IF j \in DOMAIN new THEN from[j] ELSE from[j] \ {l}]
           opened == CustomersOf(new, added)
                     \cup UNION {CustomersOf(new, {j}) \ CustomersOf(old, {j}) : j \in newer}
           closed == CustomersOf(old, removed)
                     \cup UNION {CustomersOf(old, {j}) \ CustomersOf(new, {j}) : j \in newer}
           to == IF l \in FAllDescriptors[k] THEN FAllDescriptors[k] \ {l} ELSE {}
<1>1. /\ FUUIDFrom' = [FUUIDFrom EXCEPT ![k] = src]
      /\ \/ /\ FNet' = [FNet EXCEPT ![k] = net]
            /\ MSynchronize(k, i, net, to, opened, closed)
         \/ Changed(old, new, removed) = {} /\ NothingChanges(k, i)
      /\ taken[k][i].what = "info"
  BY DEF MHandle, NothingChanges
<1>2. /\ old \in Nets /\ from \in Sources /\ Matches(k, old, from) /\ taken[k] \in Seq(Ops)
      /\ FNet \in [Kernels -> Nets]
  BY DEF Types, Known
<1>3. l \in Links /\ l # INVALID /\ new \in Nets
  BY <1>1, <1>2, ElementOfSeq, OpsAre, LinkAssumption, SMTT(30)
<1>4. opened \in SUBSET Programs /\ closed \in SUBSET Programs
  BY DEF CustomersOf, Programs
<1>5. /\ DOMAIN old \subseteq Kernels /\ DOMAIN from = DOMAIN old /\ k \in DOMAIN old
      /\ \A j \in DOMAIN old : old[j] \in Records
      /\ DOMAIN new \subseteq Kernels /\ \A j \in DOMAIN new : new[j] \in Records
      /\ \A j \in DOMAIN old : from[j] \subseteq Links \cup {INVALID}
      /\ \A j \in DOMAIN old : from[j] # {}
      /\ from[k] = {INVALID}
  BY <1>2, <1>3, NetsAre, SourcesAre DEF Matches
<1>6. /\ \A j \in DOMAIN old : IsCopy(j, old[j])
      /\ \A j \in DOMAIN new : IsCopy(j, new[j])
  BY <1>1, OwnNetIsCopy, TakenNetIsCopy
<1>7. k \in DOMAIN new => new[k].FIndexNumber <= old[k].FIndexNumber
  BY <1>1, TakenNetIsCopy
<1> HIDE DEF l, old, new, from, opened, closed
<1>8. /\ added = DOMAIN new \ DOMAIN old
      /\ removed = {j \in DOMAIN old : from[j] = {l}} \ DOMAIN new
      /\ newer \subseteq DOMAIN old \cap DOMAIN new
  BY <1>5 DEF Added, Removed, Newer, OnlyFrom
<1>9. k \notin added /\ k \notin removed /\ k \notin newer
  <2>1. k \notin newer
    <3>1. k \in newer => k \in DOMAIN new /\ new[k].FIndexNumber > old[k].FIndexNumber
      BY DEF Newer
    <3>2. k \in DOMAIN new => new[k].FIndexNumber \in Nat /\ old[k].FIndexNumber \in Nat
      BY <1>5 DEF Records
    <3>3. QED
      BY <1>7, <3>1, <3>2
  <2>2. QED
    BY <1>3, <1>5, <1>8, <2>1
<1>10. Changed(old, new, removed) = {} => added = {} /\ removed = {}
  BY DEF Changed
<1> HIDE DEF added, removed, newer
<1> DEFINE D == (DOMAIN old \ removed) \cup added
<1>11. D \in SUBSET Kernels /\ net \in [D -> Records]
  BY <1>5, <1>8
<1>12. net \in Nets
  BY <1>11, NetsAre
<1>13. src \in [D -> SUBSET (Links \cup {INVALID})]
  BY <1>3, <1>5, <1>8
<1>14. src \in Sources
  BY <1>11, <1>13, SourcesAre
<1>15. Matches(k, net, src)
  <2>1. \A j \in D : src[j] # {}
    BY <1>5, <1>8
  <2>2. src[k] = {INVALID}
    BY <1>3, <1>5, <1>9
  <2>3. QED
    BY <1>5, <1>9, <2>1, <2>2 DEF Matches
<1>16. Continues(k, net)
  <2>1. net[k] = old[k]
    BY <1>5, <1>9
  <2>2. \A j \in D : IsCopy(j, net[j])
    BY <1>6, <1>8
  <2>3. DOMAIN net = D
    OBVIOUS
  <2> HIDE DEF net, D
  <2>4. QED
    BY <2>1, <2>2, <2>3 DEF Continues, old
<1>17. CASE FNet' = [FNet EXCEPT ![k] = net] /\ MSynchronize(k, i, net, to, opened, closed)
  <2> HIDE DEF net, src, to
  <2>1. Renews(k)
    BY <1>1, <1>12, <1>14, <1>15, <1>16, <1>17 DEF Renews
  <2>2. FNet'[k] = net
    BY <1>2, <1>17
  <2>3. Synchronizes(k, i)
    BY <1>4, <1>17, <2>2 DEF Synchronizes
  <2>4. QED
    BY <2>1, <2>3
<1>18. CASE Changed(old, new, removed) = {} /\ NothingChanges(k, i)
  <2>1. FNet' = [FNet EXCEPT ![k] = old]
    BY <1>2, <1>18 DEF NothingChanges, old
  <2>2. D = DOMAIN old
    BY <1>10, <1>18
  <2>3. Matches(k, old, src)
    BY <1>15, <2>2 DEF Matches
  <2>4. Continues(k, old)
    BY <1>6 DEF Continues, old
  <2> HIDE DEF net, src
  <2>5. QED
    BY <1>1, <1>2, <1>14, <1>18, <2>1, <2>3, <2>4 DEF Renews
<1>19. QED
  BY <1>1, <1>17, <1>18

-----------------------------------------------------------------------------
(* The records on their way.                                               *)
InLetters(k, net) ==
  \E l \in LinksOf(k) : \E n \in 1 .. Len(infos[k][l]) : net = infos[k][l][n]
InTaken(k, net) ==
  \E n \in 1 .. Len(taken[k]) : taken[k][n].what = "info" /\ net = taken[k][n].net

LEMMA NetsAtAre ==
  \A k, net : net \in NetsAt(k) <=> net = FNet[k] \/ InLetters(k, net) \/ InTaken(k, net)
<1> SUFFICES ASSUME NEW k, NEW net
             PROVE  net \in NetsAt(k) <=> net = FNet[k] \/ InLetters(k, net) \/ InTaken(k, net)
  OBVIOUS
<1> DEFINE A == UNION {{infos[k][l][i] : i \in 1 .. Len(infos[k][l])} : l \in LinksOf(k)}
           B == {taken[k][i].net : i \in {n \in 1 .. Len(taken[k]) : taken[k][n].what = "info"}}
<1>1. net \in A <=> InLetters(k, net)
  BY DEF InLetters
<1>2. net \in B <=> InTaken(k, net)
  BY DEF InTaken
<1>3. NetsAt(k) = {FNet[k]} \cup A \cup B
  BY DEF NetsAt
<1> HIDE DEF A, B
<1>4. QED
  BY <1>1, <1>2, <1>3

(* What a step of kernel k can add to them is what k has afterwards.       *)
NetsMove(k) == \A net \in AllNets' : net \in AllNets \/ net = FNet'[k]

LEMMA MoveNets ==
  ASSUME NEW k \in Kernels,
         \A p \in Kernels \ {k} : FNet'[p] = FNet[p],
         \A p \in Kernels : \A net :
           InLetters(p, net)' => InLetters(p, net) \/ InTaken(p, net) \/ net = FNet'[k],
         \A p \in Kernels : \A net :
           InTaken(p, net)' => InLetters(p, net) \/ InTaken(p, net) \/ net = FNet'[k]
  PROVE  NetsMove(k)
<1> SUFFICES ASSUME NEW net \in AllNets', net # FNet'[k] PROVE net \in AllNets
  BY DEF NetsMove
<1>1. PICK p \in Kernels : net \in NetsAt(p)'
  BY DEF AllNets
<1>2. net = FNet'[p] \/ InLetters(p, net)' \/ InTaken(p, net)'
  BY <1>1, NetsAtAre DEF NetsAt, InLetters, InTaken
<1>3. net \in NetsAt(p)
  BY <1>2, NetsAtAre
<1>4. QED
  BY <1>3 DEF AllNets

(* Where the elements of a queue come from.                                *)
LEMMA GrownQueue ==
  ASSUME NEW T, NEW s \in Seq(T), NEW e \in T
  PROVE  /\ Append(s, e) \in Seq(T)
         /\ \A n \in 1 .. Len(Append(s, e)) :
              Append(s, e)[n] = e \/ \E m \in 1 .. Len(s) : Append(s, e)[n] = s[m]
BY AppendProperties, LenProperties

LEMMA ShrunkQueue ==
  ASSUME NEW T, NEW s \in Seq(T), s # <<>>
  PROVE  /\ Tail(s) \in Seq(T) /\ Head(s) \in T
         /\ 1 \in 1 .. Len(s) /\ Head(s) = s[1]
         /\ \A n \in 1 .. Len(Tail(s)) : \E m \in 1 .. Len(s) : Tail(s)[n] = s[m]
         /\ \A n \in 1 .. Len(s) : n # 1 => \E m \in 1 .. Len(Tail(s)) : Tail(s)[m] = s[n]
<1>1. /\ Tail(s) \in Seq(T) /\ Head(s) \in T
      /\ Len(s) \in Nat \ {0} /\ Len(Tail(s)) = Len(s) - 1 /\ Head(s) = s[1]
      /\ \A n \in 1 .. Len(Tail(s)) : Tail(s)[n] = s[n + 1]
  BY HeadTailProperties, EmptySeq
<1>2. ASSUME NEW n \in 1 .. Len(Tail(s)) PROVE \E m \in 1 .. Len(s) : Tail(s)[n] = s[m]
  <2>1. n + 1 \in 1 .. Len(s) /\ Tail(s)[n] = s[n + 1]
    BY <1>1
  <2>2. QED
    BY <2>1
<1>3. ASSUME NEW n \in 1 .. Len(s), n # 1 PROVE \E m \in 1 .. Len(Tail(s)) : Tail(s)[m] = s[n]
  <2>1. n - 1 \in 1 .. Len(Tail(s)) /\ (n - 1) + 1 = n
    BY <1>1, <1>3
  <2>2. QED
    BY <1>1, <2>1
<1>4. QED
  BY <1>1, <1>2, <1>3

LEMMA FrontOfQueue ==
  ASSUME NEW T, NEW s \in Seq(T), NEW r \in 0 .. Len(s)
  PROVE  /\ SubSeq(s, 1, r) \in Seq(T)
         /\ \A n \in 1 .. Len(SubSeq(s, 1, r)) : \E m \in 1 .. Len(s) : SubSeq(s, 1, r)[n] = s[m]
<1>1. Len(s) \in Nat /\ \A n \in 1 .. Len(s) : s[n] \in T
  BY LenProperties, ElementOfSeq
<1>2. r \in Int /\ 1 \in Int /\ \A n \in 1 .. r : n \in 1 .. Len(s) /\ s[n] \in T
  BY <1>1
<1>3. /\ SubSeq(s, 1, r) \in Seq(T)
      /\ Len(SubSeq(s, 1, r)) = IF 1 <= r THEN r - 1 + 1 ELSE 0
      /\ \A n \in 1 .. r - 1 + 1 : SubSeq(s, 1, r)[n] = s[1 + n - 1]
  BY <1>2, SubSeqProperties
<1>4. ASSUME NEW n \in 1 .. Len(SubSeq(s, 1, r))
      PROVE  \E m \in 1 .. Len(s) : SubSeq(s, 1, r)[n] = s[m]
  <2>1. n \in 1 .. r - 1 + 1 /\ 1 + n - 1 \in 1 .. Len(s)
    BY <1>1, <1>2, <1>3
  <2>2. QED
    BY <1>3, <2>1
<1>5. QED
  BY <1>3, <1>4

(* Some of what came over a link is taken or lost with it.                 *)
LEMMA LettersTaken ==
  ASSUME Types, world' = world, NEW k \in Kernels, NEW l \in LinksOf(k), NEW v \in Seq(Nets),
         infos' = [infos EXCEPT ![k][l] = v],
         \A n \in 1 .. Len(v) : \E m \in 1 .. Len(infos[k][l]) : v[n] = infos[k][l][m]
  PROVE  /\ DOMAIN infos' = Kernels /\ LettersType'
         /\ \A p \in Kernels : \A net : InLetters(p, net)' => InLetters(p, net)
<1>1. DOMAIN infos = Kernels /\ \A p \in Kernels : infos[p] \in [LinksOf(p) -> Seq(Nets)]
  BY DEF Types, LettersType
<1>2. /\ DOMAIN infos' = Kernels
      /\ \A p \in Kernels : infos'[p] = IF p = k THEN [infos[k] EXCEPT ![l] = v] ELSE infos[p]
  BY <1>1
<1>3. \A p \in Kernels : LinksOf(p)' = LinksOf(p)
  BY DEF LinksOf
<1>4. \A p \in Kernels : infos'[p] \in [LinksOf(p) -> Seq(Nets)]
  BY <1>1, <1>2
<1>5. ASSUME NEW p \in Kernels, NEW net, InLetters(p, net)' PROVE InLetters(p, net)
  <2>1. PICK m \in LinksOf(p) : \E n \in 1 .. Len(infos'[p][m]) : net = infos'[p][m][n]
    BY <1>3, <1>5 DEF InLetters
  <2>2. CASE p = k /\ m = l
    <3>1. infos'[p][m] = v
      BY <1>1, <1>2, <2>2
    <3>2. QED
      BY <2>1, <2>2, <3>1 DEF InLetters
  <2>3. CASE ~(p = k /\ m = l)
    <3>1. infos'[p][m] = infos[p][m]
      BY <1>1, <1>2, <2>3
    <3>2. QED
      BY <2>1, <3>1 DEF InLetters
  <2>4. QED
    BY <2>2, <2>3
<1>6. LettersType'
  BY <1>3, <1>4 DEF LettersType
<1>7. QED
  BY <1>2, <1>5, <1>6

(* MSendNet adds the records of the sender to some of the links.           *)
LEMMA LettersSent ==
  ASSUME Types, world' = world, NEW k \in Kernels, NEW net \in Nets, NEW to,
         infos' = MSendNet(k, net, to)
  PROVE  /\ DOMAIN infos' = Kernels /\ LettersType'
         /\ \A p \in Kernels : \A x : InLetters(p, x)' => InLetters(p, x) \/ x = net
<1>1. DOMAIN infos = Kernels /\ \A p \in Kernels : infos[p] \in [LinksOf(p) -> Seq(Nets)]
  BY DEF Types, LettersType
<1>2. /\ DOMAIN infos' = Kernels
      /\ \A p \in Kernels : /\ infos'[p] = [l \in LinksOf(p) |-> infos'[p][l]]
                            /\ \A l \in LinksOf(p) : \/ infos'[p][l] = infos[p][l]
                                                     \/ infos'[p][l] = Append(infos[p][l], net)
  BY DEF MSendNet
<1>3. \A p \in Kernels : LinksOf(p)' = LinksOf(p)
  BY DEF LinksOf
<1>4. ASSUME NEW p \in Kernels, NEW l \in LinksOf(p)
      PROVE  /\ infos'[p][l] \in Seq(Nets)
             /\ \A n \in 1 .. Len(infos'[p][l]) :
                  \/ infos'[p][l][n] = net
                  \/ \E m \in 1 .. Len(infos[p][l]) : infos'[p][l][n] = infos[p][l][m]
  <2>1. infos[p][l] \in Seq(Nets)
    BY <1>1
  <2>2. CASE infos'[p][l] = infos[p][l]
    BY <2>1, <2>2
  <2>3. CASE infos'[p][l] = Append(infos[p][l], net)
    BY <2>1, <2>3, GrownQueue
  <2>4. QED
    BY <1>2, <2>2, <2>3
<1>5. LettersType'
  <2>1. \A p \in Kernels : infos'[p] \in [LinksOf(p) -> Seq(Nets)]
    BY <1>2, <1>4
  <2>2. QED
    BY <1>3, <2>1 DEF LettersType
<1>6. ASSUME NEW p \in Kernels, NEW x, InLetters(p, x)' PROVE InLetters(p, x) \/ x = net
  <2>1. PICK m \in LinksOf(p) : \E n \in 1 .. Len(infos'[p][m]) : x = infos'[p][m][n]
    BY <1>3, <1>6 DEF InLetters
  <2>2. QED
    BY <1>4, <2>1 DEF InLetters
<1>7. QED
  BY <1>2, <1>5, <1>6

LEMMA TakenChanged ==
  ASSUME Types, NEW k \in Kernels, NEW v \in Seq(Ops), taken' = [taken EXCEPT ![k] = v],
         \A n \in 1 .. Len(v) : v[n].what = "info" =>
           InLetters(k, v[n].net) \/ InTaken(k, v[n].net)
  PROVE  /\ taken' \in [Kernels -> Seq(Ops)]
         /\ \A p \in Kernels : \A net :
              InTaken(p, net)' => InLetters(p, net) \/ InTaken(p, net)
<1>1. taken \in [Kernels -> Seq(Ops)]
  BY DEF Types
<1>2. taken' \in [Kernels -> Seq(Ops)] /\ taken'[k] = v
      /\ \A p \in Kernels \ {k} : taken'[p] = taken[p]
  BY <1>1
<1>3. ASSUME NEW p \in Kernels, NEW net, InTaken(p, net)'
      PROVE  InLetters(p, net) \/ InTaken(p, net)
  <2>1. PICK n \in 1 .. Len(taken'[p]) : taken'[p][n].what = "info" /\ net = taken'[p][n].net
    BY <1>3 DEF InTaken
  <2>2. CASE p = k
    BY <1>2, <2>1, <2>2
  <2>3. CASE p # k
    BY <1>2, <2>1, <2>3 DEF InTaken
  <2>4. QED
    BY <2>2, <2>3
<1>4. QED
  BY <1>2, <1>3

LEMMA TakenCleared ==
  ASSUME Types, NEW k \in Kernels, NEW i \in 1 .. Len(taken[k]),
         taken' = [taken EXCEPT ![k] = Without(@, i)]
  PROVE  /\ taken' \in [Kernels -> Seq(Ops)]
         /\ \A p \in Kernels : \A net :
              InTaken(p, net)' => InLetters(p, net) \/ InTaken(p, net)
<1> DEFINE v == Without(taken[k], i)
<1>1. taken[k] \in Seq(Ops)
  BY DEF Types
<1>2. /\ v \in Seq(Ops)
      /\ \A n \in 1 .. Len(v) : \E m \in 1 .. Len(taken[k]) : v[n] = taken[k][m]
  BY <1>1, ClearIs
<1>3. taken' = [taken EXCEPT ![k] = v]
  OBVIOUS
<1> HIDE DEF v
<1>4. \A n \in 1 .. Len(v) : v[n].what = "info" => InTaken(k, v[n].net)
  BY <1>2 DEF InTaken
<1>5. QED
  BY <1>2, <1>3, <1>4, TakenChanged

-----------------------------------------------------------------------------
(* The steps of a kernel.                                                  *)
StepOf(k) ==
  \/ \E l \in LinksOf(k) : MOpen(k, l) \/ MClose(k, l)
  \/ TakeEvent(k) \/ (\E l \in LinksOf(k) : TakeInfo(k, l)) \/ Apply(k)
  \/ \E to \in world.destinations : MNextDestinations(k, to)

(* No copy of the kernel's own record is newer than it.                    *)
OwnIsNewest(k) ==
  \A net \in AllNets : k \in DOMAIN net => net[k].FIndexNumber <= FNet[k][k].FIndexNumber

Moves(k) ==
  Types' /\ NetsMove(k) /\ (Renews(k) \/ UNCHANGED <<FNet, FUUIDFrom>>)

LEMMA LinksAre == Types => \A k : LinksOf(k) \subseteq Links
BY WorldAssumption DEF Types, LinksOf

LEMMA DescriptorMoves ==
  ASSUME Types, NEW k \in Kernels, NEW l \in LinksOf(k), MOpen(k, l) \/ MClose(k, l)
  PROVE  Moves(k)
<1>1. UNCHANGED <<world, FNet, FUUIDFrom, FGraph, FDestinationCache, taken>>
  BY DEF MOpen, MClose, infoVars
<1>2. l \in Links /\ events \in [Kernels -> Seq(Immediate)]
  BY LinksAre DEF Types
<1>3. Open(l) \in Immediate /\ Close(l) \in Immediate
  BY <1>2, OpsAre
<1>4. events' \in [Kernels -> Seq(Immediate)]
  <2>1. \/ events' = events
        \/ \E e \in Immediate : events' = [events EXCEPT ![k] = Append(@, e)]
    BY <1>3 DEF MOpen, MClose
  <2>2. \A e \in Immediate : Append(events[k], e) \in Seq(Immediate)
    BY <1>2, AppendProperties
  <2>3. QED
    BY <1>2, <2>1, <2>2
<1>5. DOMAIN FByUUIDs' = Kernels
  BY DEF MOpen, MClose, Types
<1>6. /\ DOMAIN infos' = Kernels /\ LettersType'
      /\ \A p \in Kernels : \A net : InLetters(p, net)' => InLetters(p, net)
  <2>1. CASE MOpen(k, l)
    BY <1>1, <2>1 DEF MOpen, Types, LettersType, InLetters, LinksOf
  <2>2. CASE MClose(k, l)
    <3>1. PICK read \in 0 .. Len(infos[k][l]) :
            infos' = [infos EXCEPT ![k][l] = SubSeq(@, 1, read)]
      BY <2>2 DEF MClose
    <3>2. infos[k][l] \in Seq(Nets)
      BY DEF Types, LettersType
    <3> DEFINE v == SubSeq(infos[k][l], 1, read)
    <3>3. /\ v \in Seq(Nets)
          /\ \A n \in 1 .. Len(v) : \E m \in 1 .. Len(infos[k][l]) : v[n] = infos[k][l][m]
      BY <3>2, FrontOfQueue
    <3>4. infos' = [infos EXCEPT ![k][l] = v]
      BY <3>1
    <3> HIDE DEF v
    <3>5. QED
      BY <1>1, <3>3, <3>4, LettersTaken
  <2>3. QED
    BY <2>1, <2>2
<1>7. Types'
  BY <1>1, <1>4, <1>5, <1>6 DEF Types
<1>8. NetsMove(k)
  <2>1. \A p \in Kernels : \A net : InTaken(p, net)' => InTaken(p, net)
    BY <1>1 DEF InTaken
  <2>2. QED
    BY <1>1, <1>6, <2>1, MoveNets
<1>9. QED
  BY <1>1, <1>7, <1>8 DEF Moves

LEMMA TakeMoves ==
  ASSUME Types, NEW k \in Kernels,
         TakeEvent(k) \/ \E l \in LinksOf(k) : TakeInfo(k, l)
  PROVE  Moves(k)
<1>1. UNCHANGED <<world, FNet, FUUIDFrom, FGraph, FDestinationCache, FByUUIDs>>
  BY DEF TakeEvent, TakeInfo, infoVars, descVars
<1>2. taken[k] \in Seq(Ops) /\ events \in [Kernels -> Seq(Immediate)] /\ events[k] \in Seq(Immediate)
  BY DEF Types
<1>3. ASSUME NEW e \in Ops, taken' = [taken EXCEPT ![k] = Append(@, e)],
             e.what = "info" => InLetters(k, e.net)
      PROVE  /\ taken' \in [Kernels -> Seq(Ops)]
             /\ \A p \in Kernels : \A net :
                  InTaken(p, net)' => InLetters(p, net) \/ InTaken(p, net)
  <2> DEFINE v == Append(taken[k], e)
  <2>1. /\ v \in Seq(Ops)
        /\ \A n \in 1 .. Len(v) : v[n] = e \/ \E m \in 1 .. Len(taken[k]) : v[n] = taken[k][m]
    BY <1>2, GrownQueue
  <2>2. taken' = [taken EXCEPT ![k] = v]
    BY <1>3
  <2> HIDE DEF v
  <2>3. \A n \in 1 .. Len(v) : v[n].what = "info" =>
          InLetters(k, v[n].net) \/ InTaken(k, v[n].net)
    BY <1>3, <2>1 DEF InTaken
  <2>4. QED
    BY <2>1, <2>2, <2>3, TakenChanged
<1>4. CASE TakeEvent(k)
  <2>1. /\ events[k] # <<>> /\ events' = [events EXCEPT ![k] = Tail(@)] /\ infos' = infos
        /\ taken' = [taken EXCEPT ![k] = Append(@, Head(events[k]))]
    BY <1>4 DEF TakeEvent
  <2>2. Head(events[k]) \in Immediate /\ Tail(events[k]) \in Seq(Immediate)
    BY <1>2, <2>1, HeadTailProperties
  <2>3. Head(events[k]) \in Ops /\ Head(events[k]).what # "info"
    BY <2>2, OpsAre
  <2>4. /\ taken' \in [Kernels -> Seq(Ops)]
        /\ \A p \in Kernels : \A net :
             InTaken(p, net)' => InLetters(p, net) \/ InTaken(p, net)
    BY <1>3, <2>1, <2>3
  <2>5. events' \in [Kernels -> Seq(Immediate)]
    BY <1>2, <2>1, <2>2
  <2>6. \A p \in Kernels : \A net : InLetters(p, net)' => InLetters(p, net)
    BY <1>1, <2>1 DEF InLetters, LinksOf
  <2>7. LettersType' /\ DOMAIN infos' = Kernels
    BY <1>1, <2>1 DEF Types, LettersType, LinksOf
  <2>8. Types'
    BY <1>1, <2>4, <2>5, <2>7 DEF Types
  <2>9. NetsMove(k)
    BY <1>1, <2>4, <2>6, MoveNets
  <2>10. QED
    BY <1>1, <2>8, <2>9 DEF Moves
<1>5. ASSUME NEW l \in LinksOf(k), TakeInfo(k, l) PROVE Moves(k)
  <2> DEFINE q == infos[k][l]
  <2>1. /\ q # <<>> /\ infos' = [infos EXCEPT ![k][l] = Tail(q)] /\ events' = events
        /\ taken' = [taken EXCEPT ![k] = Append(@, Info(l, Head(q)))]
    BY <1>5 DEF TakeInfo
  <2>2. q \in Seq(Nets) /\ l \in Links
    BY LinksAre DEF Types, LettersType
  <2>3. /\ Tail(q) \in Seq(Nets) /\ Head(q) \in Nets
        /\ 1 \in 1 .. Len(q) /\ Head(q) = q[1]
        /\ \A n \in 1 .. Len(Tail(q)) : \E m \in 1 .. Len(q) : Tail(q)[n] = q[m]
    BY <2>1, <2>2, ShrunkQueue
  <2>4. InLetters(k, Head(q))
    BY <2>3 DEF InLetters
  <2>5. Info(l, Head(q)) \in Ops /\ Info(l, Head(q)).net = Head(q)
    BY <2>2, <2>3, OpsAre DEF Info
  <2>6. /\ taken' \in [Kernels -> Seq(Ops)]
        /\ \A p \in Kernels : \A net :
             InTaken(p, net)' => InLetters(p, net) \/ InTaken(p, net)
    BY <1>3, <2>1, <2>4, <2>5
  <2>7. /\ DOMAIN infos' = Kernels /\ LettersType'
        /\ \A p \in Kernels : \A net : InLetters(p, net)' => InLetters(p, net)
    BY <1>1, <2>1, <2>3, LettersTaken
  <2>8. Types'
    BY <1>1, <1>2, <2>1, <2>6, <2>7 DEF Types
  <2>9. NetsMove(k)
    BY <1>1, <2>6, <2>7, MoveNets
  <2>10. QED
    BY <1>1, <2>8, <2>9 DEF Moves
<1>6. QED
  BY <1>4, <1>5

LEMMA ApplyMoves ==
  ASSUME Types, Known, NEW k \in Kernels, OwnIsNewest(k), NEW i \in 1 .. Len(taken[k]),
         MHandleOpen(k, i) \/ MHandleClose(k, i) \/ MHandle(k, i) \/ MHandleDiff(k, i)
  PROVE  Moves(k)
<1>1. CASE MHandleDiff(k, i)
  <2>1. /\ taken' = [taken EXCEPT ![k] = Without(@, i)]
        /\ UNCHANGED <<world, FNet, FUUIDFrom, FGraph, FDestinationCache, FByUUIDs, events, infos>>
    BY <1>1 DEF MHandleDiff, descVars, infoVars
  <2>2. /\ taken' \in [Kernels -> Seq(Ops)]
        /\ \A p \in Kernels : \A net :
             InTaken(p, net)' => InLetters(p, net) \/ InTaken(p, net)
    BY <2>1, TakenCleared
  <2>3. \A p \in Kernels : \A net : InLetters(p, net)' => InLetters(p, net)
    BY <2>1 DEF InLetters, LinksOf
  <2>4. Types'
    BY <2>1, <2>2 DEF Types, LettersType, LinksOf
  <2>5. NetsMove(k)
    BY <2>1, <2>2, <2>3, MoveNets
  <2>6. QED
    BY <2>1, <2>4, <2>5 DEF Moves
<1>2. CASE MHandleOpen(k, i) \/ MHandleClose(k, i) \/ MHandle(k, i)
  <2>1. Renews(k) /\ (Synchronizes(k, i) \/ NothingChanges(k, i))
    BY <1>2, OpenRenews, CloseRenews, HandleRenews DEF OwnIsNewest
  <2>2. PICK net \in Nets, from \in Sources :
          FNet' = [FNet EXCEPT ![k] = net] /\ FUUIDFrom' = [FUUIDFrom EXCEPT ![k] = from]
    BY <2>1 DEF Renews
  <2>3. /\ FNet' \in [Kernels -> Nets] /\ FUUIDFrom' \in [Kernels -> Sources]
        /\ FNet'[k] = net /\ \A p \in Kernels \ {k} : FNet'[p] = FNet[p]
    BY <2>2 DEF Types
  <2>4. taken' = [taken EXCEPT ![k] = Without(@, i)] /\ UNCHANGED <<world, FByUUIDs>>
    BY <2>1 DEF Synchronizes, MSynchronize, NothingChanges, descVars
  <2>5. /\ taken' \in [Kernels -> Seq(Ops)]
        /\ \A p \in Kernels : \A x :
             InTaken(p, x)' => InLetters(p, x) \/ InTaken(p, x)
    BY <2>4, TakenCleared
  <2>6. DOMAIN FGraph' = Kernels /\ DOMAIN FDestinationCache' = Kernels
    BY <1>2 DEF MHandleOpen, MHandleClose, MHandle, MResetCache, Types
  <2>7. /\ events' \in [Kernels -> Seq(Immediate)]
        /\ DOMAIN infos' = Kernels /\ LettersType'
        /\ \A p \in Kernels : \A x : InLetters(p, x)' => InLetters(p, x) \/ x = net
    <3>1. CASE NothingChanges(k, i)
      <4>1. UNCHANGED <<world, events, infos>>
        BY <3>1 DEF NothingChanges
      <4>2. QED
        BY <4>1 DEF Types, LettersType, InLetters, LinksOf
    <3>2. CASE Synchronizes(k, i)
      <4>1. PICK to : \E opened, closed \in SUBSET Programs :
              MSynchronize(k, i, FNet'[k], to, opened, closed)
        BY <3>2 DEF Synchronizes
      <4>2. PICK opened \in SUBSET Programs, closed \in SUBSET Programs :
              MSynchronize(k, i, net, to, opened, closed)
        BY <2>3, <4>1
      <4>3. infos' = MSendNet(k, net, to)
        BY <4>2 DEF MSynchronize
      <4>4. events' = events \/ events' = [events EXCEPT ![k] = Append(@, Diff(opened, closed))]
        BY <4>2 DEF MSynchronize, Types
      <4>5. Append(events[k], Diff(opened, closed)) \in Seq(Immediate)
        BY OpsAre, AppendProperties DEF Types
      <4>6. events' \in [Kernels -> Seq(Immediate)]
        BY <4>4, <4>5 DEF Types
      <4>7. QED
        BY <2>4, <4>3, <4>6, LettersSent
    <3>3. QED
      BY <2>1, <3>1, <3>2
  <2>8. Types'
    BY <2>3, <2>4, <2>5, <2>6, <2>7 DEF Types
  <2>9. NetsMove(k)
    BY <2>3, <2>5, <2>7, MoveNets
  <2>10. QED
    BY <2>1, <2>8, <2>9 DEF Moves
<1>3. QED
  BY <1>1, <1>2

LEMMA StepMoves ==
  ASSUME Types, Known, NEW k \in Kernels, OwnIsNewest(k), StepOf(k)
  PROVE  Moves(k)
<1>1. ASSUME NEW to \in world.destinations, MNextDestinations(k, to) PROVE Moves(k)
  <2>1. UNCHANGED <<world, FNet, FUUIDFrom, FGraph, FByUUIDs, events, infos, taken>>
        /\ DOMAIN FDestinationCache' = Kernels
    BY <1>1 DEF MNextDestinations, descVars, Types
  <2>2. Types'
    BY <2>1 DEF Types, LettersType, LinksOf
  <2>3. \A p \in Kernels : \A net : /\ InLetters(p, net)' => InLetters(p, net)
                                    /\ InTaken(p, net)' => InTaken(p, net)
    BY <2>1 DEF InLetters, InTaken, LinksOf
  <2>4. NetsMove(k)
    BY <2>1, <2>3, MoveNets
  <2>5. QED
    BY <2>1, <2>2, <2>4 DEF Moves
<1>2. QED
  BY <1>1, DescriptorMoves, TakeMoves, ApplyMoves DEF StepOf, Apply

-----------------------------------------------------------------------------
(* Versions: all copies of a record are known, and version 0 is empty.     *)
Versions ==
  \A j \in Kernels : \A r, q : IsCopy(j, r) /\ IsCopy(j, q) =>
    /\ r.FIndexNumber <= FNet[j][j].FIndexNumber
    /\ r.FIndexNumber = q.FIndexNumber => r = q
    /\ r.FIndexNumber = 0 => r = Record({}, 0)

IInv == Types /\ Known /\ Versions

LEMMA CopiesAreRecords == Types => \A j, r : IsCopy(j, r) => j \in Kernels /\ r \in Records
<1> SUFFICES ASSUME Types, NEW j, NEW r, IsCopy(j, r) PROVE j \in Kernels /\ r \in Records
  OBVIOUS
<1>1. PICK k \in Kernels : \E net \in NetsAt(k) : j \in DOMAIN net /\ net[j] = r
  BY DEF IsCopy, AllNets
<1>2. PICK net : /\ net = FNet[k] \/ InLetters(k, net) \/ InTaken(k, net)
                 /\ j \in DOMAIN net /\ net[j] = r
  BY <1>1, NetsAtAre
<1>3. net \in Nets
  <2>1. CASE net = FNet[k]
    BY <2>1 DEF Types
  <2>2. CASE InLetters(k, net)
    <3>1. PICK l \in LinksOf(k) : \E n \in 1 .. Len(infos[k][l]) : net = infos[k][l][n]
      BY <2>2 DEF InLetters
    <3>2. infos[k][l] \in Seq(Nets)
      BY DEF Types, LettersType
    <3>3. QED
      BY <3>1, <3>2, ElementOfSeq
  <2>3. CASE InTaken(k, net)
    <3>1. PICK n \in 1 .. Len(taken[k]) : taken[k][n].what = "info" /\ net = taken[k][n].net
      BY <2>3 DEF InTaken
    <3>2. taken[k] \in Seq(Ops)
      BY DEF Types
    <3>3. QED
      BY <3>1, <3>2, ElementOfSeq, OpsAre
  <2>4. QED
    BY <1>2, <2>1, <2>2, <2>3
<1>4. QED
  BY <1>2, <1>3, NetsAre

LEMMA VersionsAreNewest ==
  ASSUME Types, Versions, NEW k \in Kernels
  PROVE  OwnIsNewest(k)
BY DEF Versions, OwnIsNewest, IsCopy

LEMMA InitVersions == Init => Versions
<1> SUFFICES ASSUME Init, NEW j \in Kernels, NEW r, NEW q, IsCopy(j, r), IsCopy(j, q)
             PROVE  /\ r.FIndexNumber <= FNet[j][j].FIndexNumber
                    /\ r.FIndexNumber = q.FIndexNumber => r = q
                    /\ r.FIndexNumber = 0 => r = Record({}, 0)
  BY DEF Versions
<1>1. \A k \in Kernels : \A net \in NetsAt(k) : net = [i \in {k} |-> Record({}, 0)]
  <2>1. \A k \in Kernels : \A net : ~InLetters(k, net) /\ ~InTaken(k, net)
    BY DEF Init, InLetters, InTaken
  <2>2. \A k \in Kernels : FNet[k] = [i \in {k} |-> Record({}, 0)]
    BY DEF Init
  <2>3. QED
    BY <2>1, <2>2, NetsAtAre
<1>2. ASSUME NEW x, IsCopy(j, x) PROVE x = Record({}, 0)
  <2>1. PICK k \in Kernels : \E net \in NetsAt(k) : j \in DOMAIN net /\ net[j] = x
    BY <1>2 DEF IsCopy, AllNets
  <2>2. QED
    BY <1>1, <2>1
<1>3. FNet[j][j] = Record({}, 0) /\ Record({}, 0).FIndexNumber = 0
  BY DEF Init, Record
<1>4. QED
  BY <1>2, <1>3

LEMMA StepKeepsVersions ==
  ASSUME Types, Known, Versions, NEW k \in Kernels, Moves(k)
  PROVE  Known' /\ Versions'
<1>1. CASE UNCHANGED <<FNet, FUUIDFrom>>
  <2>1. \A j, r : IsCopy(j, r)' => IsCopy(j, r)
    <3>1. \A net \in AllNets' : net \in AllNets
      BY <1>1, OwnNetIsCopy DEF Moves, NetsMove
    <3>2. QED
      BY <3>1 DEF IsCopy
  <2>2. Versions'
    BY <1>1, <2>1 DEF Versions
  <2>3. QED
    BY <1>1, <2>2 DEF Known
<1>2. CASE Renews(k)
  <2>1. PICK net \in Nets, from \in Sources :
          /\ FNet' = [FNet EXCEPT ![k] = net]
          /\ FUUIDFrom' = [FUUIDFrom EXCEPT ![k] = from]
          /\ Matches(k, net, from) /\ Continues(k, net)
    BY <1>2 DEF Renews
  <2>2. /\ FNet'[k] = net /\ FUUIDFrom'[k] = from
        /\ \A j \in Kernels \ {k} : FNet'[j] = FNet[j] /\ FUUIDFrom'[j] = FUUIDFrom[j]
    BY <2>1 DEF Types
  <2>3. Known'
    BY <2>1, <2>2 DEF Known, Matches
  <2>4. \A j, r : IsCopy(j, r)' => IsCopy(j, r) \/ (j \in DOMAIN net /\ r = net[j])
    BY <2>2 DEF Moves, NetsMove, IsCopy
  <2>5. Record({}, 0).FIndexNumber = 0
    BY DEF Record
  <2>6. \A j, r : IsCopy(j, r) => r.FIndexNumber \in Nat
    BY CopiesAreRecords DEF Records
  <2>7. \A j \in Kernels : IsCopy(j, FNet[j][j]) /\ FNet[j][j].FIndexNumber \in Nat
    <3>1. \A j \in Kernels : IsCopy(j, FNet[j][j])
      BY OwnNetIsCopy DEF Known, Matches
    <3>2. QED
      BY <2>6, <3>1
  <2>8. ASSUME NEW j \in Kernels, NEW r, NEW q, IsCopy(j, r)', IsCopy(j, q)'
        PROVE  /\ r.FIndexNumber <= FNet'[j][j].FIndexNumber
               /\ r.FIndexNumber = q.FIndexNumber => r = q
               /\ r.FIndexNumber = 0 => r = Record({}, 0)
    <3>1. CASE j # k
      <4>1. \A x : IsCopy(j, x)' => IsCopy(j, x) \/ x = Record({}, 0)
        BY <2>1, <2>4, <3>1 DEF Continues
      <4>2. FNet'[j] = FNet[j]
        BY <2>2, <3>1
      <4>3. /\ IsCopy(j, r) \/ r = Record({}, 0)
            /\ IsCopy(j, q) \/ q = Record({}, 0)
        BY <2>8, <4>1
      <4>4. ASSUME NEW x, IsCopy(j, x) \/ x = Record({}, 0)
            PROVE  /\ x.FIndexNumber <= FNet[j][j].FIndexNumber
                   /\ x.FIndexNumber = 0 => x = Record({}, 0)
        BY <2>5, <2>7, <4>4 DEF Versions
      <4>5. IsCopy(j, r) /\ IsCopy(j, q) /\ r.FIndexNumber = q.FIndexNumber => r = q
        BY DEF Versions
      <4>6. QED
        BY <2>5, <4>2, <4>3, <4>4, <4>5
    <3>2. CASE j = k /\ net[k] = FNet[k][k]
      <4>1. IsCopy(j, r) /\ IsCopy(j, q)
        BY <2>4, <2>7, <2>8, <3>2
      <4>2. QED
        BY <2>2, <3>2, <4>1 DEF Versions
    <3>3. CASE j = k /\ net[k].FIndexNumber = FNet[k][k].FIndexNumber + 1
      <4>1. /\ IsCopy(j, r) \/ r = net[k]
            /\ IsCopy(j, q) \/ q = net[k]
        BY <2>4, <2>8, <3>3
      <4>2. ASSUME NEW x, IsCopy(k, x)
            PROVE  /\ x.FIndexNumber \in Nat /\ x.FIndexNumber < net[k].FIndexNumber
                   /\ x.FIndexNumber = 0 => x = Record({}, 0)
        <5>1. /\ x.FIndexNumber \in Nat /\ x.FIndexNumber <= FNet[k][k].FIndexNumber
              /\ x.FIndexNumber = 0 => x = Record({}, 0)
          BY <2>6, <4>2 DEF Versions
        <5>2. QED
          BY <2>7, <3>3, <5>1
      <4>3. net[k].FIndexNumber \in Nat \ {0} /\ FNet'[k][k] = net[k]
        BY <2>2, <2>7, <3>3
      <4>4. IsCopy(k, r) /\ IsCopy(k, q) /\ r.FIndexNumber = q.FIndexNumber => r = q
        BY DEF Versions
      <4>5. QED
        BY <3>3, <4>1, <4>2, <4>3, <4>4
    <3>4. QED
      BY <2>1, <3>1, <3>2, <3>3 DEF Continues
  <2>9. Versions'
    BY <2>8 DEF Versions
  <2>10. QED
    BY <2>3, <2>9
<1>3. QED
  BY <1>1, <1>2 DEF Moves

LEMMA NextIsAStep ==
  Types /\ Next => \E k \in Kernels : StepOf(k)
BY DEF Next, Pool, StepOf

LEMMA Invariance == Spec => []IInv
<1>1. Init => IInv
  BY InitTypes, InitVersions DEF IInv
<1>2. IInv /\ [Next]_vars => IInv'
  <2> SUFFICES ASSUME IInv, [Next]_vars PROVE IInv'
    OBVIOUS
  <2>1. CASE Next
    <3>1. PICK k \in Kernels : StepOf(k)
      BY <2>1, NextIsAStep DEF IInv
    <3>2. OwnIsNewest(k)
      BY VersionsAreNewest DEF IInv
    <3>3. Moves(k)
      BY <3>1, <3>2, StepMoves DEF IInv
    <3>4. Known' /\ Versions'
      BY <3>3, StepKeepsVersions DEF IInv
    <3>5. QED
      BY <3>3, <3>4 DEF IInv, Moves
  <2>2. CASE UNCHANGED vars
    <3>1. UNCHANGED <<world, FNet, FUUIDFrom, FGraph, FDestinationCache, FByUUIDs, events,
                      infos, taken>>
      BY <2>2 DEF vars, descVars, infoVars
    <3>2. Types' /\ Known'
      BY <3>1 DEF IInv, Types, LettersType, LinksOf, Known
    <3>3. AllNets' = AllNets
      BY <3>1 DEF AllNets, NetsAt, LinksOf
    <3>4. Versions'
      BY <3>1, <3>3 DEF IInv, Versions, IsCopy
    <3>5. QED
      BY <3>2, <3>4 DEF IInv
  <2>3. QED
    BY <2>1, <2>2
<1>3. QED
  BY <1>1, <1>2, PTL DEF Spec

(* Records and their sources agree in every kernel, in whatever order the  *)
(* threads apply opens, closes and received records: none of the CHECKs of *)
(* MRemoveKernel, MPopKernel and MPutKernel fails.                         *)
THEOREM FromMatchesNetHolds == Spec => []FromMatchesNet
<1>1. IInv => FromMatchesNet
  BY DEF IInv, Known, Matches, FromMatchesNet
<1>2. QED
  BY <1>1, Invariance, PTL

(* FIndexNumber is a version in the whole net: copies of a record with the *)
(* same number are equal and none is newer than the one of its own kernel. *)
THEOREM VersionsAgreeHolds == Spec => []VersionsAgree
<1>1. IInv => VersionsAgree
  <2> SUFFICES ASSUME IInv, NEW net \in AllNets, NEW j \in DOMAIN net
               PROVE  /\ net[j].FIndexNumber <= FNet[j][j].FIndexNumber
                      /\ \A other \in AllNets :
                           (j \in DOMAIN other /\ other[j].FIndexNumber = net[j].FIndexNumber)
                             => other[j] = net[j]
    BY DEF VersionsAgree
  <2>1. IsCopy(j, net[j])
    BY DEF IsCopy
  <2>2. j \in Kernels
    BY <2>1, CopiesAreRecords DEF IInv
  <2>3. \A other \in AllNets : j \in DOMAIN other => IsCopy(j, other[j])
    BY DEF IsCopy
  <2>4. QED
    BY <2>1, <2>2, <2>3 DEF IInv, Versions
<1>2. QED
  BY <1>1, Invariance, PTL

-----------------------------------------------------------------------------
(* Destinations.  As long as the ways and the descriptors of a kernel stay *)
(* as they are, so does what is found with them.                           *)
CacheFits(k) ==
  ~Pending(k, {"open", "close"})
    => \A to \in DOMAIN FDestinationCache[k] : FDestinationCache[k][to] \in NextOnTheWay(k, to)

(* Nothing that empties the memory goes out of sight.                      *)
StillPending(k) == Pending(k, {"open", "close"}) => Pending(k, {"open", "close"})'

LEMMA QuietKeepsCache ==
  ASSUME NEW k, CacheFits(k), StillPending(k), FGraph'[k] = FGraph[k],
         FByUUIDs'[k] = FByUUIDs[k], FDestinationCache'[k] = FDestinationCache[k]
  PROVE  CacheFits(k)'
<1>1. \A to : NextOnTheWay(k, to)' = NextOnTheWay(k, to)
  BY DEF NextOnTheWay
<1>2. QED
  BY <1>1 DEF CacheFits, StillPending

(* An operation that is not the one removed stays.                         *)
LEMMA OthersStay ==
  ASSUME NEW T, NEW s \in Seq(T), NEW i \in 1 .. Len(s)
  PROVE  \A m \in 1 .. Len(s) : m # i =>
           \E n \in 1 .. Len(Without(s, i)) : Without(s, i)[n] = s[m]
<1>1. Without(s, i) = DropAt(s, i)
  BY DEF Without, DropAt
<1>2. /\ Len(DropAt(s, i)) = Len(s) - 1
      /\ \A n \in 1 .. Len(s) - 1 : DropAt(s, i)[n] = IF n < i THEN s[n] ELSE s[n + 1]
  BY DropAtProperties
<1>3. Len(s) \in Nat
  BY LenProperties
<1>4. ASSUME NEW m \in 1 .. Len(s), m # i
      PROVE  \E n \in 1 .. Len(s) - 1 : DropAt(s, i)[n] = s[m]
  <2>1. CASE m < i
    <3>1. m \in 1 .. Len(s) - 1
      BY <1>3, <2>1
    <3>2. QED
      BY <1>2, <2>1, <3>1
  <2>2. CASE m > i
    <3>1. m - 1 \in 1 .. Len(s) - 1 /\ ~(m - 1 < i) /\ (m - 1) + 1 = m
      BY <1>3, <2>2
    <3>2. QED
      BY <1>2, <3>1
  <2>3. QED
    BY <1>4, <2>1, <2>2
<1>5. QED
  BY <1>1, <1>2, <1>4

LEMMA ClearedStillPending ==
  ASSUME Types, NEW k \in Kernels, NEW i \in 1 .. Len(taken[k]),
         taken[k][i].what \notin {"open", "close"},
         taken' = [taken EXCEPT ![k] = Without(@, i)], events' = events
  PROVE  StillPending(k)
<1>1. taken[k] \in Seq(Ops) /\ taken'[k] = Without(taken[k], i)
  BY DEF Types
<1>2. \A m \in 1 .. Len(taken[k]) : m # i =>
        \E n \in 1 .. Len(taken'[k]) : taken'[k][n] = taken[k][m]
  BY <1>1, OthersStay
<1>3. QED
  BY <1>2 DEF StillPending, Pending

LEMMA TakenStillPending ==
  ASSUME Types, NEW k \in Kernels, NEW e \in Ops, taken' = [taken EXCEPT ![k] = Append(@, e)],
         \/ events' = events
         \/ events[k] # <<>> /\ e = Head(events[k]) /\ events' = [events EXCEPT ![k] = Tail(@)]
  PROVE  StillPending(k)
<1> DEFINE W == {"open", "close"}
<1>1. taken[k] \in Seq(Ops) /\ taken'[k] = Append(taken[k], e)
  BY DEF Types
<1>2. /\ Len(taken[k]) \in Nat /\ Len(taken'[k]) = Len(taken[k]) + 1
      /\ taken'[k][Len(taken[k]) + 1] = e
      /\ \A n \in 1 .. Len(taken[k]) : taken'[k][n] = taken[k][n]
  BY <1>1, AppendProperties, LenProperties
<1>3. ASSUME NEW n \in 1 .. Len(taken[k]), taken[k][n].what \in W
      PROVE  Pending(k, W)'
  <2>1. n \in 1 .. Len(taken'[k]) /\ taken'[k][n] = taken[k][n]
    BY <1>2
  <2>2. QED
    BY <1>3, <2>1 DEF Pending
<1>4. ASSUME NEW n \in 1 .. Len(events[k]), events[k][n].what \in W
      PROVE  Pending(k, W)'
  <2>1. CASE events' = events
    BY <1>4, <2>1 DEF Pending
  <2>2. CASE events[k] # <<>> /\ e = Head(events[k]) /\ events' = [events EXCEPT ![k] = Tail(@)]
    <3>1. events[k] \in Seq(Immediate) /\ events'[k] = Tail(events[k])
      BY <2>2 DEF Types
    <3>2. /\ e = events[k][1]
          /\ \A m \in 1 .. Len(events[k]) : m # 1 =>
               \E r \in 1 .. Len(events'[k]) : events'[k][r] = events[k][m]
      <4>1. events[k] # <<>>
        BY <2>2
      <4>2. /\ Head(events[k]) = events[k][1]
            /\ \A m \in 1 .. Len(events[k]) : m # 1 =>
                 \E r \in 1 .. Len(Tail(events[k])) : Tail(events[k])[r] = events[k][m]
        BY <3>1, <4>1, ShrunkQueue
      <4>3. QED
        BY <2>2, <3>1, <4>2
    <3>3. CASE n = 1
      <4>1. Len(taken[k]) + 1 \in 1 .. Len(taken'[k])
        BY <1>2
      <4>2. QED
        BY <1>2, <1>4, <3>2, <3>3, <4>1 DEF Pending
    <3>4. CASE n # 1
      <4>1. PICK r \in 1 .. Len(events'[k]) : events'[k][r] = events[k][n]
        BY <3>2, <3>4
      <4>2. QED
        BY <1>4, <4>1 DEF Pending
    <3>5. QED
      BY <3>3, <3>4
  <2>3. QED
    BY <2>1, <2>2
<1>5. QED
  BY <1>3, <1>4 DEF StillPending, Pending

LEMMA AddedIsPending ==
  ASSUME Types, NEW k \in Kernels, NEW e \in Immediate, e.what \in {"open", "close"},
         events' = [events EXCEPT ![k] = Append(@, e)]
  PROVE  Pending(k, {"open", "close"})'
<1>1. events[k] \in Seq(Immediate) /\ events'[k] = Append(events[k], e)
  BY DEF Types
<1>2. Len(events'[k]) \in 1 .. Len(events'[k]) /\ events'[k][Len(events'[k])] = e
  BY <1>1, AppendProperties, LenProperties
<1>3. QED
  BY <1>2 DEF Pending

(* A step concerns one kernel.                                             *)
LEMMA OthersRest ==
  ASSUME Types, NEW k \in Kernels, StepOf(k), NEW p \in Kernels, p # k, CacheFits(p)
  PROVE  CacheFits(p)'
<1>1. /\ FGraph'[p] = FGraph[p] /\ FByUUIDs'[p] = FByUUIDs[p]
      /\ FDestinationCache'[p] = FDestinationCache[p]
      /\ events'[p] = events[p] /\ taken'[p] = taken[p]
  <2>1. ASSUME NEW l \in LinksOf(k), MOpen(k, l) \/ MClose(k, l) \/ TakeInfo(k, l) PROVE <1>1
    BY <2>1 DEF MOpen, MClose, TakeInfo, infoVars, descVars, Types
  <2>2. CASE TakeEvent(k)
    BY <2>2 DEF TakeEvent, infoVars, descVars, Types
  <2>3. ASSUME NEW i \in 1 .. Len(taken[k]), MHandleDiff(k, i) PROVE <1>1
    BY <2>3 DEF MHandleDiff, infoVars, descVars, Types
  <2>4. ASSUME NEW i \in 1 .. Len(taken[k]), MHandleOpen(k, i) PROVE <1>1
    BY <2>4 DEF MHandleOpen, MSynchronize, MResetCache, descVars, Types
  <2>5. ASSUME NEW i \in 1 .. Len(taken[k]), MHandleClose(k, i) PROVE <1>1
    BY <2>5 DEF MHandleClose, MSynchronize, MResetCache, descVars, Types
  <2>6. ASSUME NEW i \in 1 .. Len(taken[k]), MHandle(k, i) PROVE <1>1
    BY <2>6 DEF MHandle, MSynchronize, MResetCache, descVars, Types
  <2>7. ASSUME NEW to, MNextDestinations(k, to) PROVE <1>1
    BY <2>7 DEF MNextDestinations, descVars, Types
  <2>8. QED
    BY <2>1, <2>2, <2>3, <2>4, <2>5, <2>6, <2>7 DEF StepOf, Apply
<1>2. StillPending(p)
  BY <1>1 DEF StillPending, Pending
<1>3. QED
  BY <1>1, <1>2, QuietKeepsCache

(* A handler that changes the ways empties the memory.                     *)
LEMMA EmptyMemoryFits ==
  ASSUME NEW k \in Kernels, DOMAIN FDestinationCache = Kernels, MResetCache(k)
  PROVE  CacheFits(k)'
<1>1. FDestinationCache'[k] = EmptyMap
  BY DEF MResetCache
<1>2. DOMAIN FDestinationCache'[k] = {}
  BY <1>1 DEF EmptyMap
<1>3. QED
  BY <1>2 DEF CacheFits

(* What a look-up adds was found with the present ways.                    *)
LEMMA LookUpKeepsCache ==
  ASSUME Types, NEW k \in Kernels, NEW to, MNextDestinations(k, to), CacheFits(k)
  PROVE  CacheFits(k)'
<1>1. /\ FGraph' = FGraph /\ FByUUIDs' = FByUUIDs /\ events' = events /\ taken' = taken
  BY DEF MNextDestinations, descVars
<1>2. \A t : NextOnTheWay(k, t)' = NextOnTheWay(k, t)
  BY <1>1 DEF NextOnTheWay
<1>3. PICK d \in NextOnTheWay(k, to) :
        FDestinationCache' = [FDestinationCache EXCEPT ![k] =
          [t \in DOMAIN @ \cup {to} |-> IF t = to THEN d ELSE @[t]]]
  BY DEF MNextDestinations
<1> DEFINE old == FDestinationCache[k]
<1>4. FDestinationCache'[k] = [t \in DOMAIN old \cup {to} |-> IF t = to THEN d ELSE old[t]]
  BY <1>3 DEF Types
<1>5. Pending(k, {"open", "close"})' = Pending(k, {"open", "close"})
  BY <1>1 DEF Pending
<1>6. SUFFICES ASSUME ~Pending(k, {"open", "close"}), NEW t \in DOMAIN FDestinationCache'[k]
               PROVE  FDestinationCache'[k][t] \in NextOnTheWay(k, t)
  BY <1>2, <1>5 DEF CacheFits
<1>7. CASE t = to
  BY <1>3, <1>4, <1>7
<1>8. CASE t # to
  <2>1. t \in DOMAIN old /\ FDestinationCache'[k][t] = old[t]
    BY <1>4, <1>8
  <2>2. QED
    BY <1>6, <2>1 DEF CacheFits
<1>9. QED
  BY <1>7, <1>8

LEMMA StepKeepsCache ==
  ASSUME Types, NEW k \in Kernels, StepOf(k), CacheFits(k)
  PROVE  CacheFits(k)'
<1>1. ASSUME NEW l \in LinksOf(k), MOpen(k, l) PROVE CacheFits(k)'
  <2>1. Open(l) \in Immediate /\ Open(l).what = "open"
    BY LinksAre, OpsAre DEF Open
  <2>2. events' = [events EXCEPT ![k] = Append(@, Open(l))]
    BY <1>1 DEF MOpen
  <2>3. Pending(k, {"open", "close"})'
    BY <2>1, <2>2, AddedIsPending
  <2>4. QED
    BY <2>3 DEF CacheFits
<1>2. ASSUME NEW l \in LinksOf(k), MClose(k, l) PROVE CacheFits(k)'
  <2>1. CASE FDescriptors[k][l] = "open"
    <3>1. Close(l) \in Immediate /\ Close(l).what = "close"
      BY LinksAre, OpsAre DEF Close
    <3>2. events' = [events EXCEPT ![k] = Append(@, Close(l))]
      BY <1>2, <2>1 DEF MClose
    <3>3. Pending(k, {"open", "close"})'
      BY <3>1, <3>2, AddedIsPending
    <3>4. QED
      BY <3>3 DEF CacheFits
  <2>2. CASE FDescriptors[k][l] # "open"
    <3>1. UNCHANGED <<FGraph, FByUUIDs, FDestinationCache, events, taken>>
      BY <1>2, <2>2 DEF MClose, infoVars
    <3>2. StillPending(k)
      BY <3>1 DEF StillPending, Pending
    <3>3. QED
      BY <3>1, <3>2, QuietKeepsCache
  <2>3. QED
    BY <2>1, <2>2
<1>3. ASSUME TakeEvent(k) PROVE CacheFits(k)'
  <2>1. /\ UNCHANGED <<FGraph, FByUUIDs, FDestinationCache>>
        /\ events[k] # <<>> /\ events' = [events EXCEPT ![k] = Tail(@)]
        /\ taken' = [taken EXCEPT ![k] = Append(@, Head(events[k]))]
    BY <1>3 DEF TakeEvent, infoVars, descVars
  <2>2. events[k] \in Seq(Immediate)
    BY DEF Types
  <2>3. Head(events[k]) \in Immediate
    BY <2>1, <2>2, ShrunkQueue
  <2>4. Head(events[k]) \in Ops
    BY <2>3, OpsAre
  <2>5. StillPending(k)
    BY <2>1, <2>4, TakenStillPending
  <2>6. QED
    BY <2>1, <2>5, QuietKeepsCache
<1>4. ASSUME NEW l \in LinksOf(k), TakeInfo(k, l) PROVE CacheFits(k)'
  <2>1. /\ UNCHANGED <<FGraph, FByUUIDs, FDestinationCache, events>> /\ infos[k][l] # <<>>
        /\ taken' = [taken EXCEPT ![k] = Append(@, Info(l, Head(infos[k][l])))]
    BY <1>4 DEF TakeInfo, infoVars, descVars
  <2>2. infos[k][l] \in Seq(Nets)
    BY DEF Types, LettersType
  <2>3. Head(infos[k][l]) \in Nets
    BY <2>1, <2>2, ShrunkQueue
  <2>4. Info(l, Head(infos[k][l])) \in Ops
    BY <2>3, LinksAre, OpsAre
  <2>5. StillPending(k)
    BY <2>1, <2>4, TakenStillPending
  <2>6. QED
    BY <2>1, <2>5, QuietKeepsCache
<1>5. ASSUME NEW i \in 1 .. Len(taken[k]), MHandleDiff(k, i) PROVE CacheFits(k)'
  <2>1. /\ UNCHANGED <<FGraph, FByUUIDs, FDestinationCache>> /\ events' = events
        /\ taken[k][i].what \notin {"open", "close"}
        /\ taken' = [taken EXCEPT ![k] = Without(@, i)]
    BY <1>5 DEF MHandleDiff, infoVars, descVars
  <2>2. StillPending(k)
    BY <2>1, ClearedStillPending
  <2>3. QED
    BY <2>1, <2>2, QuietKeepsCache
<1>6. ASSUME NEW i \in 1 .. Len(taken[k]), MHandle(k, i) PROVE CacheFits(k)'
  <2>1. \/ MResetCache(k)
        \/ /\ UNCHANGED <<FGraph, FByUUIDs, FDestinationCache>> /\ events' = events
           /\ taken[k][i].what \notin {"open", "close"}
           /\ taken' = [taken EXCEPT ![k] = Without(@, i)]
    BY <1>6 DEF MHandle, descVars
  <2>2. CASE MResetCache(k)
    BY <2>2, EmptyMemoryFits DEF Types
  <2>3. CASE ~MResetCache(k)
    <3>1. StillPending(k)
      BY <2>1, <2>3, ClearedStillPending
    <3>2. QED
      BY <2>1, <2>3, <3>1, QuietKeepsCache
  <2>4. QED
    BY <2>2, <2>3
<1>7. ASSUME NEW i \in 1 .. Len(taken[k]), MHandleOpen(k, i) \/ MHandleClose(k, i)
      PROVE  CacheFits(k)'
  <2>1. MResetCache(k)
    BY <1>7 DEF MHandleOpen, MHandleClose
  <2>2. QED
    BY <2>1, EmptyMemoryFits DEF Types
<1>8. QED
  BY <1>1, <1>2, <1>3, <1>4, <1>5, <1>6, <1>7, LookUpKeepsCache DEF StepOf, Apply

(* The memory of destinations is never stale once the event that changed   *)
(* the descriptors has been applied, although MOpen and MClose run under   *)
(* another lock than the handlers and the look-ups.                        *)
THEOREM CacheIsCurrentHolds == Spec => []CacheIsCurrent
<1> DEFINE Fits == \A k \in Kernels : CacheFits(k)
<1>1. Init => Fits
  <2>1. Init => \A k \in Kernels : DOMAIN FDestinationCache[k] = {}
    BY DEF Init, EmptyMap
  <2>2. QED
    BY <2>1 DEF CacheFits
<1>2. IInv /\ Fits /\ [Next]_vars => Fits'
  <2> SUFFICES ASSUME IInv, Fits, [Next]_vars, NEW p \in Kernels PROVE CacheFits(p)'
    OBVIOUS
  <2>1. CASE Next
    <3>1. PICK k \in Kernels : StepOf(k)
      BY <2>1, NextIsAStep DEF IInv
    <3>2. CASE p = k
      BY <3>1, <3>2, StepKeepsCache DEF IInv
    <3>3. CASE p # k
      BY <3>1, <3>3, OthersRest DEF IInv
    <3>4. QED
      BY <3>2, <3>3
  <2>2. CASE UNCHANGED vars
    <3>1. UNCHANGED <<FGraph, FByUUIDs, FDestinationCache, events, taken>>
      BY <2>2 DEF vars, descVars, infoVars
    <3>2. StillPending(p)
      BY <3>1 DEF StillPending, Pending
    <3>3. QED
      BY <3>1, <3>2, QuietKeepsCache
  <2>3. QED
    BY <2>1, <2>2
<1>3. Fits => CacheIsCurrent
  BY DEF CacheFits, CacheIsCurrent
<1> HIDE DEF Fits
<1>4. QED
  BY <1>1, <1>2, <1>3, Invariance, PTL DEF Spec

-----------------------------------------------------------------------------
(* The customers of the routing service.  A customer is in the record of   *)
(* one kernel only, the one it is connected to.                            *)
Home(c, j) == \E l \in Links : Ends[l] = {c, j}
AtHome(net) ==
  \A j \in DOMAIN net : \A c \in net[j].FCustomerInfo \cap Customers : Home(c, j)

(* The opens and closes in the pool of a kernel are of its own links.      *)
OpsOf(k) == {op \in Ops : op.what \in {"open", "close"} => k \in Ends[op.id]}

Homes ==
  /\ \A net \in AllNets : AtHome(net)
  /\ \A k \in Kernels : events[k] \in Seq(OpsOf(k)) /\ taken[k] \in Seq(OpsOf(k))

LEMMA OneHome ==
  ASSUME NEW c \in Customers, NEW i \in Kernels, NEW j \in Kernels, Home(c, i), Home(c, j)
  PROVE  i = j
<1>1. PICK l \in Links : Ends[l] = {c, i}
  BY DEF Home
<1>2. PICK m \in Links : Ends[m] = {c, j}
  BY DEF Home
<1>3. Ends[l] = Ends[m]
  BY <1>1, <1>2, CustomerAssumption
<1>4. c # i /\ c # j
  BY LinkAssumption
<1>5. QED
  BY <1>1, <1>2, <1>3, <1>4

(* A link has two ends, a kernel and its peer.                             *)
LEMMA EndsAre ==
  ASSUME NEW l \in Links, NEW k \in Ends[l]
  PROVE  /\ Ends[l] = {k, Peer(k, l)} /\ Peer(k, l) # k
         /\ Peer(k, l) \in Ends[l] /\ Peer(Peer(k, l), l) = k
<1> DEFINE E == Ends[l]
<1>1. Cardinality(E) = 2
  BY LinkAssumption
<1>2. E # {k}
  <2>1. Cardinality({k}) = 1
    BY FS_Singleton
  <2>2. QED
    BY <1>1, <2>1
<1>3. \E p \in E : p # k
  BY <1>2
<1>4. Peer(k, l) \in E /\ Peer(k, l) # k
  BY <1>3 DEF Peer
<1> DEFINE p == Peer(k, l)
           T == {k, p}
<1>5. IsFiniteSet(E) /\ T \in SUBSET E
  BY <1>4, LinkAssumption
<1>6. Cardinality(T) = 2
  <2>1. IsFiniteSet({k}) /\ Cardinality({k}) = 1
    BY FS_Singleton
  <2>2. ASSUME NEW q, q # k PROVE Cardinality({k} \cup {q}) = 2
    <3>1. Cardinality({k} \cup {q}) =
            IF q \in {k} THEN Cardinality({k}) ELSE Cardinality({k}) + 1
      BY <2>1, FS_AddElement
    <3>2. q \notin {k}
      BY <2>2
    <3>3. QED
      BY <2>1, <3>1, <3>2
  <2>3. T = {k} \cup {p}
    OBVIOUS
  <2>4. QED
    BY <1>4, <2>2, <2>3
<1>7. E = T
  BY <1>1, <1>5, <1>6, FS_Subset
<1>8. Peer(p, l) = k
  <2>1. PICK h : h = p
    OBVIOUS
  <2>2. E = {k, h} /\ h # k
    BY <1>4, <1>7, <2>1
  <2>3. Peer(h, l) = k
    BY <2>2 DEF Peer
  <2>4. QED
    BY <2>1, <2>3
<1>9. QED
  BY <1>4, <1>7, <1>8

LEMMA PeerIsAtHome ==
  ASSUME NEW k \in Kernels, NEW l \in Links, k \in Ends[l]
  PROVE  Home(Peer(k, l), k) /\ Peer(k, l) \in Programs /\ Peer(k, l) # k
BY EndsAre, PeerIs DEF Home

(* The customers of the records of a kernel.                               *)
Clients(net) == CustomersOf(net, DOMAIN net)

LEMMA ClientsAre ==
  /\ \A net, S, c : c \in CustomersOf(net, S) <=>
       c \in Customers /\ \E j \in S : c \in net[j].FCustomerInfo
  /\ \A net, c : c \in Clients(net) <=>
       c \in Customers /\ \E j \in DOMAIN net : c \in net[j].FCustomerInfo
BY DEF Clients, CustomersOf

(* What an operation of the pool makes of the customers of the routing     *)
(* service.  A difference either opens customers that are not there, or    *)
(* changes nothing: then it may stop the kernel.                           *)
Turns(a, op, b) ==
  IF op.what = "diff"
    THEN /\ b = (a \cup op.opened) \ op.closed
         /\ op.opened \cap a = {} \/ b = a
    ELSE b = a

(* The difference that a handler gives to the pool is the one between the  *)
(* records before and after.                                               *)
Tells(k, i) ==
  /\ taken[k][i].what # "diff"
  /\ taken' = [taken EXCEPT ![k] = Without(@, i)] /\ FIds' = FIds
  /\ \/ events' = events /\ Clients(FNet'[k]) = Clients(FNet[k])
     \/ \E opened, closed \in SUBSET Programs :
          /\ events' = [events EXCEPT ![k] = Append(@, Diff(opened, closed))]
          /\ Turns(Clients(FNet[k]), Diff(opened, closed), Clients(FNet'[k]))

LEMMA SynchronizeTells ==
  ASSUME Types, NEW k \in Kernels, NEW i, taken[k][i].what # "diff",
         NEW net, FNet'[k] = net, NEW to, NEW opened \in SUBSET Programs, NEW closed \in SUBSET Programs,
         MSynchronize(k, i, net, to, opened, closed),
         Clients(net) = (Clients(FNet[k]) \cup opened) \ closed,
         opened \cap Clients(FNet[k]) = {} \/ Clients(net) = Clients(FNet[k])
  PROVE  Tells(k, i)
<1>1. /\ taken' = [taken EXCEPT ![k] = Without(@, i)] /\ FIds' = FIds
      /\ events' = [events EXCEPT ![k] =
           IF opened \cup closed = {} THEN @ ELSE Append(@, Diff(opened, closed))]
  BY DEF MSynchronize
<1>2. CASE opened \cup closed = {}
  <2>1. events' = events
    BY <1>1, <1>2 DEF Types
  <2>2. Clients(net) = Clients(FNet[k])
    BY <1>2
  <2>3. QED
    BY <1>1, <2>1, <2>2 DEF Tells
<1>3. CASE opened \cup closed # {}
  <2>1. events' = [events EXCEPT ![k] = Append(@, Diff(opened, closed))]
    BY <1>1, <1>3
  <2>2. Turns(Clients(FNet[k]), Diff(opened, closed), Clients(net))
    BY DEF Turns, Diff
  <2>3. QED
    BY <1>1, <2>1, <2>2 DEF Tells
<1>4. QED
  BY <1>2, <1>3

LEMMA OpenTells ==
  ASSUME Types, Known, Homes, NEW k \in Kernels, NEW i \in 1 .. Len(taken[k]), MHandleOpen(k, i)
  PROVE  Tells(k, i) /\ AtHome(FNet'[k])
<1> DEFINE l == taken[k][i].id
           p == Peer(k, l)
           old == FNet[k]
           mine == PutToMyInfo(k, old, p)
           net == IF p \in Kernels THEN MAddKernel(mine, p) ELSE mine
           to == IF p \in Kernels /\ IsNewFrom(FUUIDFrom[k], p, l) THEN {l} ELSE FAllDescriptors[k] \cup {l}
<1>1. /\ FNet' = [FNet EXCEPT ![k] = net]
      /\ MSynchronize(k, i, net, to, {p} \cap Customers, {})
      /\ taken[k][i].what = "open"
  BY DEF MHandleOpen
<1>2. FNet'[k] = net /\ old \in Nets /\ k \in DOMAIN old /\ AtHome(old)
  BY <1>1, OwnNetIsCopy DEF Types, Known, Matches, Homes
<1>3. taken[k][i] \in Ops /\ l \in Links /\ k \in Ends[l]
  <2>1. taken[k][i] \in OpsOf(k)
    BY ElementOfSeq DEF Homes
  <2>2. QED
    BY <1>1, <2>1, OpsAre DEF OpsOf
<1>4. Home(p, k) /\ p \in Programs /\ p # k
  BY <1>3, PeerIsAtHome
<1> HIDE DEF l, p, to
<1>5. /\ DOMAIN old \subseteq DOMAIN net
      /\ net[k].FCustomerInfo = old[k].FCustomerInfo \cup {p}
      /\ \A j \in DOMAIN old \ {k} : net[j].FCustomerInfo = old[j].FCustomerInfo
      /\ \A j \in DOMAIN net \ DOMAIN old : net[j].FCustomerInfo = {}
  <2>1. /\ DOMAIN mine = DOMAIN old
        /\ mine[k].FCustomerInfo = old[k].FCustomerInfo \cup {p}
        /\ \A j \in DOMAIN old \ {k} : mine[j] = old[j]
    BY <1>2 DEF PutToMyInfo, Record
  <2> HIDE DEF mine, old
  <2>2. CASE p \in Kernels
    <3>1. /\ DOMAIN net = DOMAIN old \cup {p}
          /\ \A j \in DOMAIN old : net[j] = mine[j]
          /\ \A j \in DOMAIN net \ DOMAIN old : net[j] = Record({}, 0)
      BY <2>1, <2>2 DEF MAddKernel
    <3>2. Record({}, 0).FCustomerInfo = {}
      BY DEF Record
    <3>3. QED
      BY <1>2, <2>1, <3>1, <3>2
  <2>3. CASE p \notin Kernels
    BY <2>1, <2>3
  <2>4. QED
    BY <2>2, <2>3
<1> HIDE DEF net, old
<1>6. Clients(net) = Clients(old) \cup ({p} \cap Customers)
  <2>1. \A c : c \in Clients(net) <=> c \in Clients(old) \cup ({p} \cap Customers)
    <3> SUFFICES ASSUME NEW c \in Customers
                 PROVE  (\E j \in DOMAIN net : c \in net[j].FCustomerInfo) <=>
                        (c = p \/ \E j \in DOMAIN old : c \in old[j].FCustomerInfo)
      BY ClientsAre
    <3>1. QED
      BY <1>2, <1>5
  <2>2. QED
    BY <2>1
<1>7. AtHome(net)
  <2> SUFFICES ASSUME NEW j \in DOMAIN net, NEW c \in net[j].FCustomerInfo \cap Customers
               PROVE  Home(c, j)
    BY DEF AtHome
  <2>1. j \in DOMAIN old /\ (c \in old[j].FCustomerInfo \/ (j = k /\ c = p))
    BY <1>5
  <2>2. QED
    BY <1>2, <1>4, <2>1 DEF AtHome
<1>8. Tells(k, i)
  <2>1. /\ {p} \cap Customers \in SUBSET Programs /\ {} \in SUBSET Programs
        /\ Clients(net) = (Clients(FNet[k]) \cup ({p} \cap Customers)) \ {}
        /\ ({p} \cap Customers) \cap Clients(FNet[k]) = {} \/ Clients(net) = Clients(FNet[k])
    BY <1>4, <1>6 DEF old
  <2>2. FNet'[k] = net /\ taken[k][i].what # "diff"
    BY <1>1, <1>2
  <2>3. QED
    BY <1>1, <2>1, <2>2, SynchronizeTells
<1>9. QED
  BY <1>2, <1>7, <1>8

LEMMA CloseTells ==
  ASSUME Types, Known, Homes, NEW k \in Kernels, NEW i \in 1 .. Len(taken[k]), MHandleClose(k, i)
  PROVE  Tells(k, i) /\ AtHome(FNet'[k])
<1> DEFINE l == taken[k][i].id
           p == Peer(k, l)
           old == FNet[k]
           mine == PopFromMyInfo(k, old, p)
           gone == IF p \in Kernels THEN OnlyFrom(FUUIDFrom[k], l) ELSE {}
           net == [j \in DOMAIN mine \ gone |-> mine[j]]
           to == FAllDescriptors[k] \ {l}
           closed == ({p} \cap Customers) \cup CustomersOf(old, gone)
<1>1. /\ FNet' = [FNet EXCEPT ![k] = net]
      /\ MSynchronize(k, i, net, to, {}, closed)
      /\ taken[k][i].what = "close"
  BY DEF MHandleClose
<1>2. /\ FNet'[k] = net /\ old \in Nets /\ k \in DOMAIN old /\ AtHome(old)
      /\ DOMAIN old = DOMAIN FUUIDFrom[k] /\ FUUIDFrom[k][k] = {INVALID}
  BY <1>1, OwnNetIsCopy DEF Types, Known, Matches, Homes
<1>3. taken[k][i] \in Ops /\ l \in Links /\ k \in Ends[l] /\ l # INVALID
  <2>1. taken[k][i] \in OpsOf(k)
    BY ElementOfSeq DEF Homes
  <2>2. QED
    BY <1>1, <2>1, OpsAre, LinkAssumption DEF OpsOf
<1>4. Home(p, k) /\ p \in Programs /\ p # k
  BY <1>3, PeerIsAtHome
<1>5. gone \subseteq DOMAIN old /\ k \notin gone
  BY <1>2, <1>3 DEF OnlyFrom
<1>6. DOMAIN old \subseteq Kernels
  BY <1>2, NetsAre
<1> HIDE DEF l, p, to, gone
<1>7. /\ DOMAIN net = DOMAIN old \ gone
      /\ net[k].FCustomerInfo = old[k].FCustomerInfo \ {p}
      /\ \A j \in DOMAIN net \ {k} : net[j].FCustomerInfo = old[j].FCustomerInfo
  <2>1. /\ DOMAIN mine = DOMAIN old
        /\ mine[k].FCustomerInfo = old[k].FCustomerInfo \ {p}
        /\ \A j \in DOMAIN old \ {k} : mine[j] = old[j]
    BY <1>2 DEF PopFromMyInfo, Record
  <2> HIDE DEF mine, old
  <2>2. QED
    BY <1>2, <1>5, <2>1
<1>8. \A c : c \in closed <=>
        c \in Customers /\ (c = p \/ \E j \in gone : c \in old[j].FCustomerInfo)
  BY ClientsAre
<1> HIDE DEF net, old, closed
<1>9. Clients(net) = Clients(old) \ closed
  <2>1. ASSUME NEW c \in Customers, NEW j \in DOMAIN net, c \in net[j].FCustomerInfo
        PROVE  c \in Clients(old) \ closed
    <3>1. j \in DOMAIN old /\ j \notin gone /\ c \in old[j].FCustomerInfo /\ (j = k => c # p)
      BY <1>7, <2>1
    <3>2. Home(c, j)
      BY <1>2, <3>1 DEF AtHome
    <3>3. c # p
      BY <1>4, <1>6, <3>1, <3>2, OneHome
    <3>4. ASSUME NEW h \in gone, c \in old[h].FCustomerInfo PROVE FALSE
      <4>1. Home(c, h)
        BY <1>2, <1>5, <3>4 DEF AtHome
      <4>2. QED
        BY <1>5, <1>6, <3>1, <3>2, <4>1, OneHome
    <3>5. QED
      BY <1>8, <3>1, <3>3, <3>4, ClientsAre
  <2>2. ASSUME NEW c \in Customers, NEW j \in DOMAIN old, c \in old[j].FCustomerInfo, c \notin closed
        PROVE  c \in Clients(net)
    <3>1. c # p /\ j \notin gone
      BY <1>8, <2>2
    <3>2. j \in DOMAIN net /\ c \in net[j].FCustomerInfo
      BY <1>7, <2>2, <3>1
    <3>3. QED
      BY <3>2, ClientsAre
  <2>3. QED
    BY <2>1, <2>2, ClientsAre
<1>10. AtHome(net)
  <2> SUFFICES ASSUME NEW j \in DOMAIN net, NEW c \in net[j].FCustomerInfo \cap Customers
               PROVE  Home(c, j)
    BY DEF AtHome
  <2>1. j \in DOMAIN old /\ c \in old[j].FCustomerInfo
    BY <1>7
  <2>2. QED
    BY <1>2, <2>1 DEF AtHome
<1>11. Tells(k, i)
  <2>1. /\ {} \in SUBSET Programs /\ closed \in SUBSET Programs
        /\ Clients(net) = (Clients(FNet[k]) \cup {}) \ closed
        /\ {} \cap Clients(FNet[k]) = {} \/ Clients(net) = Clients(FNet[k])
    BY <1>8, <1>9 DEF old, Programs
  <2>2. FNet'[k] = net /\ taken[k][i].what # "diff"
    BY <1>1, <1>2
  <2>3. QED
    BY <1>1, <2>1, <2>2, SynchronizeTells
<1>12. QED
  BY <1>2, <1>10, <1>11
(* The customers the records a have in S, and in N other than b.           *)
Difference(a, b, S, N) ==
  CustomersOf(a, S) \cup UNION {CustomersOf(a, {j}) \ CustomersOf(b, {j}) : j \in N}

LEMMA DifferenceIs ==
  ASSUME NEW a, NEW b, NEW S, NEW N, NEW c
  PROVE  c \in Difference(a, b, S, N) <=>
           c \in Customers /\
             \/ \E j \in S : c \in a[j].FCustomerInfo
             \/ \E j \in N : c \in a[j].FCustomerInfo /\ c \notin b[j].FCustomerInfo
<1> DEFINE D(j) == CustomersOf(a, {j}) \ CustomersOf(b, {j})
<1>1. \A j : c \in D(j) <=>
        c \in Customers /\ c \in a[j].FCustomerInfo /\ c \notin b[j].FCustomerInfo
  BY ClientsAre
<1>2. c \in CustomersOf(a, S) <=> c \in Customers /\ \E j \in S : c \in a[j].FCustomerInfo
  BY ClientsAre
<1> HIDE DEF D
<1>3. c \in UNION {D(j) : j \in N} <=> \E j \in N : c \in D(j)
  OBVIOUS
<1>4. c \in CustomersOf(a, S) \cup UNION {D(j) : j \in N} <=>
        c \in Customers /\
          \/ \E j \in S : c \in a[j].FCustomerInfo
          \/ \E j \in N : c \in a[j].FCustomerInfo /\ c \notin b[j].FCustomerInfo
  BY <1>1, <1>2, <1>3
<1>5. QED
  BY <1>4 DEF D, Difference

LEMMA HandleTells ==
  ASSUME Types, Known, Homes, NEW k \in Kernels, NEW i \in 1 .. Len(taken[k]), MHandle(k, i)
  PROVE  Tells(k, i) /\ AtHome(FNet'[k])
<1> DEFINE l == taken[k][i].id
           old == FNet[k]
           new == taken[k][i].net
           from == FUUIDFrom[k]
           added == Added(old, new)
           removed == Removed(from, new, l)
           newer == Newer(old, new)
           net == [j \in (DOMAIN old \ removed) \cup added |->
                     IF j \in added \cup newer THEN new[j] ELSE old[j]]
           opened == CustomersOf(new, added)
                     \cup UNION {CustomersOf(new, {j}) \ CustomersOf(old, {j}) : j \in newer}
           closed == CustomersOf(old, removed)
                     \cup UNION {CustomersOf(old, {j}) \ CustomersOf(new, {j}) : j \in newer}
           to == IF l \in FAllDescriptors[k] THEN FAllDescriptors[k] \ {l} ELSE {}
<1>1. /\ \/ /\ FNet' = [FNet EXCEPT ![k] = net]
            /\ MSynchronize(k, i, net, to, opened, closed)
         \/ /\ taken' = [taken EXCEPT ![k] = Without(@, i)]
            /\ FNet' = FNet /\ FIds' = FIds /\ events' = events
      /\ taken[k][i].what = "info"
  BY DEF MHandle
<1>2. /\ FNet \in [Kernels -> Nets] /\ DOMAIN old \subseteq Kernels /\ AtHome(old)
      /\ DOMAIN from = DOMAIN old
  BY NetsAre, OwnNetIsCopy DEF Types, Known, Matches, Homes
<1>3. AtHome(new) /\ DOMAIN new \subseteq Kernels
  <2>1. new \in Nets
    BY <1>1, ElementOfSeq, OpsAre DEF Types
  <2>2. QED
    BY <1>1, <2>1, NetsAre, TakenNetIsCopy DEF Homes
<1>4. CASE FNet' = FNet /\ FIds' = FIds /\ events' = events /\ taken' = [taken EXCEPT ![k] = Without(@, i)]
  BY <1>1, <1>2, <1>4 DEF Tells
<1>5. CASE FNet' = [FNet EXCEPT ![k] = net] /\ MSynchronize(k, i, net, to, opened, closed)
  <2> HIDE DEF l, to
  <2>1. /\ added = DOMAIN new \ DOMAIN old
        /\ removed \subseteq DOMAIN old \ DOMAIN new
        /\ newer \subseteq DOMAIN old \cap DOMAIN new
    BY <1>2 DEF Added, Removed, Newer, OnlyFrom
  <2>2. \A c : c \in opened <=> c \in Customers /\
          \/ \E j \in added : c \in new[j].FCustomerInfo
          \/ \E j \in newer : c \in new[j].FCustomerInfo /\ c \notin old[j].FCustomerInfo
    <3>1. opened = Difference(new, old, added, newer)
      BY DEF Difference
    <3> HIDE DEF opened, added, newer, new, old
    <3>2. QED
      BY <3>1, DifferenceIs
  <2>3. \A c : c \in closed <=> c \in Customers /\
          \/ \E j \in removed : c \in old[j].FCustomerInfo
          \/ \E j \in newer : c \in old[j].FCustomerInfo /\ c \notin new[j].FCustomerInfo
    <3>1. closed = Difference(old, new, removed, newer)
      BY DEF Difference
    <3> HIDE DEF closed, removed, newer, new, old
    <3>2. QED
      BY <3>1, DifferenceIs
  <2>4. /\ DOMAIN net = (DOMAIN old \ removed) \cup added
        /\ \A j \in DOMAIN net : net[j] = IF j \in added \cup newer THEN new[j] ELSE old[j]
    OBVIOUS
  <2>5. FNet'[k] = net /\ opened \in SUBSET Programs /\ closed \in SUBSET Programs
    BY <1>2, <1>5, <2>2, <2>3 DEF Programs
  <2> HIDE DEF added, removed, newer, opened, closed, net, new, old
  <2>6. AtHome(net)
    <3> SUFFICES ASSUME NEW j \in DOMAIN net, NEW c \in net[j].FCustomerInfo \cap Customers
                 PROVE  Home(c, j)
      BY DEF AtHome
    <3>1. CASE j \in added \cup newer
      BY <1>3, <2>1, <2>4, <3>1 DEF AtHome
    <3>2. CASE j \notin added \cup newer
      BY <1>2, <2>4, <3>2 DEF AtHome
    <3>3. QED
      BY <3>1, <3>2
  <2>7. \A c \in Customers : \A j \in DOMAIN old : \A h \in DOMAIN old :
          c \in old[j].FCustomerInfo /\ c \in old[h].FCustomerInfo => j = h
    BY <1>2, OneHome DEF AtHome
  <2>8. \A c \in Customers : \A j \in DOMAIN old : \A h \in DOMAIN new :
          c \in old[j].FCustomerInfo /\ c \in new[h].FCustomerInfo => j = h
    BY <1>2, <1>3, OneHome DEF AtHome
  <2>9. opened \cap Clients(old) = {}
    <3> SUFFICES ASSUME NEW c \in opened, c \in Clients(old) PROVE FALSE
      OBVIOUS
    <3>1. PICK h \in DOMAIN old : c \in old[h].FCustomerInfo
      BY ClientsAre
    <3>2. PICK j \in added \cup newer :
            c \in new[j].FCustomerInfo /\ (j \in DOMAIN old => c \notin old[j].FCustomerInfo)
      BY <2>1, <2>2
    <3>3. j = h
      BY <2>1, <2>2, <2>8, <3>1, <3>2
    <3>4. QED
      BY <3>1, <3>2, <3>3
  <2>10. ASSUME NEW c \in Clients(net) PROVE c \in (Clients(old) \cup opened) \ closed
    <3>1. PICK j \in DOMAIN net : c \in net[j].FCustomerInfo /\ c \in Customers
      BY ClientsAre
    <3>2. CASE j \in added
      <4>1. c \in new[j].FCustomerInfo /\ j \in DOMAIN new /\ j \notin DOMAIN old
        BY <2>1, <2>4, <3>1, <3>2
      <4>2. c \in opened
        BY <2>2, <3>1, <3>2, <4>1
      <4>3. c \notin closed
        BY <2>1, <2>3, <2>8, <3>1, <4>1
      <4>4. QED
        BY <4>2, <4>3
    <3>3. CASE j \in newer
      <4>1. c \in new[j].FCustomerInfo /\ j \in DOMAIN new /\ j \in DOMAIN old /\ j \notin removed
        BY <2>1, <2>4, <3>1, <3>3
      <4>2. c \in Clients(old) \cup opened
        BY <2>2, <3>1, <3>3, <4>1, ClientsAre
      <4>3. ASSUME c \in closed PROVE FALSE
        <5>1. PICK h \in DOMAIN old : /\ c \in old[h].FCustomerInfo
                                      /\ h \in removed \/ (h \in newer /\ c \notin new[h].FCustomerInfo)
          BY <2>1, <2>3, <4>3
        <5>2. h = j
          BY <2>8, <3>1, <4>1, <5>1
        <5>3. QED
          BY <4>1, <5>1, <5>2
      <4>4. QED
        BY <4>2, <4>3
    <3>4. CASE j \notin added \cup newer
      <4>1. c \in old[j].FCustomerInfo /\ j \in DOMAIN old /\ j \notin removed
        BY <2>4, <3>1, <3>4
      <4>2. c \in Clients(old)
        BY <3>1, <4>1, ClientsAre
      <4>3. ASSUME c \in closed PROVE FALSE
        <5>1. PICK h \in DOMAIN old : c \in old[h].FCustomerInfo /\ h \in removed \cup newer
          BY <2>1, <2>3, <4>3
        <5>2. h = j
          BY <2>7, <3>1, <4>1, <5>1
        <5>3. QED
          BY <3>4, <4>1, <5>1, <5>2
      <4>4. QED
        BY <4>2, <4>3
    <3>5. QED
      BY <3>2, <3>3, <3>4
  <2>11. ASSUME NEW c \in (Clients(old) \cup opened) \ closed PROVE c \in Clients(net)
    <3>1. CASE c \in opened
      <4>1. PICK j \in added \cup newer : c \in new[j].FCustomerInfo /\ c \in Customers
        BY <2>2, <3>1
      <4>2. j \in DOMAIN net /\ net[j] = new[j]
        BY <2>1, <2>4
      <4>3. QED
        BY <4>1, <4>2, ClientsAre
    <3>2. CASE c \in Clients(old)
      <4>1. PICK j \in DOMAIN old : c \in old[j].FCustomerInfo /\ c \in Customers
        BY <3>2, ClientsAre
      <4>2. j \notin removed /\ (j \in newer => c \in new[j].FCustomerInfo)
        BY <2>3, <2>11, <4>1
      <4>3. j \in DOMAIN net /\ c \in net[j].FCustomerInfo
        BY <2>1, <2>4, <4>1, <4>2
      <4>4. QED
        BY <4>1, <4>3, ClientsAre
    <3>3. QED
      BY <2>11, <3>1, <3>2
  <2>12. Clients(net) = (Clients(old) \cup opened) \ closed
    BY <2>10, <2>11
  <2>13. taken[k][i].what # "diff" /\ old = FNet[k]
    BY <1>1 DEF old
  <2>14. Tells(k, i)
    BY <1>5, <2>5, <2>9, <2>12, <2>13, SynchronizeTells
  <2>15. QED
    BY <2>5, <2>6, <2>14
<1>6. QED
  BY <1>1, <1>4, <1>5
(* The operations of q make the customers b of the customers a.            *)
Leads(q, a, b) ==
  \E ss : /\ ss[0] = a /\ ss[Len(q)] = b
          /\ \A n \in 1 .. Len(q) : Turns(ss[n - 1], q[n], ss[n])

LEMMA LeadsOn ==
  ASSUME NEW T, NEW q \in Seq(T), NEW e \in T, NEW a, NEW b, NEW c,
         Leads(q, a, b), Turns(b, e, c)
  PROVE  Leads(Append(q, e), a, c)
<1>1. PICK ss : /\ ss[0] = a /\ ss[Len(q)] = b
                /\ \A n \in 1 .. Len(q) : Turns(ss[n - 1], q[n], ss[n])
  BY DEF Leads
<1> DEFINE N == Len(q)
           r == Append(q, e)
           tt == [n \in 0 .. N + 1 |-> IF n <= N THEN ss[n] ELSE c]
<1>2. /\ N \in Nat /\ Len(r) = N + 1 /\ r[N + 1] = e
      /\ \A n \in 1 .. N : r[n] = q[n]
  BY AppendProperties, LenProperties
<1> HIDE DEF r, N
<1>3. tt[0] = a /\ tt[N + 1] = c /\ tt[N] = b
  BY <1>1, <1>2 DEF N
<1>4. ASSUME NEW n \in 1 .. N + 1 PROVE Turns(tt[n - 1], r[n], tt[n])
  <2>1. CASE n = N + 1
    <3>1. n - 1 = N
      BY <1>2, <2>1
    <3>2. QED
      BY <1>2, <1>3, <2>1, <3>1
  <2>2. CASE n # N + 1
    <3>1. n \in 1 .. N /\ tt[n] = ss[n] /\ tt[n - 1] = ss[n - 1]
      BY <1>2, <2>2
    <3>2. QED
      BY <1>1, <1>2, <3>1 DEF N
  <2>3. QED
    BY <2>1, <2>2
<1> HIDE DEF tt
<1>5. QED
  BY <1>2, <1>3, <1>4 DEF Leads, r

LEMMA LeadsFirst ==
  ASSUME NEW T, NEW q \in Seq(T), q # <<>>, NEW a, NEW b, Leads(q, a, b)
  PROVE  \E c : Turns(a, Head(q), c) /\ Leads(Tail(q), c, b)
<1>1. PICK ss : /\ ss[0] = a /\ ss[Len(q)] = b
                /\ \A n \in 1 .. Len(q) : Turns(ss[n - 1], q[n], ss[n])
  BY DEF Leads
<1> DEFINE N == Len(q)
           r == Tail(q)
           tt == [n \in 0 .. N - 1 |-> ss[n + 1]]
<1>2. /\ N \in Nat \ {0} /\ Len(r) = N - 1 /\ Head(q) = q[1]
      /\ \A n \in 1 .. N - 1 : r[n] = q[n + 1]
  BY HeadTailProperties, LenProperties, EmptySeq
<1> HIDE DEF r, N
<1>3. 1 \in 1 .. N /\ 1 - 1 = 0
  BY <1>2
<1>4. Turns(a, Head(q), ss[1])
  BY <1>1, <1>2, <1>3 DEF N
<1>5. tt[0] = ss[1] /\ tt[N - 1] = b
  BY <1>1, <1>2 DEF N
<1>6. ASSUME NEW n \in 1 .. N - 1 PROVE Turns(tt[n - 1], r[n], tt[n])
  <2>1. n + 1 \in 1 .. N /\ (n + 1) - 1 = n /\ tt[n] = ss[n + 1] /\ tt[n - 1] = ss[n]
    BY <1>2
  <2>2. QED
    BY <1>1, <1>2, <2>1 DEF N
<1> HIDE DEF tt
<1>7. Leads(r, ss[1], b)
  BY <1>2, <1>5, <1>6 DEF Leads
<1>8. QED
  BY <1>4, <1>7 DEF r

(* Without a difference nothing changes.                                   *)
LEMMA LeadsNowhere ==
  ASSUME NEW T, NEW q \in Seq(T), NEW a, NEW b, Leads(q, a, b),
         \A n \in 1 .. Len(q) : q[n].what # "diff"
  PROVE  a = b
<1>1. PICK ss : /\ ss[0] = a /\ ss[Len(q)] = b
                /\ \A n \in 1 .. Len(q) : Turns(ss[n - 1], q[n], ss[n])
  BY DEF Leads
<1>2. Len(q) \in Nat
  BY LenProperties
<1> DEFINE S == {n \in Nat : n <= Len(q) => ss[n] = a}
<1>3. 0 \in S
  BY <1>1
<1>4. \A n \in Nat : n \in S => n + 1 \in S
  <2> SUFFICES ASSUME NEW n \in Nat, n \in S, n + 1 <= Len(q) PROVE ss[n + 1] = a
    OBVIOUS
  <2>1. n + 1 \in 1 .. Len(q) /\ (n + 1) - 1 = n /\ ss[n] = a
    BY <1>2
  <2>2. Turns(ss[n], q[n + 1], ss[n + 1])
    BY <1>1, <2>1
  <2>3. QED
    BY <2>1, <2>2 DEF Turns
<1> HIDE DEF S
<1>5. Len(q) \in S
  BY <1>2, <1>3, <1>4, InductionOverNat
<1>6. QED
  BY <1>1, <1>2, <1>5 DEF S

-----------------------------------------------------------------------------
(* With one thread the operations are applied in the order they were given *)
(* to the pool: what is left of them makes the customers of the records of *)
(* those the routing service has.                                          *)
Behind(k) ==
  /\ Len(taken[k]) <= 1
  /\ Leads(taken[k] \o events[k], FIds[k], Clients(FNet[k]))

OneByOne == DOMAIN FIds = Kernels /\ (world.threads = 1 => \A k \in Kernels : Behind(k))

LEMMA GivenFollows ==
  ASSUME Types, NEW k \in Kernels, Behind(k), NEW e \in Immediate, NEW c,
         events'[k] = Append(events[k], e), taken'[k] = taken[k], FIds'[k] = FIds[k],
         Clients(FNet'[k]) = c, Turns(Clients(FNet[k]), e, c)
  PROVE  Behind(k)'
<1> DEFINE q == taken[k] \o events[k]
<1>1. taken[k] \in Seq(Ops) /\ events[k] \in Seq(Ops) /\ e \in Ops
  <2>1. events[k] \in Seq(Immediate) /\ Immediate \subseteq Ops
    BY DEF Types, Ops
  <2>2. QED
    BY <2>1 DEF Types
<1>2. q \in Seq(Ops) /\ taken[k] \o Append(events[k], e) = Append(q, e)
  <2>1. q \in Seq(Ops)
    BY <1>1, ConcatProperties
  <2>2. PICK s \in Seq(Ops), t \in Seq(Ops) : s = taken[k] /\ t = events[k]
    BY <1>1
  <2>3. s \o Append(t, e) = Append(s \o t, e)
    BY <1>1, AppendToRow
  <2>4. QED
    BY <2>1, <2>2, <2>3
<1>3. Leads(q, FIds[k], Clients(FNet[k]))
  BY DEF Behind
<1> HIDE DEF q
<1>4. Leads(Append(q, e), FIds[k], c)
  BY <1>1, <1>2, <1>3, LeadsOn
<1>5. QED
  BY <1>2, <1>4 DEF Behind, Clients

(* The only operation a thread has taken is the first one.                 *)
LEMMA FirstIsTaken ==
  ASSUME Types, NEW k \in Kernels, Behind(k), NEW i \in 1 .. Len(taken[k])
  PROVE  /\ taken[k] \o events[k] \in Seq(Ops) /\ taken[k] \o events[k] # <<>>
         /\ Head(taken[k] \o events[k]) = taken[k][i]
         /\ Tail(taken[k] \o events[k]) = events[k]
         /\ Without(taken[k], i) = <<>>
<1> DEFINE s == taken[k]
           t == events[k]
<1>1. s \in Seq(Ops) /\ t \in Seq(Ops) /\ t \in Seq(Immediate)
  <2>1. t \in Seq(Immediate) /\ Immediate \subseteq Ops
    BY DEF Types, Ops
  <2>2. QED
    BY <2>1 DEF Types
<1>2. Len(s) = 1 /\ i = 1
  <2>1. Len(s) <= 1 /\ i \in 1 .. Len(s)
    BY DEF Behind
  <2>2. PICK n \in Nat : n = Len(s)
    BY <1>1, LenProperties
  <2>3. n <= 1 /\ i \in 1 .. n
    BY <2>1, <2>2
  <2>4. n = 1 /\ i = 1
    BY <2>3
  <2>5. QED
    BY <2>2, <2>4
<1>3. Without(s, i) = <<>>
  <2>1. Without(s, i) \in Seq(Ops) /\ Len(Without(s, i)) = Len(s) - 1
    BY <1>1, ClearIs
  <2>2. Len(Without(s, i)) = 0
    BY <1>2, <2>1
  <2>3. QED
    BY <2>1, <2>2, EmptySeq
<1>4. s # <<>> /\ Head(s) = s[i] /\ Tail(s) = <<>>
  <2>1. s # <<>>
    BY <1>2, EmptySeq
  <2>2. Head(s) = s[1] /\ Tail(s) \in Seq(Ops) /\ Len(Tail(s)) = Len(s) - 1
    BY <1>1, <2>1, HeadTailProperties
  <2>3. Len(Tail(s)) = 0
    BY <1>2, <2>2
  <2>4. Tail(s) = <<>>
    BY <2>2, <2>3, EmptySeq
  <2>5. QED
    BY <1>2, <2>1, <2>2, <2>4
<1>5. s \o t # <<>> /\ Head(s \o t) = Head(s) /\ Tail(s \o t) = Tail(s) \o t
  BY <1>1, <1>4, TakeFromRow
<1>6. s \o t \in Seq(Ops) /\ <<>> \o t = t
  BY <1>1, ConcatProperties, ConcatEmptySeq
<1>7. QED
  BY <1>3, <1>4, <1>5, <1>6

(* The operation is done.                                                  *)
LEMMA DoneFollows ==
  ASSUME Types, NEW k \in Kernels, Behind(k), NEW i \in 1 .. Len(taken[k]), NEW c,
         taken' = [taken EXCEPT ![k] = Without(@, i)], events' = events,
         FIds'[k] = c, Turns(FIds[k], taken[k][i], c), Clients(FNet'[k]) = Clients(FNet[k])
  PROVE  Behind(k)'
<1> DEFINE q == taken[k] \o events[k]
<1>1. /\ q \in Seq(Ops) /\ q # <<>> /\ Head(q) = taken[k][i]
      /\ Tail(q) = events[k] /\ Without(taken[k], i) = <<>>
  BY FirstIsTaken
<1>2. Leads(q, FIds[k], Clients(FNet[k]))
  BY DEF Behind
<1> HIDE DEF q
<1>3. PICK d : Turns(FIds[k], Head(q), d) /\ Leads(Tail(q), d, Clients(FNet[k]))
  BY <1>1, <1>2, LeadsFirst
<1>4. d = c
  BY <1>1, <1>3 DEF Turns
<1>5. taken'[k] = <<>> /\ events'[k] = events[k]
  BY <1>1 DEF Types
<1>6. taken'[k] \o events'[k] = Tail(q) /\ Len(taken'[k]) <= 1
  <2>1. events[k] \in Seq(Immediate)
    BY DEF Types
  <2>2. <<>> \o events[k] = events[k]
    BY <2>1, ConcatEmptySeq
  <2>3. Len(<<>>) <= 1
    OBVIOUS
  <2>4. taken'[k] \o events'[k] = events[k]
    BY <1>5, <2>2
  <2>5. QED
    BY <1>1, <1>5, <2>3, <2>4
<1>7. QED
  BY <1>3, <1>4, <1>6 DEF Behind, Clients

(* A handler is done and has told the pool what has changed.               *)
LEMMA ToldFollows ==
  ASSUME Types, NEW k \in Kernels, Behind(k), NEW i \in 1 .. Len(taken[k]), Tells(k, i)
  PROVE  Behind(k)'
<1>1. /\ taken[k][i].what # "diff" /\ FIds' = FIds
      /\ taken' = [taken EXCEPT ![k] = Without(@, i)]
  BY DEF Tells
<1>2. Turns(FIds[k], taken[k][i], FIds[k])
  BY <1>1 DEF Turns
<1>3. CASE events' = events /\ Clients(FNet'[k]) = Clients(FNet[k])
  BY <1>1, <1>2, <1>3, DoneFollows
<1>4. ASSUME NEW opened \in SUBSET Programs, NEW closed \in SUBSET Programs,
             events' = [events EXCEPT ![k] = Append(@, Diff(opened, closed))],
             Turns(Clients(FNet[k]), Diff(opened, closed), Clients(FNet'[k]))
      PROVE  Behind(k)'
  <2> DEFINE q == taken[k] \o events[k]
             e == Diff(opened, closed)
  <2>1. /\ q \in Seq(Ops) /\ q # <<>> /\ Head(q) = taken[k][i]
        /\ Tail(q) = events[k] /\ Without(taken[k], i) = <<>>
    BY FirstIsTaken
  <2>2. Leads(q, FIds[k], Clients(FNet[k]))
    BY DEF Behind
  <2> HIDE DEF q
  <2>3. PICK d : Turns(FIds[k], Head(q), d) /\ Leads(Tail(q), d, Clients(FNet[k]))
    BY <2>1, <2>2, LeadsFirst
  <2>4. d = FIds[k]
    BY <1>1, <2>1, <2>3 DEF Turns
  <2>5. e \in Immediate /\ events[k] \in Seq(Immediate)
    BY OpsAre DEF Types
  <2>6. Append(events[k], e) \in Seq(Immediate)
    BY <2>5, AppendProperties
  <2> HIDE DEF e
  <2>7. Leads(Append(events[k], e), FIds[k], Clients(FNet'[k]))
    <3>1. Turns(Clients(FNet[k]), e, Clients(FNet'[k])) /\ Leads(events[k], FIds[k], Clients(FNet[k]))
      BY <1>4, <2>1, <2>3, <2>4 DEF e
    <3>2. QED
      BY <2>5, <3>1, LeadsOn
  <2>8. taken'[k] = <<>> /\ events'[k] = Append(events[k], e)
    BY <1>1, <1>4, <2>1 DEF Types, e
  <2>9. taken'[k] \o events'[k] = Append(events[k], e) /\ Len(taken'[k]) <= 1
    <3>1. <<>> \o Append(events[k], e) = Append(events[k], e)
      BY <2>6, ConcatEmptySeq
    <3>2. Len(<<>>) = 0
      BY EmptySeq
    <3>3. QED
      BY <2>8, <3>1, <3>2
  <2>10. QED
    BY <1>1, <2>7, <2>9 DEF Behind, Clients
<1>5. QED
  BY <1>3, <1>4 DEF Tells

(* A thread takes the next operation.                                      *)
LEMMA TakenFollows ==
  ASSUME Types, NEW k \in Kernels, Behind(k), Len(taken[k]) < 1,
         TakeEvent(k) \/ \E l \in LinksOf(k) : TakeInfo(k, l)
  PROVE  Behind(k)'
<1> DEFINE s == taken[k]
           t == events[k]
<1>1. FIds' = FIds /\ FNet' = FNet
  BY DEF TakeEvent, TakeInfo, infoVars
<1>2. s \in Seq(Ops) /\ t \in Seq(Ops) /\ t \in Seq(Immediate)
  <2>1. t \in Seq(Immediate) /\ Immediate \subseteq Ops
    BY DEF Types, Ops
  <2>2. QED
    BY <2>1 DEF Types
<1>3. s = <<>>
  <2>1. Len(s) \in Nat
    BY <1>2, LenProperties
  <2>2. Len(s) = 0
    BY <2>1
  <2>3. QED
    BY <1>2, <2>2, EmptySeq
<1>4. Leads(s \o t, FIds[k], Clients(FNet[k]))
  BY DEF Behind
<1>5. ASSUME NEW e, taken' = [taken EXCEPT ![k] = Append(@, e)]
      PROVE  taken'[k] = Append(s, e) /\ Len(taken'[k]) <= 1
  <2>1. taken'[k] = Append(s, e)
    BY <1>5 DEF Types
  <2>2. Len(Append(<<>>, e)) = 1
    OBVIOUS
  <2>3. QED
    BY <1>3, <2>1, <2>2
<1>6. CASE TakeEvent(k)
  <2>1. /\ t # <<>> /\ events' = [events EXCEPT ![k] = Tail(@)]
        /\ taken' = [taken EXCEPT ![k] = Append(@, Head(t))]
    BY <1>6 DEF TakeEvent
  <2>2. Append(s, Head(t)) \o Tail(t) = s \o t
    BY <1>2, <2>1, MoveAlongRow
  <2>3. events'[k] = Tail(t)
    BY <2>1 DEF Types
  <2>4. taken'[k] \o events'[k] = s \o t /\ Len(taken'[k]) <= 1
    BY <1>5, <2>1, <2>2, <2>3
  <2>5. QED
    BY <1>1, <1>4, <2>4 DEF Behind, Clients
<1>7. ASSUME NEW l \in LinksOf(k), TakeInfo(k, l) PROVE Behind(k)'
  <2> DEFINE e == Info(l, Head(infos[k][l]))
  <2>1. /\ t = <<>> /\ events' = events /\ infos[k][l] # <<>>
        /\ taken' = [taken EXCEPT ![k] = Append(@, e)]
    BY <1>7 DEF TakeInfo
  <2>2. e \in Ops /\ e.what # "diff"
    <3>1. infos[k][l] \in Seq(Nets)
      BY DEF Types, LettersType
    <3>2. Head(infos[k][l]) \in Nets
      BY <2>1, <3>1, ShrunkQueue
    <3>3. QED
      BY <3>2, LinksAre, OpsAre DEF Info
  <2> HIDE DEF e
  <2>3. Turns(Clients(FNet[k]), e, Clients(FNet[k]))
    BY <2>2 DEF Turns
  <2>4. <<>> \in Seq(Ops) /\ <<>> \o <<>> = <<>>
    BY EmptySeq, ConcatEmptySeq
  <2>5. Leads(<<>>, FIds[k], Clients(FNet[k]))
    BY <1>3, <1>4, <2>1, <2>4
  <2>6. Leads(Append(<<>>, e), FIds[k], Clients(FNet[k]))
    BY <2>2, <2>3, <2>4, <2>5, LeadsOn
  <2>7. Append(<<>>, e) \o <<>> = Append(<<>>, e)
    <3>1. Append(<<>>, e) \in Seq(Ops)
      BY <2>2, <2>4, AppendProperties
    <3>2. QED
      BY <3>1, ConcatEmptySeq
  <2>8. taken'[k] = Append(<<>>, e) /\ events'[k] = <<>> /\ Len(taken'[k]) <= 1
    BY <1>3, <1>5, <2>1
  <2>9. QED
    BY <1>1, <2>6, <2>7, <2>8 DEF Behind, Clients
<1>8. QED
  BY <1>6, <1>7
(* The steps of a kernel keep its customers at home.                       *)
LEMMA StepKeepsHomes ==
  ASSUME Types, Known, Homes, NEW k \in Kernels, StepOf(k), NetsMove(k)
  PROVE  Homes'
<1>1. /\ \A p \in Kernels : events[p] \in Seq(OpsOf(p)) /\ taken[p] \in Seq(OpsOf(p))
      /\ events \in [Kernels -> Seq(Immediate)] /\ taken \in [Kernels -> Seq(Ops)]
      /\ FNet[k] \in AllNets
  BY OwnNetIsCopy DEF Homes, Types
<1>2. \A e \in Immediate : (e.what \in {"open", "close"} => k \in Ends[e.id]) => e \in OpsOf(k)
  BY OpsAre DEF OpsOf
<1>3. ASSUME AtHome(FNet'[k]) PROVE \A net \in AllNets' : AtHome(net)
  <2> SUFFICES ASSUME NEW net \in AllNets' PROVE AtHome(net)
    OBVIOUS
  <2>1. PICK mine : mine = FNet'[k]
    OBVIOUS
  <2>2. AtHome(mine)
    BY <1>3, <2>1 DEF AtHome
  <2>3. net \in AllNets \/ net = mine
    BY <2>1 DEF NetsMove
  <2>4. QED
    BY <2>2, <2>3 DEF Homes
<1>4. FNet' = FNet => AtHome(FNet'[k])
  BY <1>1 DEF Homes
<1>5. ASSUME NEW u \in Seq(OpsOf(k)), NEW v \in Seq(OpsOf(k)), AtHome(FNet'[k]),
             events'[k] = u, taken'[k] = v,
             \A p \in Kernels \ {k} : events'[p] = events[p] /\ taken'[p] = taken[p]
      PROVE  Homes'
  <2>1. \A net \in AllNets' : AtHome(net)
    BY <1>3, <1>5
  <2>2. \A p \in Kernels : events'[p] \in Seq(OpsOf(p)) /\ taken'[p] \in Seq(OpsOf(p))
    BY <1>1, <1>5
  <2>3. QED
    BY <2>1, <2>2 DEF Homes, AtHome, OpsOf
<1>6. ASSUME NEW l \in LinksOf(k), MOpen(k, l) \/ MClose(k, l) PROVE Homes'
  <2>1. l \in Links /\ k \in Ends[l]
    BY LinksAre DEF LinksOf
  <2>2. Open(l) \in OpsOf(k) /\ Close(l) \in OpsOf(k)
    BY <1>2, <2>1, OpsAre DEF Open, Close
  <2>3. /\ FNet' = FNet /\ taken' = taken
        /\ events' = events \/ \E e \in OpsOf(k) : events' = [events EXCEPT ![k] = Append(@, e)]
    BY <1>6, <2>2 DEF MOpen, MClose, infoVars
  <2>4. \A e \in OpsOf(k) : Append(events[k], e) \in Seq(OpsOf(k))
    BY <1>1, AppendProperties
  <2>5. PICK u : u = events'[k]
    OBVIOUS
  <2>6. u \in Seq(OpsOf(k))
    BY <1>1, <2>3, <2>4, <2>5
  <2>7. \A p \in Kernels \ {k} : events'[p] = events[p]
    BY <1>1, <2>3
  <2>8. QED
    BY <1>1, <1>4, <1>5, <2>3, <2>5, <2>6, <2>7
<1>7. CASE TakeEvent(k)
  <2>1. /\ events[k] # <<>> /\ events' = [events EXCEPT ![k] = Tail(@)] /\ FNet' = FNet
        /\ taken' = [taken EXCEPT ![k] = Append(@, Head(events[k]))]
    BY <1>7 DEF TakeEvent, infoVars
  <2>2. Head(events[k]) \in OpsOf(k) /\ Tail(events[k]) \in Seq(OpsOf(k))
    BY <1>1, <2>1, HeadTailProperties
  <2>3. Append(taken[k], Head(events[k])) \in Seq(OpsOf(k))
    BY <1>1, <2>2, AppendProperties
  <2>4. /\ events'[k] = Tail(events[k]) /\ taken'[k] = Append(taken[k], Head(events[k]))
        /\ \A p \in Kernels \ {k} : events'[p] = events[p] /\ taken'[p] = taken[p]
    BY <1>1, <2>1
  <2>5. QED
    BY <1>4, <1>5, <2>1, <2>2, <2>3, <2>4
<1>8. ASSUME NEW l \in LinksOf(k), TakeInfo(k, l) PROVE Homes'
  <2> DEFINE e == Info(l, Head(infos[k][l]))
  <2>1. /\ events' = events /\ infos[k][l] # <<>> /\ FNet' = FNet
        /\ taken' = [taken EXCEPT ![k] = Append(@, e)]
    BY <1>8 DEF TakeInfo, infoVars
  <2>2. e \in OpsOf(k)
    <3>1. infos[k][l] \in Seq(Nets)
      BY DEF Types, LettersType
    <3>2. Head(infos[k][l]) \in Nets
      BY <2>1, <3>1, ShrunkQueue
    <3>3. e \in Ops /\ e.what = "info"
      BY <3>2, LinksAre, OpsAre DEF Info
    <3>4. QED
      BY <3>3 DEF OpsOf
  <2> HIDE DEF e
  <2>3. Append(taken[k], e) \in Seq(OpsOf(k))
    BY <1>1, <2>2, AppendProperties
  <2>4. /\ events'[k] = events[k] /\ taken'[k] = Append(taken[k], e)
        /\ \A p \in Kernels \ {k} : events'[p] = events[p] /\ taken'[p] = taken[p]
    BY <1>1, <2>1
  <2>5. QED
    BY <1>1, <1>4, <1>5, <2>1, <2>3, <2>4
<1>9. ASSUME NEW i \in 1 .. Len(taken[k]),
             MHandleOpen(k, i) \/ MHandleClose(k, i) \/ MHandle(k, i) \/ MHandleDiff(k, i)
      PROVE  Homes'
  <2>1. /\ AtHome(FNet'[k]) /\ taken' = [taken EXCEPT ![k] = Without(@, i)]
        /\ \/ events' = events
           \/ \E opened, closed \in SUBSET Programs :
                events' = [events EXCEPT ![k] = Append(@, Diff(opened, closed))]
    <3>1. CASE MHandleDiff(k, i)
      <4>1. FNet' = FNet
        BY <3>1 DEF MHandleDiff, infoVars
      <4>2. QED
        BY <1>4, <3>1, <4>1 DEF MHandleDiff
    <3>2. CASE MHandleOpen(k, i) \/ MHandleClose(k, i) \/ MHandle(k, i)
      <4>1. Tells(k, i) /\ AtHome(FNet'[k])
        BY <3>2, OpenTells, CloseTells, HandleTells
      <4>2. QED
        BY <4>1 DEF Tells
    <3>3. QED
      BY <1>9, <3>1, <3>2
  <2>2. Without(taken[k], i) \in Seq(OpsOf(k))
    BY <1>1, ClearIs
  <2>3. \A opened, closed \in SUBSET Programs : Diff(opened, closed) \in OpsOf(k)
    BY <1>2, OpsAre DEF Diff
  <2>4. events' = events \/ \E e \in OpsOf(k) : events' = [events EXCEPT ![k] = Append(@, e)]
    BY <2>1, <2>3
  <2>5. \A e \in OpsOf(k) : Append(events[k], e) \in Seq(OpsOf(k))
    BY <1>1, AppendProperties
  <2>6. PICK u : u = events'[k]
    OBVIOUS
  <2>7. u \in Seq(OpsOf(k))
    BY <1>1, <2>4, <2>5, <2>6
  <2>8. /\ taken'[k] = Without(taken[k], i)
        /\ \A p \in Kernels \ {k} : events'[p] = events[p] /\ taken'[p] = taken[p]
    BY <1>1, <2>1, <2>4
  <2>9. QED
    BY <1>5, <2>1, <2>2, <2>6, <2>7, <2>8
<1>10. ASSUME NEW to, MNextDestinations(k, to) PROVE Homes'
  <2>1. FNet' = FNet /\ events' = events /\ taken' = taken
    BY <1>10 DEF MNextDestinations
  <2>2. QED
    BY <1>1, <1>4, <1>5, <2>1
<1>11. QED
  BY <1>6, <1>7, <1>8, <1>9, <1>10 DEF StepOf, Apply

(* One thread keeps the order.                                             *)
LEMMA StepKeepsBehind ==
  ASSUME Types, Known, Homes, NEW k \in Kernels, StepOf(k), world.threads = 1,
         Behind(k), DOMAIN FIds = Kernels
  PROVE  Behind(k)'
<1>1. ASSUME NEW l \in LinksOf(k), MOpen(k, l) \/ MClose(k, l) PROVE Behind(k)'
  <2>1. Open(l) \in Immediate /\ Close(l) \in Immediate
    BY LinksAre, OpsAre
  <2>2. \A e \in {Open(l), Close(l)} : Turns(Clients(FNet[k]), e, Clients(FNet[k]))
    BY DEF Turns, Open, Close
  <2>3. /\ FNet' = FNet /\ taken' = taken /\ FIds' = FIds
        /\ events' = events \/ \E e \in {Open(l), Close(l)} : events' = [events EXCEPT ![k] = Append(@, e)]
    BY <1>1 DEF MOpen, MClose, infoVars
  <2>4. CASE events' = events
    BY <2>3, <2>4 DEF Behind, Clients
  <2>5. ASSUME NEW e \in {Open(l), Close(l)}, events' = [events EXCEPT ![k] = Append(@, e)]
        PROVE  Behind(k)'
    <3>1. events'[k] = Append(events[k], e) /\ e \in Immediate
      BY <2>1, <2>5 DEF Types
    <3>2. Turns(Clients(FNet[k]), e, Clients(FNet[k])) /\ Clients(FNet'[k]) = Clients(FNet[k])
      BY <2>2, <2>3
    <3>3. QED
      BY <2>3, <3>1, <3>2, GivenFollows
  <2>6. QED
    BY <2>3, <2>4, <2>5
<1>2. ASSUME TakeEvent(k) \/ \E l \in LinksOf(k) : TakeInfo(k, l) PROVE Behind(k)'
  <2>1. Len(taken[k]) < 1
    BY <1>2 DEF TakeEvent, TakeInfo
  <2>2. QED
    BY <1>2, <2>1, TakenFollows
<1>3. ASSUME NEW i \in 1 .. Len(taken[k]), MHandleOpen(k, i) \/ MHandleClose(k, i) \/ MHandle(k, i)
      PROVE  Behind(k)'
  <2>1. Tells(k, i)
    BY <1>3, OpenTells, CloseTells, HandleTells
  <2>2. QED
    BY <2>1, ToldFollows
<1>4. ASSUME NEW i \in 1 .. Len(taken[k]), MHandleDiff(k, i) PROVE Behind(k)'
  <2> DEFINE d == taken[k][i]
  <2>1. /\ d.what = "diff" /\ taken' = [taken EXCEPT ![k] = Without(@, i)] /\ events' = events
        /\ FNet' = FNet
        /\ IF d.opened \cap FIds[k] = {}
             THEN FIds' = [FIds EXCEPT ![k] = (@ \cup d.opened) \ d.closed]
             ELSE FIds' = FIds
    BY <1>4 DEF MHandleDiff, infoVars
  <2>2. PICK c : c = FIds'[k]
    OBVIOUS
  <2>3. Turns(FIds[k], d, c)
    <3>1. PICK b : Turns(FIds[k], d, b)
      <4>1. taken[k] \o events[k] \in Seq(Ops) /\ taken[k] \o events[k] # <<>>
            /\ Head(taken[k] \o events[k]) = taken[k][i]
        BY FirstIsTaken
      <4>2. Leads(taken[k] \o events[k], FIds[k], Clients(FNet[k]))
        BY DEF Behind
      <4>3. \E b : Turns(FIds[k], Head(taken[k] \o events[k]), b)
        BY <4>1, <4>2, LeadsFirst
      <4>4. QED
        BY <4>1, <4>3
    <3>2. CASE d.opened \cap FIds[k] = {}
      <4>1. c = (FIds[k] \cup d.opened) \ d.closed
        BY <2>1, <2>2, <3>2
      <4>2. QED
        BY <2>1, <3>2, <4>1 DEF Turns
    <3>3. CASE d.opened \cap FIds[k] # {}
      <4>1. c = FIds[k] /\ b = FIds[k]
        BY <2>1, <2>2, <3>1, <3>3 DEF Turns
      <4>2. QED
        BY <3>1, <4>1
    <3>4. QED
      BY <3>2, <3>3
  <2>4. Clients(FNet'[k]) = Clients(FNet[k]) /\ FIds'[k] = c
    BY <2>1, <2>2
  <2>5. QED
    BY <2>1, <2>3, <2>4, DoneFollows
<1>5. ASSUME NEW to, MNextDestinations(k, to) PROVE Behind(k)'
  <2>1. FNet' = FNet /\ events' = events /\ taken' = taken /\ FIds' = FIds
    BY <1>5 DEF MNextDestinations
  <2>2. QED
    BY <2>1 DEF Behind, Clients
<1>6. QED
  BY <1>1, <1>2, <1>3, <1>4, <1>5 DEF StepOf, Apply

LEMMA OthersStayBehind ==
  ASSUME Types, NEW k \in Kernels, StepOf(k), DOMAIN FIds = Kernels
  PROVE  /\ DOMAIN FIds' = Kernels /\ world' = world
         /\ \A p \in Kernels \ {k} : Behind(p) => Behind(p)'
<1>1. /\ DOMAIN FIds' = Kernels /\ world' = world
      /\ \A p \in Kernels \ {k} : /\ FNet'[p] = FNet[p] /\ FIds'[p] = FIds[p]
                                  /\ events'[p] = events[p] /\ taken'[p] = taken[p]
  <2>1. ASSUME NEW l \in LinksOf(k), MOpen(k, l) \/ MClose(k, l) \/ TakeInfo(k, l) PROVE <1>1
    BY <2>1 DEF MOpen, MClose, TakeInfo, infoVars, Types
  <2>2. CASE TakeEvent(k)
    BY <2>2 DEF TakeEvent, infoVars, Types
  <2>3. ASSUME NEW i \in 1 .. Len(taken[k]), MHandleDiff(k, i) PROVE <1>1
    BY <2>3 DEF MHandleDiff, infoVars, Types
  <2>4. ASSUME NEW i \in 1 .. Len(taken[k]), MHandleOpen(k, i) PROVE <1>1
    BY <2>4 DEF MHandleOpen, MSynchronize, Types
  <2>5. ASSUME NEW i \in 1 .. Len(taken[k]), MHandleClose(k, i) PROVE <1>1
    BY <2>5 DEF MHandleClose, MSynchronize, Types
  <2>6. ASSUME NEW i \in 1 .. Len(taken[k]), MHandle(k, i) PROVE <1>1
    BY <2>6 DEF MHandle, MSynchronize, Types
  <2>7. ASSUME NEW to, MNextDestinations(k, to) PROVE <1>1
    BY <2>7 DEF MNextDestinations, Types
  <2>8. QED
    BY <2>1, <2>2, <2>3, <2>4, <2>5, <2>6, <2>7 DEF StepOf, Apply
<1>2. QED
  BY <1>1 DEF Behind, Clients

(* With one thread the routing service has, once the differences have been *)
(* applied, exactly the customers of the records of its kernel, although   *)
(* MHandleOpen, MHandleClose and MHandle only tell it what has changed.    *)
THEOREM ClientsMatchNetHolds == Spec => []ClientsMatchNet
<1>1. Init => Homes /\ OneByOne
  <2> SUFFICES ASSUME Init PROVE Homes /\ OneByOne
    OBVIOUS
  <2>1. \A k \in Kernels : /\ events[k] = <<>> /\ taken[k] = <<>> /\ FIds[k] = {}
                           /\ FNet[k] = [i \in {k} |-> Record({}, 0)]
    BY DEF Init
  <2>2. Record({}, 0).FCustomerInfo = {}
    BY DEF Record
  <2>3. \A k \in Kernels : AtHome(FNet[k]) /\ Clients(FNet[k]) = {}
    <3> SUFFICES ASSUME NEW k \in Kernels PROVE AtHome(FNet[k]) /\ Clients(FNet[k]) = {}
      OBVIOUS
    <3>1. \A j \in DOMAIN FNet[k] : FNet[k][j].FCustomerInfo = {}
      BY <2>1, <2>2
    <3>2. \A c : c \notin Clients(FNet[k])
      BY <3>1, ClientsAre
    <3>3. AtHome(FNet[k])
      BY <3>1 DEF AtHome
    <3>4. QED
      BY <3>2, <3>3
  <2>4. \A k \in Kernels : \A net \in NetsAt(k) : net = FNet[k]
    <3>1. ASSUME NEW k \in Kernels, NEW l \in LinksOf(k) PROVE infos[k][l] = <<>>
      BY DEF Init
    <3>2. ASSUME NEW k \in Kernels, NEW net PROVE ~InLetters(k, net) /\ ~InTaken(k, net)
      <4>1. \A n : n \notin 1 .. Len(<<>>)
        OBVIOUS
      <4>2. ~InLetters(k, net)
        BY <3>1, <4>1, Zenon DEF InLetters
      <4>3. ~InTaken(k, net)
        BY <2>1, <4>1, Zenon DEF InTaken
      <4>4. QED
        BY <4>2, <4>3
    <3>3. QED
      BY <3>2, NetsAtAre
  <2>5. \A net \in AllNets : AtHome(net)
    BY <2>3, <2>4 DEF AllNets
  <2>6. Homes
    BY <2>1, <2>5, EmptySeq DEF Homes
  <2>7. \A k \in Kernels : Behind(k)
    <3> SUFFICES ASSUME NEW k \in Kernels PROVE Behind(k)
      OBVIOUS
    <3>1. <<>> \o <<>> = <<>> /\ Len(<<>>) = 0
      OBVIOUS
    <3> DEFINE ss == [n \in {0} |-> {}]
    <3>2. ss[0] = {} /\ \A n \in 1 .. 0 : Turns(ss[n - 1], <<>>[n], ss[n])
      OBVIOUS
    <3> HIDE DEF ss
    <3>3. Leads(<<>>, {}, {})
      BY <3>1, <3>2 DEF Leads
    <3>4. /\ taken[k] \o events[k] = <<>> /\ Len(taken[k]) = 0
          /\ FIds[k] = {} /\ Clients(FNet[k]) = {}
      BY <2>1, <2>3, <3>1, Zenon
    <3>5. Leads(taken[k] \o events[k], FIds[k], Clients(FNet[k]))
      BY <3>3, <3>4, Zenon
    <3>6. QED
      BY <3>4, <3>5 DEF Behind
  <2>8. QED
    BY <2>6, <2>7 DEF OneByOne, Init
<1>2. IInv /\ Homes /\ OneByOne /\ [Next]_vars => Homes' /\ OneByOne'
  <2> SUFFICES ASSUME IInv, Homes, OneByOne, [Next]_vars PROVE Homes' /\ OneByOne'
    OBVIOUS
  <2>1. CASE Next
    <3>1. PICK k \in Kernels : StepOf(k)
      BY <2>1, NextIsAStep DEF IInv
    <3>2. Moves(k)
      BY <3>1, StepMoves, VersionsAreNewest DEF IInv
    <3>3. Homes'
      BY <3>1, <3>2, StepKeepsHomes DEF IInv, Moves
    <3>4. /\ DOMAIN FIds' = Kernels /\ world' = world
          /\ \A p \in Kernels \ {k} : Behind(p) => Behind(p)'
      BY <3>1, OthersStayBehind DEF IInv, OneByOne
    <3>5. world.threads = 1 => Behind(k)'
      BY <3>1, StepKeepsBehind DEF IInv, OneByOne
    <3>6. QED
      BY <3>3, <3>4, <3>5 DEF OneByOne
  <2>2. CASE UNCHANGED vars
    <3>1. UNCHANGED <<world, FNet, FIds, events, infos, taken>>
      BY <2>2 DEF vars, infoVars
    <3>2. AllNets' = AllNets
      BY <3>1 DEF AllNets, NetsAt, LinksOf
    <3>3. Homes'
      BY <3>1, <3>2 DEF Homes, AtHome, OpsOf
    <3>4. OneByOne'
      BY <3>1 DEF OneByOne, Behind, Clients
    <3>5. QED
      BY <3>3, <3>4
  <2>3. QED
    BY <2>1, <2>2
<1>3. IInv /\ OneByOne => ClientsMatchNet
  <2> SUFFICES ASSUME IInv, OneByOne, world.threads = 1, NEW k \in Kernels, ~Pending(k, {"diff"})
               PROVE  FIds[k] = Clients(FNet[k])
    BY DEF ClientsMatchNet, Clients
  <2> DEFINE s == taken[k]
             t == events[k]
             q == s \o t
  <2>1. s \in Seq(Ops) /\ t \in Seq(Ops)
    <3>1. t \in Seq(Immediate) /\ Immediate \subseteq Ops
      BY DEF IInv, Types, Ops
    <3>2. QED
      BY <3>1 DEF IInv, Types
  <2>2. (\A n \in 1 .. Len(s) : s[n].what # "diff") /\ (\A n \in 1 .. Len(t) : t[n].what # "diff")
    BY DEF Pending
  <2>3. Leads(q, FIds[k], Clients(FNet[k]))
    BY DEF OneByOne, Behind
  <2> HIDE DEF s, t
  <2>4. /\ q \in Seq(Ops) /\ Len(q) = Len(s) + Len(t) /\ Len(s) \in Nat /\ Len(t) \in Nat
        /\ \A n \in 1 .. Len(s) + Len(t) : q[n] = IF n <= Len(s) THEN s[n] ELSE t[n - Len(s)]
    BY <2>1, ConcatProperties, LenProperties
  <2> HIDE DEF q
  <2>5. ASSUME NEW n \in 1 .. Len(q) PROVE q[n].what # "diff"
    <3>1. CASE n <= Len(s)
      BY <2>2, <2>4, <3>1
    <3>2. CASE ~(n <= Len(s))
      <4>1. n - Len(s) \in 1 .. Len(t) /\ q[n] = t[n - Len(s)]
        BY <2>4, <3>2
      <4>2. QED
        BY <2>2, <4>1
    <3>3. QED
      BY <3>1, <3>2
  <2>6. QED
    BY <2>3, <2>4, <2>5, LeadsNowhere
<1>4. QED
  BY <1>1, <1>2, <1>3, Invariance, PTL DEF Spec

-----------------------------------------------------------------------------
(* Ways through a net of kernels.  The kernels that a set of links joins   *)
(* with one are joined with each other, and no link leaves the set.        *)
KernelNetLinks(kl) == kl \subseteq Links /\ \A l \in kl : Ends[l] \subseteq Kernels

(* No link leads out of S.                                                 *)
ClosedBy(kl, S) == \A l \in kl : Ends[l] \cap S # {} => Ends[l] \subseteq S

LEMMA JoinedAre ==
  ASSUME NEW kl, KernelNetLinks(kl), NEW k \in Kernels
  PROVE  /\ ConnectedBy(kl, k) \subseteq Kernels /\ k \in ConnectedBy(kl, k)
         /\ ClosedBy(kl, ConnectedBy(kl, k))
         /\ \A S \in SUBSET Kernels : k \in S /\ ClosedBy(kl, S) => ConnectedBy(kl, k) \subseteq S
<1>1. /\ ConnectedBy(kl, k) \subseteq Kernels /\ k \in ConnectedBy(kl, k)
      /\ \A S \in SUBSET Kernels : k \in S /\ ClosedBy(kl, S) => ConnectedBy(kl, k) \subseteq S
  BY DEF ConnectedBy, ClosedBy
<1>2. ASSUME NEW l \in kl, NEW i \in Ends[l], i \in ConnectedBy(kl, k), NEW j \in Ends[l]
      PROVE  j \in ConnectedBy(kl, k)
  <2>1. j \in Kernels
    BY DEF KernelNetLinks
  <2>2. ASSUME NEW S \in SUBSET Kernels, k \in S, ClosedBy(kl, S) PROVE j \in S
    BY <1>1, <1>2, <2>2 DEF ClosedBy
  <2>3. QED
    BY <2>1, <2>2 DEF ConnectedBy, ClosedBy
<1>3. QED
  BY <1>1, <1>2 DEF ClosedBy

LEMMA JoinedBack ==
  ASSUME NEW kl, KernelNetLinks(kl), NEW k \in Kernels, NEW j \in ConnectedBy(kl, k)
  PROVE  k \in ConnectedBy(kl, j)
<1> DEFINE S == Kernels \ ConnectedBy(kl, j)
<1>1. j \in Kernels
  BY JoinedAre
<1>2. ClosedBy(kl, ConnectedBy(kl, j)) /\ j \in ConnectedBy(kl, j)
  BY <1>1, JoinedAre
<1>3. ClosedBy(kl, S)
  BY <1>2 DEF ClosedBy, KernelNetLinks
<1>4. CASE k \in S
  <2>1. ConnectedBy(kl, k) \subseteq S
    BY <1>3, <1>4, JoinedAre
  <2>2. QED
    BY <1>2, <2>1
<1>5. QED
  BY <1>4

LEMMA JoinedTogether ==
  ASSUME NEW kl, KernelNetLinks(kl), NEW k \in Kernels, NEW j \in ConnectedBy(kl, k)
  PROVE  ConnectedBy(kl, j) = ConnectedBy(kl, k)
<1>1. j \in Kernels /\ k \in ConnectedBy(kl, j)
  BY JoinedAre, JoinedBack
<1>2. ConnectedBy(kl, j) \subseteq ConnectedBy(kl, k)
  BY <1>1, JoinedAre
<1>3. ConnectedBy(kl, k) \subseteq ConnectedBy(kl, j)
  BY <1>1, JoinedAre
<1>4. QED
  BY <1>2, <1>3

-----------------------------------------------------------------------------
(* The links between the ends of a link, and the kernels on the side of an *)
(* end: those it would still be joined with if these links were not there. *)
Between(kl, l) == {m \in kl : Ends[m] = Ends[l]}
Side(kl, p, l) == ConnectedBy(kl \ Between(kl, l), p)

(* OneWayOnly of a set of links.                                           *)
OneWay(kl) ==
  /\ KernelNetLinks(kl)
  /\ \A l \in kl : \A k \in Ends[l] :
       Peer(k, l) \in ConnectedBy(kl \ {l}, k) => ConnectedBy(kl, k) = Ends[l]

LEMMA KernelEnds ==
  ASSUME NEW kl, KernelNetLinks(kl), NEW l \in kl, NEW p \in Ends[l]
  PROVE  /\ l \in Links /\ p \in Kernels /\ Peer(p, l) \in Kernels /\ Peer(p, l) # p
         /\ Ends[l] = {p, Peer(p, l)} /\ Peer(p, l) \in Ends[l] /\ Peer(Peer(p, l), l) = p
BY EndsAre DEF KernelNetLinks

(* With several links between two kernels there is no third one.           *)
LEMMA NoThirdKernel ==
  ASSUME NEW kl, OneWay(kl), NEW l \in kl, NEW m \in Between(kl, l), m # l,
         NEW p \in Ends[l], NEW n \in kl, p \in Ends[n]
  PROVE  Ends[n] = Ends[l]
<1>1. KernelNetLinks(kl) /\ m \in kl /\ Ends[m] = Ends[l]
  BY DEF OneWay, Between
<1>2. /\ p \in Kernels /\ Ends[l] = {p, Peer(p, l)} /\ Ends[n] = {p, Peer(p, n)}
      /\ Peer(p, n) # p
  BY <1>1, KernelEnds
<1>3. KernelNetLinks(kl \ {l})
  BY <1>1 DEF KernelNetLinks
<1>4. Peer(p, l) \in ConnectedBy(kl \ {l}, p)
  <2>1. p \in ConnectedBy(kl \ {l}, p) /\ ClosedBy(kl \ {l}, ConnectedBy(kl \ {l}, p))
    BY <1>2, <1>3, JoinedAre
  <2>2. QED
    BY <1>1, <1>2, <2>1 DEF ClosedBy
<1>5. ConnectedBy(kl, p) = Ends[l]
  BY <1>4 DEF OneWay
<1>6. Ends[n] \subseteq ConnectedBy(kl, p)
  <2>1. p \in ConnectedBy(kl, p) /\ ClosedBy(kl, ConnectedBy(kl, p))
    BY <1>1, <1>2, JoinedAre
  <2>2. QED
    BY <1>2, <2>1 DEF ClosedBy
<1>7. QED
  BY <1>2, <1>5, <1>6

LEMMA SidesAre ==
  ASSUME NEW kl, OneWay(kl), NEW l \in kl, NEW p \in Ends[l]
  PROVE  /\ p \in Side(kl, p, l) /\ Side(kl, p, l) \subseteq Kernels
         /\ Peer(p, l) \notin Side(kl, p, l)
         /\ Side(kl, p, l) \cap Side(kl, Peer(p, l), l) = {}
         /\ ConnectedBy(kl, p) \subseteq Side(kl, p, l) \cup Side(kl, Peer(p, l), l)
<1> DEFINE q == Peer(p, l)
           rest == kl \ Between(kl, l)
<1>1. KernelNetLinks(kl) /\ KernelNetLinks(rest)
  BY DEF OneWay, KernelNetLinks
<1>2. p \in Kernels /\ q \in Kernels /\ q # p /\ Ends[l] = {p, q}
  BY <1>1, KernelEnds
<1>3. /\ p \in Side(kl, p, l) /\ Side(kl, p, l) \subseteq Kernels /\ ClosedBy(rest, Side(kl, p, l))
      /\ q \in Side(kl, q, l) /\ Side(kl, q, l) \subseteq Kernels /\ ClosedBy(rest, Side(kl, q, l))
  BY <1>1, <1>2, JoinedAre DEF Side
<1>4. q \notin Side(kl, p, l)
  <2>1. CASE Between(kl, l) = {l}
    <3> SUFFICES ASSUME q \in Side(kl, p, l) PROVE FALSE
      OBVIOUS
    <3>1. ConnectedBy(kl, p) = {p, q}
      BY <1>2, <2>1 DEF OneWay, Side
    <3>2. ClosedBy(rest, {p})
      <4> SUFFICES ASSUME NEW m \in rest, p \in Ends[m] PROVE Ends[m] \subseteq {p}
        BY DEF ClosedBy
      <4>1. Ends[m] = {p, Peer(p, m)} /\ Peer(p, m) # p
        BY <1>1, KernelEnds
      <4>2. Ends[m] \subseteq {p, q}
        <5>1. p \in ConnectedBy(kl, p) /\ ClosedBy(kl, ConnectedBy(kl, p))
          BY <1>1, <1>2, JoinedAre
        <5>2. QED
          BY <3>1, <4>1, <5>1 DEF ClosedBy
      <4>3. Ends[m] = Ends[l]
        BY <1>2, <4>1, <4>2
      <4>4. QED
        BY <4>3 DEF Between
    <3>3. Side(kl, p, l) \subseteq {p}
      BY <1>1, <1>2, <3>2, JoinedAre DEF Side
    <3>4. QED
      BY <1>2, <3>3
  <2>2. ASSUME NEW m \in Between(kl, l), m # l PROVE q \notin Side(kl, p, l)
    <3>1. ClosedBy(rest, {p})
      <4> SUFFICES ASSUME NEW n \in rest, p \in Ends[n] PROVE Ends[n] \subseteq {p}
        BY DEF ClosedBy
      <4>1. Ends[n] = Ends[l]
        BY <2>2, NoThirdKernel
      <4>2. QED
        BY <4>1 DEF Between
    <3>2. Side(kl, p, l) \subseteq {p}
      BY <1>1, <1>2, <3>1, JoinedAre DEF Side
    <3>3. QED
      BY <1>2, <3>2
  <2>3. l \in Between(kl, l)
    BY DEF Between
  <2>4. QED
    BY <2>1, <2>2, <2>3
<1>5. ASSUME NEW j \in Side(kl, p, l), j \in Side(kl, q, l) PROVE FALSE
  <2>1. Side(kl, q, l) = ConnectedBy(rest, j) /\ Side(kl, p, l) = ConnectedBy(rest, j)
    BY <1>1, <1>2, <1>5, JoinedTogether DEF Side
  <2>2. QED
    BY <1>3, <1>4, <2>1
<1>6. ConnectedBy(kl, p) \subseteq Side(kl, p, l) \cup Side(kl, q, l)
  <2> DEFINE S == Side(kl, p, l) \cup Side(kl, q, l)
  <2>1. ClosedBy(kl, S)
    <3> SUFFICES ASSUME NEW m \in kl, Ends[m] \cap S # {} PROVE Ends[m] \subseteq S
      BY DEF ClosedBy
    <3>1. CASE m \in Between(kl, l)
      BY <1>2, <1>3, <3>1 DEF Between
    <3>2. CASE m \notin Between(kl, l)
      BY <1>3, <3>2 DEF ClosedBy
    <3>3. QED
      BY <3>1, <3>2
  <2>2. QED
    BY <1>1, <1>2, <1>3, <2>1, JoinedAre
<1>7. QED
  BY <1>3, <1>4, <1>5, <1>6

(* Behind another link of a kernel are kernels on its own side.            *)
LEMMA SidesNest ==
  ASSUME NEW kl, OneWay(kl), NEW p, NEW l \in kl, NEW m \in kl,
         p \in Ends[l], p \in Ends[m], Ends[m] # Ends[l]
  PROVE  Side(kl, Peer(p, m), m) \subseteq Side(kl, p, l)
<1> DEFINE r == Peer(p, m)
           restl == kl \ Between(kl, l)
           restm == kl \ Between(kl, m)
           S == Side(kl, p, l)
           T == Side(kl, r, m)
<1>1. KernelNetLinks(kl) /\ KernelNetLinks(restl) /\ KernelNetLinks(restm)
  BY DEF OneWay, KernelNetLinks
<1>2. p \in Kernels /\ r \in Kernels /\ Ends[m] = {p, r} /\ Peer(r, m) = p /\ r \in Ends[m]
  BY <1>1, KernelEnds
<1>3. p \in S /\ ClosedBy(restl, S) /\ S \subseteq Kernels
  BY <1>1, <1>2, JoinedAre DEF Side
<1>4. r \in T /\ ClosedBy(restm, T) /\ T \subseteq Kernels
  BY <1>1, <1>2, JoinedAre DEF Side
<1>5. r \in S
  BY <1>2, <1>3 DEF ClosedBy, Between
<1>6. p \notin T
  BY <1>2, SidesAre
<1>7. ClosedBy(restm, S \cap T)
  <2> SUFFICES ASSUME NEW n \in restm, Ends[n] \cap S \cap T # {} PROVE Ends[n] \subseteq S \cap T
    BY DEF ClosedBy
  <2>1. Ends[n] \subseteq T
    BY <1>4 DEF ClosedBy
  <2>2. n \notin Between(kl, l)
    BY <1>6, <2>1 DEF Between
  <2>3. QED
    BY <1>3, <2>1, <2>2 DEF ClosedBy
<1>8. T \subseteq S \cap T
  <2>1. S \cap T \in SUBSET Kernels /\ r \in S \cap T
    BY <1>3, <1>4, <1>5
  <2>2. QED
    BY <1>1, <1>2, <1>7, <2>1, JoinedAre DEF Side
<1>9. QED
  BY <1>8

-----------------------------------------------------------------------------
(* The records, their sources, the open links and the letters on their way *)
(* in a net of links kl: s.net, s.from and s.all are FNet, FUUIDFrom and   *)
(* FAllDescriptors, MailOf(s, q, l) has the letters on link l to its end q.   *)
NetOf(s, k) == s.net[k]
FromOf(s, k) == s.from[k]
AllOf(s, k) == s.all[k]
MailOf(s, q, l) == s.mail[l][q]

ItemsIn(g) == {g[i] : i \in 1 .. Len(g)}
Ascending(g) == \A i, n \in 1 .. Len(g) : i <= n => DOMAIN g[i] \subseteq DOMAIN g[n]
Covers(net, j, C) == j \in DOMAIN net /\ C \subseteq net[j].FCustomerInfo
Within(net, other, S) == \A j \in DOMAIN net \cap S : Covers(other, j, net[j].FCustomerInfo)

(* What q has of the kernels behind l, or will have once it has read it.   *)
HasAt(kl, s, q, l) == {NetOf(s, q)} \cup UNION {ItemsIn(MailOf(s, q, m)) : m \in Between(kl, l)}
KnowsAt(kl, s, q, l, j, C) == \E net \in HasAt(kl, s, q, l) : Covers(net, j, C)

Shaped(kl, s) ==
  /\ \A k \in Kernels : NetOf(s, k) \in Nets /\ Matches(k, NetOf(s, k), FromOf(s, k))
  /\ \A l \in kl : \A q \in Ends[l] : MailOf(s, q, l) \in Seq(Nets)

(* A letter says that its sender has a link to its receiver.               *)
Signed(kl, s) ==
  \A l \in kl : \A q \in Ends[l] : \A net \in ItemsIn(MailOf(s, q, l)) :
    Covers(net, Peer(q, l), {q})
Near(kl, s) == \A k \in Kernels : DOMAIN NetOf(s, k) \subseteq ConnectedBy(kl, k)
(* Of the kernels on its own side of a link a kernel knows the most.       *)
Bounded(kl, s) ==
  \A l \in kl : \A q \in Ends[l] :
    \A net \in HasAt(kl, s, Peer(q, l), l) \cup HasAt(kl, s, q, l) :
      Within(net, NetOf(s, q), Side(kl, q, l))
(* A kernel behind a link is known from the links to that neighbour.       *)
Rooted(kl, s) ==
  \A l \in kl : \A q \in Ends[l] : \A j \in DOMAIN NetOf(s, q) \cap Side(kl, Peer(q, l), l) :
    FromOf(s, q)[j] \subseteq Between(kl, l)
(* The letters of a link have more and more kernels.                       *)
Ordered(kl, s) ==
  \A l \in kl : \A q \in Ends[l] :
    /\ Ascending(MailOf(s, q, l))
    /\ \A net \in ItemsIn(MailOf(s, q, l)) : DOMAIN net \subseteq DOMAIN NetOf(s, Peer(q, l))
    /\ \A j \in DOMAIN NetOf(s, q) : l \in FromOf(s, q)[j] =>
         /\ j \in DOMAIN NetOf(s, Peer(q, l))
         /\ \A net \in ItemsIn(MailOf(s, q, l)) : j \in DOMAIN net
Joined(kl, s) ==
  \A k \in Kernels : \A l \in AllOf(s, k) :
    /\ Peer(k, l) \in NetOf(s, k)[k].FCustomerInfo
    /\ l \in kl => Peer(k, l) \in DOMAIN NetOf(s, k)
(* What is opened at one end is told to the other one.                     *)
Answered(kl, s) ==
  \A m \in kl : \A p \in Ends[m] :
    m \in AllOf(s, Peer(p, m)) => KnowsAt(kl, s, p, m, Peer(p, m), {p})
(* What a kernel knows of its own side it has passed on to the other side, *)
(* or it waits for an answer, or has another link to open.                 *)
Told(kl, s, p, l) ==
  \A j \in DOMAIN NetOf(s, p) \cap Side(kl, p, l) :
    KnowsAt(kl, s, Peer(p, l), l, j, NetOf(s, p)[j].FCustomerInfo)
Unanswered(kl, s, p, l) ==
  \E m \in kl : /\ p \in Ends[m] /\ Ends[m] # Ends[l] /\ m \in AllOf(s, p)
                /\ p \notin NetOf(s, p)[Peer(p, m)].FCustomerInfo
Unopened(kl, s, p) == \E m \in kl : p \in Ends[m] /\ m \notin AllOf(s, p)
Passed(kl, s) ==
  \A l \in kl : \A p \in Ends[l] : l \in AllOf(s, p) =>
    Told(kl, s, p, l) \/ Unanswered(kl, s, p, l) \/ Unopened(kl, s, p)

Good(kl, s) ==
  /\ Shaped(kl, s) /\ Signed(kl, s) /\ Near(kl, s) /\ Bounded(kl, s) /\ Rooted(kl, s)
  /\ Ordered(kl, s) /\ Joined(kl, s) /\ Answered(kl, s) /\ Passed(kl, s)

LEMMA HasIs ==
  \A kl, s, q, l, net :
    net \in HasAt(kl, s, q, l) <=>
      net = NetOf(s, q) \/ \E m \in Between(kl, l) : net \in ItemsIn(MailOf(s, q, m))
BY DEF HasAt

LEMMA AppendedItems ==
  ASSUME NEW T, NEW g \in Seq(T), NEW e \in T
  PROVE  /\ ItemsIn(Append(g, e)) = ItemsIn(g) \cup {e}
         /\ (Ascending(g) /\ \A net \in ItemsIn(g) : DOMAIN net \subseteq DOMAIN e)
              => Ascending(Append(g, e))
<1> DEFINE a == Append(g, e)
           n == Len(g)
<1>1. n \in Nat /\ Len(a) = n + 1 /\ a[n + 1] = e /\ \A i \in 1 .. n : a[i] = g[i]
  BY AppendProperties, LenProperties
<1> HIDE DEF a, n
<1>2. 1 .. Len(a) = 1 .. n \cup {n + 1}
  BY <1>1
<1>3. ItemsIn(a) = ItemsIn(g) \cup {e}
  <2>1. \A x : x \in ItemsIn(a) => x \in ItemsIn(g) \/ x = e
    BY <1>1, <1>2 DEF ItemsIn, n
  <2>2. \A x : x \in ItemsIn(g) \/ x = e => x \in ItemsIn(a)
    BY <1>1, <1>2 DEF ItemsIn, n
  <2>3. QED
    BY <2>1, <2>2
<1>4. ASSUME Ascending(g), \A net \in ItemsIn(g) : DOMAIN net \subseteq DOMAIN e,
             NEW i \in 1 .. Len(a), NEW m \in 1 .. Len(a), i <= m
      PROVE  DOMAIN a[i] \subseteq DOMAIN a[m]
  <2>1. CASE m = n + 1
    BY <1>1, <1>2, <1>4, <2>1 DEF ItemsIn, n
  <2>2. CASE m # n + 1
    <3>1. i \in 1 .. n /\ m \in 1 .. n
      BY <1>1, <1>4, <2>2
    <3>2. QED
      BY <1>1, <1>4, <3>1 DEF Ascending, n
  <2>3. QED
    BY <2>1, <2>2
<1>5. QED
  BY <1>3, <1>4 DEF Ascending, a

LEMMA ReadItems ==
  ASSUME NEW T, NEW g \in Seq(T), g # <<>>
  PROVE  /\ ItemsIn(g) = ItemsIn(Tail(g)) \cup {Head(g)} /\ Tail(g) \in Seq(T)
         /\ Ascending(g) => /\ Ascending(Tail(g))
                            /\ \A net \in ItemsIn(g) : DOMAIN Head(g) \subseteq DOMAIN net
<1> DEFINE n == Len(g)
           b == Tail(g)
<1>1. /\ n \in Nat \ {0} /\ Len(b) = n - 1 /\ Head(g) = g[1] /\ b \in Seq(T)
      /\ \A i \in 1 .. n - 1 : b[i] = g[i + 1]
  BY HeadTailProperties, LenProperties
<1> HIDE DEF n, b
<1>2. ItemsIn(g) = ItemsIn(b) \cup {g[1]}
  <2>1. ASSUME NEW i \in 1 .. n PROVE g[i] \in ItemsIn(b) \cup {g[1]}
    <3>1. CASE i = 1
      BY <3>1
    <3>2. CASE i # 1
      <4>1. i - 1 \in 1 .. n - 1 /\ (i - 1) + 1 = i
        BY <1>1, <3>2
      <4>2. b[i - 1] = g[i]
        BY <1>1, <4>1
      <4>3. QED
        BY <1>1, <4>1, <4>2 DEF ItemsIn
    <3>3. QED
      BY <3>1, <3>2
  <2>2. ASSUME NEW i \in 1 .. n - 1 PROVE b[i] \in ItemsIn(g)
    <3>1. i + 1 \in 1 .. n /\ b[i] = g[i + 1]
      BY <1>1
    <3>2. QED
      BY <3>1 DEF ItemsIn, n
  <2>3. g[1] \in ItemsIn(g)
    BY <1>1 DEF ItemsIn, n
  <2>4. /\ \A x : x \in ItemsIn(g) => x \in ItemsIn(b) \cup {g[1]}
        /\ \A x : x \in ItemsIn(b) => x \in ItemsIn(g)
    BY <1>1, <2>1, <2>2 DEF ItemsIn, n
  <2>5. QED
    BY <2>3, <2>4
<1>3. ASSUME Ascending(g) PROVE Ascending(b) /\ \A net \in ItemsIn(g) : DOMAIN g[1] \subseteq DOMAIN net
  <2>1. ASSUME NEW i \in 1 .. n - 1, NEW m \in 1 .. n - 1, i <= m
        PROVE  DOMAIN b[i] \subseteq DOMAIN b[m]
    <3>1. i + 1 \in 1 .. n /\ m + 1 \in 1 .. n /\ i + 1 <= m + 1
      BY <1>1, <2>1
    <3>2. b[i] = g[i + 1] /\ b[m] = g[m + 1]
      BY <1>1
    <3>3. QED
      BY <1>3, <3>1, <3>2 DEF Ascending, n
  <2>2. ASSUME NEW i \in 1 .. n PROVE DOMAIN g[1] \subseteq DOMAIN g[i]
    <3>1. 1 \in 1 .. n /\ 1 <= i
      BY <1>1
    <3>2. QED
      BY <1>3, <3>1 DEF Ascending, n
  <2>3. QED
    BY <1>1, <2>1, <2>2 DEF Ascending, ItemsIn, n
<1>4. QED
  BY <1>1, <1>2, <1>3 DEF b

-----------------------------------------------------------------------------
(* A step in which kernel k learns, and sends its records on the links     *)
(* sent: what the other kernels know, have and will have only grows.       *)
Includes(net, other) == \A j \in DOMAIN other : Covers(net, j, other[j].FCustomerInfo)

Sends(kl, s, t, k, sent) ==
  /\ Shaped(kl, s) /\ Shaped(kl, t)
  /\ \A p \in Kernels \ {k} :
       /\ NetOf(t, p) = NetOf(s, p) /\ FromOf(t, p) = FromOf(s, p) /\ AllOf(t, p) = AllOf(s, p)
  /\ \A l \in kl : \A q \in Ends[l] : q # k =>
       MailOf(t, q, l) = IF k \in Ends[l] /\ l \in sent
                           THEN Append(MailOf(s, q, l), NetOf(t, k)) ELSE MailOf(s, q, l)
Grows(kl, s, t, k, sent) ==
  /\ Sends(kl, s, t, k, sent)
  /\ Includes(NetOf(t, k), NetOf(s, k))
  /\ \A l \in kl : k \in Ends[l] =>
       /\ ItemsIn(MailOf(t, k, l)) \subseteq ItemsIn(MailOf(s, k, l))
       /\ \A net \in ItemsIn(MailOf(s, k, l)) :
            net \in ItemsIn(MailOf(t, k, l)) \/ Includes(NetOf(t, k), net)

LEMMA GrownMail ==
  ASSUME NEW kl, KernelNetLinks(kl), NEW s, NEW t, NEW k \in Kernels, NEW sent,
         Grows(kl, s, t, k, sent), NEW l \in kl, NEW q \in Ends[l]
  PROVE  /\ \A net \in ItemsIn(MailOf(t, q, l)) :
              \/ net \in ItemsIn(MailOf(s, q, l))
              \/ /\ q = Peer(k, l) /\ k = Peer(q, l) /\ k \in Ends[l] /\ l \in sent
                 /\ net = NetOf(t, k)
         /\ q # k => ItemsIn(MailOf(s, q, l)) \subseteq ItemsIn(MailOf(t, q, l))
         /\ q # k /\ k \in Ends[l] /\ l \in sent => NetOf(t, k) \in ItemsIn(MailOf(t, q, l))
<1>1. CASE q = k
  BY <1>1 DEF Grows, Sends
<1>2. CASE q # k /\ k \in Ends[l] /\ l \in sent
  <2>1. MailOf(t, q, l) = Append(MailOf(s, q, l), NetOf(t, k))
    BY <1>2 DEF Grows, Sends
  <2>2. MailOf(s, q, l) \in Seq(Nets) /\ NetOf(t, k) \in Nets
    BY DEF Grows, Sends, Shaped
  <2>3. ItemsIn(MailOf(t, q, l)) = ItemsIn(MailOf(s, q, l)) \cup {NetOf(t, k)}
    BY <2>1, <2>2, AppendedItems
  <2>4. q = Peer(k, l) /\ k = Peer(q, l)
    BY <1>2, KernelEnds
  <2>5. QED
    BY <1>2, <2>3, <2>4
<1>3. CASE q # k /\ ~(k \in Ends[l] /\ l \in sent)
  <2>1. MailOf(t, q, l) = MailOf(s, q, l)
    BY <1>3 DEF Grows, Sends
  <2>2. QED
    BY <1>3, <2>1
<1>4. QED
  BY <1>1, <1>2, <1>3

LEMMA BetweenAre ==
  ASSUME NEW kl, KernelNetLinks(kl), NEW l \in kl
  PROVE  /\ l \in Between(kl, l)
         /\ \A m \in Between(kl, l) : m \in kl /\ Ends[m] = Ends[l] /\ Between(kl, m) = Between(kl, l)
         /\ \A m \in Between(kl, l) : \A p \in Ends[l] : Peer(p, m) = Peer(p, l)
         /\ \A m \in kl : Ends[m] = Ends[l] => m \in Between(kl, l)
<1>1. ASSUME NEW m \in Between(kl, l), NEW p \in Ends[l] PROVE Peer(p, m) = Peer(p, l)
  BY DEF Between, Peer
<1>2. QED
  BY <1>1 DEF Between

LEMMA GrownHas ==
  ASSUME NEW kl, KernelNetLinks(kl), NEW s, NEW t, NEW k \in Kernels, NEW sent,
         Grows(kl, s, t, k, sent), NEW l \in kl, NEW q \in Ends[l], NEW net \in HasAt(kl, t, q, l)
  PROVE  net \in HasAt(kl, s, q, l) \/ (k \in Ends[l] /\ net = NetOf(t, k))
<1>1. q \in Kernels
  BY KernelEnds
<1>2. CASE net = NetOf(t, q)
  BY <1>1, <1>2, HasIs DEF Grows, Sends
<1>3. ASSUME NEW m \in Between(kl, l), net \in ItemsIn(MailOf(t, q, m))
      PROVE  net \in HasAt(kl, s, q, l) \/ (k \in Ends[l] /\ net = NetOf(t, k))
  <2>1. m \in kl /\ Ends[m] = Ends[l] /\ q \in Ends[m]
    BY BetweenAre
  <2>2. net \in ItemsIn(MailOf(s, q, m)) \/ (k \in Ends[m] /\ net = NetOf(t, k))
    BY <1>3, <2>1, GrownMail
  <2>3. QED
    BY <2>1, <2>2, HasIs
<1>4. QED
  BY <1>2, <1>3, HasIs

LEMMA KnowsGrows ==
  ASSUME NEW kl, KernelNetLinks(kl), NEW s, NEW t, NEW k \in Kernels, NEW sent,
         Grows(kl, s, t, k, sent), NEW l \in kl, NEW q \in Ends[l], NEW j, NEW C,
         KnowsAt(kl, s, q, l, j, C)
  PROVE  KnowsAt(kl, t, q, l, j, C)
<1>1. PICK net \in HasAt(kl, s, q, l) : Covers(net, j, C)
  BY DEF KnowsAt
<1>2. q \in Kernels /\ NetOf(t, q) \in HasAt(kl, t, q, l)
  BY KernelEnds, HasIs
<1>3. Includes(NetOf(t, q), net) => Covers(NetOf(t, q), j, C)
  BY <1>1 DEF Includes, Covers
<1>4. CASE net = NetOf(s, q)
  <2>1. net = NetOf(t, q) \/ Includes(NetOf(t, q), net)
    BY <1>2, <1>4 DEF Grows, Sends
  <2>2. QED
    BY <1>1, <1>2, <1>3, <2>1 DEF KnowsAt
<1>5. ASSUME NEW m \in Between(kl, l), net \in ItemsIn(MailOf(s, q, m))
      PROVE  KnowsAt(kl, t, q, l, j, C)
  <2>1. m \in kl /\ Ends[m] = Ends[l] /\ q \in Ends[m]
    BY BetweenAre
  <2>2. net \in ItemsIn(MailOf(t, q, m)) \/ Includes(NetOf(t, q), net)
    <3>1. CASE q = k
      BY <1>5, <2>1, <3>1 DEF Grows, Sends
    <3>2. CASE q # k
      BY <1>5, <2>1, <3>2, GrownMail
    <3>3. QED
      BY <3>1, <3>2
  <2>3. net \in ItemsIn(MailOf(t, q, m)) => net \in HasAt(kl, t, q, l)
    BY HasIs
  <2>4. QED
    BY <1>1, <1>2, <1>3, <2>2, <2>3 DEF KnowsAt
<1>6. QED
  BY <1>1, <1>4, <1>5, HasIs

(* What is sent on a link or on another one between its ends is known.     *)
LEMMA SentIsKnown ==
  ASSUME NEW kl, KernelNetLinks(kl), NEW s, NEW t, NEW k \in Kernels, NEW sent,
         Grows(kl, s, t, k, sent), NEW l \in kl, k \in Ends[l], NEW m \in Between(kl, l), m \in sent
  PROVE  /\ NetOf(t, k) \in HasAt(kl, t, Peer(k, l), l)
         /\ Told(kl, t, k, l)
<1>1. m \in kl /\ k \in Ends[m] /\ Peer(k, l) \in Ends[m] /\ Peer(k, l) # k
  BY BetweenAre, KernelEnds
<1>2. NetOf(t, k) \in ItemsIn(MailOf(t, Peer(k, l), m))
  <2>1. PICK h : h = Peer(k, l)
    OBVIOUS
  <2>2. h \in Ends[m] /\ h # k
    BY <1>1, <2>1
  <2>3. NetOf(t, k) \in ItemsIn(MailOf(t, h, m))
    BY <1>1, <2>2, GrownMail
  <2>4. QED
    BY <2>1, <2>3
<1>3. NetOf(t, k) \in HasAt(kl, t, Peer(k, l), l)
  BY <1>2, HasIs
<1>4. QED
  BY <1>3 DEF Told, KnowsAt, Covers

-----------------------------------------------------------------------------
(* What such steps keep.                                                   *)
LEMMA SignedKept ==
  ASSUME NEW kl, KernelNetLinks(kl), NEW s, NEW t, NEW k \in Kernels, NEW sent,
         Grows(kl, s, t, k, sent), Signed(kl, s), Joined(kl, t), sent \cap kl \subseteq AllOf(t, k)
  PROVE  Signed(kl, t)
<1> SUFFICES ASSUME NEW l \in kl, NEW q \in Ends[l], NEW net \in ItemsIn(MailOf(t, q, l))
             PROVE  Covers(net, Peer(q, l), {q})
  BY Zenon DEF Signed
<1>1. CASE net \in ItemsIn(MailOf(s, q, l))
  BY <1>1 DEF Signed
<1>2. CASE q = Peer(k, l) /\ k = Peer(q, l) /\ k \in Ends[l] /\ l \in sent /\ net = NetOf(t, k)
  <2>1. Peer(k, l) \in NetOf(t, k)[k].FCustomerInfo /\ k \in DOMAIN NetOf(t, k)
    BY <1>2 DEF Joined, Grows, Sends, Shaped, Matches
  <2>2. QED
    BY <1>2, <2>1 DEF Covers
<1>3. QED
  BY <1>1, <1>2, GrownMail

LEMMA BoundedKept ==
  ASSUME NEW kl, KernelNetLinks(kl), NEW s, NEW t, NEW k \in Kernels, NEW sent,
         Grows(kl, s, t, k, sent), Bounded(kl, s),
         \A m \in kl : k \in Ends[m] =>
           Within(NetOf(t, k), NetOf(s, Peer(k, m)), Side(kl, Peer(k, m), m))
  PROVE  Bounded(kl, t)
<1> SUFFICES ASSUME NEW l \in kl, NEW q \in Ends[l],
                    NEW net \in HasAt(kl, t, Peer(q, l), l) \cup HasAt(kl, t, q, l)
             PROVE  Within(net, NetOf(t, q), Side(kl, q, l))
  BY DEF Bounded
<1>1. q \in Kernels /\ Peer(q, l) \in Ends[l] /\ Ends[l] = {q, Peer(q, l)}
  BY KernelEnds
<1>2. Within(net, NetOf(s, q), Side(kl, q, l)) => Within(net, NetOf(t, q), Side(kl, q, l))
  <2>1. NetOf(t, q) = NetOf(s, q) \/ Includes(NetOf(t, q), NetOf(s, q))
    BY <1>1 DEF Grows, Sends
  <2>2. QED
    BY <2>1 DEF Within, Includes, Covers
<1>3. net \in HasAt(kl, s, Peer(q, l), l) \cup HasAt(kl, s, q, l) \/ (k \in Ends[l] /\ net = NetOf(t, k))
  BY <1>1, GrownHas
<1>4. CASE net \in HasAt(kl, s, Peer(q, l), l) \cup HasAt(kl, s, q, l)
  BY <1>2, <1>4 DEF Bounded
<1>5. CASE k \in Ends[l] /\ net = NetOf(t, k)
  <2>1. CASE q = k
    BY <1>5, <2>1 DEF Within, Covers
  <2>2. CASE q # k
    <3>1. q = Peer(k, l)
      BY <1>5, <2>2, KernelEnds
    <3>2. QED
      BY <1>2, <1>5, <3>1
  <2>3. QED
    BY <2>1, <2>2
<1>6. QED
  BY <1>3, <1>4, <1>5

LEMMA OrderedKept ==
  ASSUME NEW kl, KernelNetLinks(kl), NEW s, NEW t, NEW k \in Kernels, NEW sent,
         Grows(kl, s, t, k, sent), Ordered(kl, s),
         \A l \in kl : k \in Ends[l] =>
           /\ Ascending(MailOf(t, k, l))
           /\ \A j \in DOMAIN NetOf(t, k) : l \in FromOf(t, k)[j] =>
                /\ j \in DOMAIN NetOf(s, Peer(k, l))
                /\ \A net \in ItemsIn(MailOf(t, k, l)) : j \in DOMAIN net
  PROVE  Ordered(kl, t)
<1> SUFFICES ASSUME NEW l \in kl, NEW q \in Ends[l]
             PROVE  /\ Ascending(MailOf(t, q, l))
                    /\ \A net \in ItemsIn(MailOf(t, q, l)) : DOMAIN net \subseteq DOMAIN NetOf(t, Peer(q, l))
                    /\ \A j \in DOMAIN NetOf(t, q) : l \in FromOf(t, q)[j] =>
                         /\ j \in DOMAIN NetOf(t, Peer(q, l))
                         /\ \A net \in ItemsIn(MailOf(t, q, l)) : j \in DOMAIN net
  BY DEF Ordered
<1> DEFINE p == Peer(q, l)
<1>1. /\ q \in Kernels /\ p \in Kernels /\ p # q /\ Ends[l] = {q, p} /\ Peer(p, l) = q
  BY KernelEnds
<1>2. \A h \in Kernels : DOMAIN NetOf(s, h) \subseteq DOMAIN NetOf(t, h)
  BY DEF Grows, Sends, Includes, Covers
<1>3. /\ Ascending(MailOf(s, q, l))
      /\ \A net \in ItemsIn(MailOf(s, q, l)) : DOMAIN net \subseteq DOMAIN NetOf(s, p)
      /\ \A j \in DOMAIN NetOf(s, q) : l \in FromOf(s, q)[j] =>
           j \in DOMAIN NetOf(s, p) /\ \A net \in ItemsIn(MailOf(s, q, l)) : j \in DOMAIN net
  BY DEF Ordered
<1> HIDE DEF p
<1>4. \A net \in ItemsIn(MailOf(t, q, l)) :
        net \in ItemsIn(MailOf(s, q, l)) \/ (k = p /\ net = NetOf(t, k))
  BY GrownMail DEF p
<1>5. \A net \in ItemsIn(MailOf(t, q, l)) : DOMAIN net \subseteq DOMAIN NetOf(t, p)
  BY <1>1, <1>2, <1>3, <1>4
<1>6. CASE q = k
  <2>1. /\ Ascending(MailOf(t, q, l))
        /\ \A j \in DOMAIN NetOf(t, q) : l \in FromOf(t, q)[j] =>
             j \in DOMAIN NetOf(s, p) /\ \A net \in ItemsIn(MailOf(t, q, l)) : j \in DOMAIN net
    BY <1>6 DEF p
  <2>2. QED
    BY <1>1, <1>2, <1>5, <2>1 DEF p
<1>7. CASE q # k
  <2>1. NetOf(t, q) = NetOf(s, q) /\ FromOf(t, q) = FromOf(s, q)
    BY <1>1, <1>7 DEF Grows, Sends
  <2>2. \A j \in DOMAIN NetOf(t, q) : l \in FromOf(t, q)[j] =>
          j \in DOMAIN NetOf(t, p) /\ \A net \in ItemsIn(MailOf(t, q, l)) : j \in DOMAIN net
    BY <1>1, <1>2, <1>3, <1>4, <2>1
  <2>3. Ascending(MailOf(t, q, l))
    <3>1. CASE k \in Ends[l] /\ l \in sent
      <4>1. MailOf(t, q, l) = Append(MailOf(s, q, l), NetOf(t, k)) /\ k = p
        BY <1>1, <1>7, <3>1 DEF Grows, Sends
      <4>2. MailOf(s, q, l) \in Seq(Nets) /\ NetOf(t, k) \in Nets
        BY DEF Grows, Sends, Shaped
      <4>3. \A net \in ItemsIn(MailOf(s, q, l)) : DOMAIN net \subseteq DOMAIN NetOf(t, k)
        BY <1>1, <1>2, <1>3, <4>1
      <4>4. QED
        BY <1>3, <4>1, <4>2, <4>3, AppendedItems
    <3>2. CASE ~(k \in Ends[l] /\ l \in sent)
      <4>1. MailOf(t, q, l) = MailOf(s, q, l)
        BY <1>7, <3>2 DEF Grows, Sends
      <4>2. QED
        BY <1>3, <4>1
    <3>3. QED
      BY <3>1, <3>2
  <2>4. QED
    BY <1>5, <2>2, <2>3 DEF p
<1>8. QED
  BY <1>6, <1>7

LEMMA AnsweredKept ==
  ASSUME NEW kl, KernelNetLinks(kl), NEW s, NEW t, NEW k \in Kernels, NEW sent,
         Grows(kl, s, t, k, sent), Answered(kl, s), Joined(kl, t),
         AllOf(t, k) \subseteq AllOf(s, k) \cup sent
  PROVE  Answered(kl, t)
<1> SUFFICES ASSUME NEW m \in kl, NEW p \in Ends[m], m \in AllOf(t, Peer(p, m))
             PROVE  KnowsAt(kl, t, p, m, Peer(p, m), {p})
  BY DEF Answered
<1> DEFINE r == Peer(p, m)
<1>1. p \in Kernels /\ r \in Kernels /\ r \in Ends[m] /\ Peer(r, m) = p
  BY KernelEnds
<1>2. CASE m \in AllOf(s, r)
  <2>1. KnowsAt(kl, s, p, m, r, {p})
    BY <1>2 DEF Answered
  <2>2. QED
    BY <2>1, KnowsGrows
<1>3. CASE m \notin AllOf(s, r)
  <2>1. r = k /\ m \in sent
    BY <1>1, <1>3 DEF Grows, Sends
  <2>2. m \in Between(kl, m)
    BY BetweenAre
  <2>3. NetOf(t, k) \in HasAt(kl, t, Peer(k, m), m)
    BY <1>1, <2>1, <2>2, SentIsKnown
  <2>4. p \in NetOf(t, k)[k].FCustomerInfo /\ k \in DOMAIN NetOf(t, k)
    BY <1>1, <2>1 DEF Joined, Grows, Sends, Shaped, Matches
  <2>5. QED
    BY <1>1, <2>1, <2>3, <2>4 DEF KnowsAt, Covers
<1>4. QED
  BY <1>2, <1>3

(* The other kernels have told what they had told.                         *)
LEMMA PassedKept ==
  ASSUME NEW kl, KernelNetLinks(kl), NEW s, NEW t, NEW k \in Kernels, NEW sent,
         Grows(kl, s, t, k, sent), NEW l \in kl, NEW p \in Ends[l]
  PROVE  /\ p # k /\ Unanswered(kl, s, p, l) => Unanswered(kl, t, p, l)
         /\ p # k /\ Unopened(kl, s, p) => Unopened(kl, t, p)
         /\ Told(kl, s, p, l) /\ (\A j \in DOMAIN NetOf(t, p) \cap Side(kl, p, l) :
               j \in DOMAIN NetOf(s, p) /\ NetOf(t, p)[j].FCustomerInfo = NetOf(s, p)[j].FCustomerInfo)
              => Told(kl, t, p, l)
         /\ p # k /\ Told(kl, s, p, l) => Told(kl, t, p, l)
<1>1. p \in Kernels /\ Peer(p, l) \in Ends[l]
  BY KernelEnds
<1>2. p # k => NetOf(t, p) = NetOf(s, p) /\ AllOf(t, p) = AllOf(s, p)
  BY <1>1 DEF Grows, Sends
<1>3. p # k /\ Unanswered(kl, s, p, l) => Unanswered(kl, t, p, l)
  BY <1>2 DEF Unanswered
<1>4. p # k /\ Unopened(kl, s, p) => Unopened(kl, t, p)
  BY <1>2 DEF Unopened
<1>5. ASSUME Told(kl, s, p, l), \A j \in DOMAIN NetOf(t, p) \cap Side(kl, p, l) :
               j \in DOMAIN NetOf(s, p) /\ NetOf(t, p)[j].FCustomerInfo = NetOf(s, p)[j].FCustomerInfo
      PROVE  Told(kl, t, p, l)
  <2> SUFFICES ASSUME NEW j \in DOMAIN NetOf(t, p) \cap Side(kl, p, l)
               PROVE  KnowsAt(kl, t, Peer(p, l), l, j, NetOf(t, p)[j].FCustomerInfo)
    BY DEF Told
  <2>1. KnowsAt(kl, s, Peer(p, l), l, j, NetOf(t, p)[j].FCustomerInfo)
    BY <1>5 DEF Told
  <2>2. QED
    BY <1>1, <2>1, KnowsGrows
<1>6. QED
  BY <1>2, <1>3, <1>4, <1>5

-----------------------------------------------------------------------------
(* The link l is added to the open links of kernel k (MHandleOpen).        *)
SentByOpen(s, k, l) ==
  IF Peer(k, l) \in Kernels /\ IsNewFrom(FromOf(s, k), Peer(k, l), l)
    THEN {l} ELSE AllOf(s, k) \cup {l}
OpenStep(kl, s, t, k, l) ==
  LET p == Peer(k, l)
      mine == PutToMyInfo(k, NetOf(s, k), p)
  IN /\ l \in Links /\ k \in Ends[l] /\ (l \in kl <=> p \in Kernels)
     /\ Sends(kl, s, t, k, SentByOpen(s, k, l))
     /\ NetOf(t, k) = IF p \in Kernels THEN MAddKernel(mine, p) ELSE mine
     /\ FromOf(t, k) = IF p \in Kernels THEN AddFrom(FromOf(s, k), p, l) ELSE FromOf(s, k)
     /\ AllOf(t, k) = AllOf(s, k) \cup {l}
     /\ \A m \in kl : k \in Ends[m] => MailOf(t, k, m) = MailOf(s, k, m)

LearnsByOpen(s, t, k, l, p) ==
  /\ p \in Programs /\ p # k /\ k \in DOMAIN NetOf(s, k)
  /\ DOMAIN NetOf(t, k) = DOMAIN NetOf(s, k) \cup (IF p \in Kernels THEN {p} ELSE {})
  /\ NetOf(t, k)[k].FCustomerInfo = NetOf(s, k)[k].FCustomerInfo \cup {p}
  /\ \A j \in DOMAIN NetOf(s, k) \ {k} : NetOf(t, k)[j] = NetOf(s, k)[j]
  /\ p \in Kernels /\ p \notin DOMAIN NetOf(s, k) => NetOf(t, k)[p].FCustomerInfo = {}
  /\ \A j \in DOMAIN NetOf(s, k) :
       FromOf(t, k)[j] = IF p \in Kernels /\ j = p THEN FromOf(s, k)[j] \cup {l}
                                                   ELSE FromOf(s, k)[j]
  /\ p \in Kernels /\ p \notin DOMAIN NetOf(s, k) => FromOf(t, k)[p] = {l}

LEMMA OpenLearns ==
  ASSUME NEW kl, NEW s, NEW t, NEW k \in Kernels, NEW l, OpenStep(kl, s, t, k, l)
  PROVE  LearnsByOpen(s, t, k, l, Peer(k, l))
<1> DEFINE p == Peer(k, l)
           old == NetOf(s, k)
           from == FromOf(s, k)
           mine == PutToMyInfo(k, old, p)
           r == Record(old[k].FCustomerInfo \cup {p}, old[k].FIndexNumber + 1)
<1>1. /\ l \in Links /\ k \in Ends[l] /\ DOMAIN from = DOMAIN old /\ k \in DOMAIN old /\ old \in Nets
  BY DEF OpenStep, Sends, Shaped, Matches
<1>2. /\ NetOf(t, k) = IF p \in Kernels THEN MAddKernel(mine, p) ELSE mine
      /\ FromOf(t, k) = IF p \in Kernels THEN AddFrom(from, p, l) ELSE from
  BY DEF OpenStep
<1>3. p \in Programs /\ p # k
  BY <1>1, PeerIs
<1> HIDE DEF old, from, p
<1>4. /\ DOMAIN mine = DOMAIN old /\ mine[k] = r /\ \A j \in DOMAIN old \ {k} : mine[j] = old[j]
  BY <1>1 DEF PutToMyInfo
<1>5. r.FCustomerInfo = old[k].FCustomerInfo \cup {p}
  BY DEF Record
<1> HIDE DEF mine, r
<1>6. ASSUME p \in Kernels PROVE LearnsByOpen(s, t, k, l, p)
  <2>1. /\ NetOf(t, k) = [j \in DOMAIN mine \cup {p} |->
                            IF j \in DOMAIN mine THEN mine[j] ELSE Record({}, 0)]
        /\ FromOf(t, k) = [j \in DOMAIN from \cup {p} |->
              (IF j \in DOMAIN from THEN from[j] ELSE {}) \cup (IF j = p THEN {l} ELSE {})]
    BY <1>2, <1>6 DEF MAddKernel, AddFrom
  <2>2. Record({}, 0).FCustomerInfo = {}
    BY DEF Record
  <2>3. /\ DOMAIN NetOf(t, k) = DOMAIN old \cup {p}
        /\ \A j \in DOMAIN old : NetOf(t, k)[j] = mine[j]
        /\ p \notin DOMAIN old => NetOf(t, k)[p] = Record({}, 0)
    BY <1>4, <2>1
  <2>4. /\ \A j \in DOMAIN old : FromOf(t, k)[j] = IF j = p THEN from[j] \cup {l} ELSE from[j]
        /\ p \notin DOMAIN old => FromOf(t, k)[p] = {l}
    BY <1>1, <2>1
  <2>5. NetOf(t, k)[k].FCustomerInfo = old[k].FCustomerInfo \cup {p}
    BY <1>1, <1>4, <1>5, <2>3
  <2>6. \A j \in DOMAIN old \ {k} : NetOf(t, k)[j] = old[j]
    BY <1>4, <2>3
  <2>7. QED
    BY <1>1, <1>3, <1>6, <2>2, <2>3, <2>4, <2>5, <2>6 DEF LearnsByOpen, old, from
<1>7. ASSUME p \notin Kernels PROVE LearnsByOpen(s, t, k, l, p)
  <2>1. NetOf(t, k) = mine /\ FromOf(t, k) = from
    BY <1>2, <1>7
  <2>2. NetOf(t, k)[k].FCustomerInfo = old[k].FCustomerInfo \cup {p}
    BY <1>4, <1>5, <2>1
  <2>3. QED
    BY <1>1, <1>3, <1>4, <1>7, <2>1, <2>2 DEF LearnsByOpen, old, from
<1>8. QED
  BY <1>6, <1>7 DEF p

LEMMA OpenGrows ==
  ASSUME NEW kl, NEW s, NEW t, NEW k \in Kernels, NEW l, OpenStep(kl, s, t, k, l)
  PROVE  Grows(kl, s, t, k, SentByOpen(s, k, l))
<1>1. PICK p : LearnsByOpen(s, t, k, l, p)
  BY OpenLearns
<1>2. Includes(NetOf(t, k), NetOf(s, k))
  <2>1. \A j \in DOMAIN NetOf(s, k) :
          /\ j \in DOMAIN NetOf(t, k)
          /\ NetOf(s, k)[j].FCustomerInfo \subseteq NetOf(t, k)[j].FCustomerInfo
    <3> SUFFICES ASSUME NEW j \in DOMAIN NetOf(s, k)
                 PROVE  /\ j \in DOMAIN NetOf(t, k)
                        /\ NetOf(s, k)[j].FCustomerInfo \subseteq NetOf(t, k)[j].FCustomerInfo
      OBVIOUS
    <3>1. CASE j = k
      BY <1>1, <3>1 DEF LearnsByOpen
    <3>2. CASE j # k
      BY <1>1, <3>2 DEF LearnsByOpen
    <3>3. QED
      BY <3>1, <3>2
  <2>2. QED
    BY <2>1 DEF Includes, Covers
<1>3. QED
  BY <1>2 DEF OpenStep, Grows

LEMMA SidesOf ==
  ASSUME NEW kl, OneWay(kl), NEW k, NEW l \in kl, NEW m \in kl, k \in Ends[l], k \in Ends[m]
  PROVE  /\ k \notin Side(kl, Peer(k, m), m) /\ Peer(k, m) \in Side(kl, Peer(k, m), m)
         /\ Side(kl, k, m) \cap Side(kl, Peer(k, m), m) = {}
         /\ Ends[m] # Ends[l] => /\ Side(kl, Peer(k, m), m) \subseteq Side(kl, k, l)
                                 /\ Peer(k, l) \notin Side(kl, Peer(k, m), m)
         /\ Ends[m] = Ends[l] => /\ Peer(k, m) = Peer(k, l)
                                 /\ l \in Between(kl, m)
                                 /\ \A q : Side(kl, q, m) = Side(kl, q, l)
<1>1. KernelNetLinks(kl)
  BY DEF OneWay
<1>2. /\ Peer(k, m) \in Ends[m] /\ Peer(Peer(k, m), m) = k /\ Peer(k, l) \in Ends[l]
      /\ Peer(Peer(k, l), l) = k
  BY <1>1, KernelEnds
<1>3. /\ k \notin Side(kl, Peer(k, m), m) /\ Peer(k, m) \in Side(kl, Peer(k, m), m)
      /\ Side(kl, k, m) \cap Side(kl, Peer(k, m), m) = {}
  <2>1. PICK h : h = Peer(k, m)
    OBVIOUS
  <2>2. h \in Side(kl, h, m) /\ Peer(h, m) \notin Side(kl, h, m)
    BY <1>2, <2>1, SidesAre
  <2>3. Side(kl, k, m) \cap Side(kl, Peer(k, m), m) = {}
    BY SidesAre
  <2>4. QED
    BY <1>2, <2>1, <2>2, <2>3
<1>4. ASSUME Ends[m] # Ends[l]
      PROVE  /\ Side(kl, Peer(k, m), m) \subseteq Side(kl, k, l)
             /\ Peer(k, l) \notin Side(kl, Peer(k, m), m)
  <2>1. Side(kl, Peer(k, m), m) \subseteq Side(kl, k, l)
    BY <1>4, SidesNest
  <2>2. Peer(k, l) \notin Side(kl, k, l)
    BY SidesAre
  <2>3. QED
    BY <2>1, <2>2
<1>5. ASSUME Ends[m] = Ends[l]
      PROVE  /\ Peer(k, m) = Peer(k, l) /\ l \in Between(kl, m)
             /\ \A q : Side(kl, q, m) = Side(kl, q, l)
  BY <1>5 DEF Peer, Between, Side
<1>6. QED
  BY <1>3, <1>4, <1>5

(* Adding an open link keeps what the kernels know of each other.          *)
LEMMA OpenKeepsBounded ==
  ASSUME NEW kl, OneWay(kl), NEW s, NEW t, NEW k \in Kernels, NEW l, OpenStep(kl, s, t, k, l),
         Bounded(kl, s)
  PROVE  Bounded(kl, t)
<1>1. PICK p : p = Peer(k, l)
  OBVIOUS
<1>2. LearnsByOpen(s, t, k, l, p)
  BY <1>1, OpenLearns
<1>3. KernelNetLinks(kl) /\ k \in Ends[l] /\ (l \in kl <=> p \in Kernels)
  BY <1>1 DEF OneWay, OpenStep
<1>4. ASSUME NEW m \in kl, k \in Ends[m], NEW h, h = Peer(k, m),
             NEW j \in DOMAIN NetOf(t, k) \cap Side(kl, h, m)
      PROVE  Covers(NetOf(s, h), j, NetOf(t, k)[j].FCustomerInfo)
  <2>1. h \in Ends[m] /\ Peer(h, m) = k /\ h \in Kernels
    BY <1>3, <1>4, KernelEnds
  <2>2. CASE j \in DOMAIN NetOf(s, k)
    <3>1. j # k
      BY <1>4, SidesOf
    <3>2. NetOf(t, k)[j] = NetOf(s, k)[j]
      BY <1>2, <2>2, <3>1 DEF LearnsByOpen
    <3>3. NetOf(s, k) \in HasAt(kl, s, Peer(h, m), m)
      BY <2>1, HasIs
    <3>4. Within(NetOf(s, k), NetOf(s, h), Side(kl, h, m))
      BY <2>1, <3>3 DEF Bounded
    <3>5. QED
      BY <1>4, <2>2, <3>2, <3>4 DEF Within
  <2>3. CASE j \notin DOMAIN NetOf(s, k)
    <3>1. j = p /\ p \in Kernels /\ NetOf(t, k)[j].FCustomerInfo = {}
      BY <1>2, <2>3 DEF LearnsByOpen
    <3>2. p = h
      BY <1>1, <1>3, <1>4, <3>1, SidesOf
    <3>3. h \in DOMAIN NetOf(s, h)
      BY <2>1 DEF OpenStep, Sends, Shaped, Matches
    <3>4. QED
      BY <3>1, <3>2, <3>3 DEF Covers
  <2>4. QED
    BY <2>2, <2>3
<1>5. \A m \in kl : k \in Ends[m] =>
        Within(NetOf(t, k), NetOf(s, Peer(k, m)), Side(kl, Peer(k, m), m))
  BY <1>4 DEF Within
<1>6. QED
  BY <1>3, <1>5, OpenGrows, BoundedKept

LEMMA OpenKeepsRooted ==
  ASSUME NEW kl, OneWay(kl), NEW s, NEW t, NEW k \in Kernels, NEW l, OpenStep(kl, s, t, k, l),
         Rooted(kl, s)
  PROVE  Rooted(kl, t)
<1>1. PICK p : p = Peer(k, l)
  OBVIOUS
<1>2. LearnsByOpen(s, t, k, l, p)
  BY <1>1, OpenLearns
<1>3. KernelNetLinks(kl) /\ k \in Ends[l] /\ (l \in kl <=> p \in Kernels)
  BY <1>1 DEF OneWay, OpenStep
<1> SUFFICES ASSUME NEW m \in kl, NEW q \in Ends[m], NEW j \in DOMAIN NetOf(t, q) \cap Side(kl, Peer(q, m), m)
             PROVE  FromOf(t, q)[j] \subseteq Between(kl, m)
  BY DEF Rooted
<1>4. j \in DOMAIN NetOf(s, q) => FromOf(s, q)[j] \subseteq Between(kl, m)
  BY DEF Rooted
<1>5. CASE q # k
  <2>1. q \in Kernels
    BY <1>3, KernelEnds
  <2>2. NetOf(t, q) = NetOf(s, q) /\ FromOf(t, q) = FromOf(s, q)
    BY <1>5, <2>1 DEF OpenStep, Sends
  <2>3. QED
    BY <1>4, <2>2
<1>6. CASE q = k
  <2>1. CASE p \in Kernels /\ j = p
    <3>1. l \in Between(kl, m)
      BY <1>1, <1>3, <1>6, <2>1, SidesOf
    <3>2. QED
      BY <1>2, <1>4, <1>6, <2>1, <3>1 DEF LearnsByOpen
  <2>2. CASE ~(p \in Kernels /\ j = p)
    BY <1>2, <1>4, <1>6, <2>2 DEF LearnsByOpen
  <2>3. QED
    BY <2>1, <2>2
<1>7. QED
  BY <1>5, <1>6

LEMMA OpenKeepsOrdered ==
  ASSUME NEW kl, OneWay(kl), NEW s, NEW t, NEW k \in Kernels, NEW l, OpenStep(kl, s, t, k, l),
         Ordered(kl, s), Signed(kl, s)
  PROVE  Ordered(kl, t)
<1>1. PICK p : p = Peer(k, l)
  OBVIOUS
<1>2. LearnsByOpen(s, t, k, l, p)
  BY <1>1, OpenLearns
<1>3. KernelNetLinks(kl) /\ k \in Ends[l] /\ (l \in kl <=> p \in Kernels)
  BY <1>1 DEF OneWay, OpenStep
<1>4. ASSUME NEW m \in kl, k \in Ends[m]
      PROVE  /\ Ascending(MailOf(t, k, m))
             /\ \A j \in DOMAIN NetOf(t, k) : m \in FromOf(t, k)[j] =>
                  /\ j \in DOMAIN NetOf(s, Peer(k, m))
                  /\ \A net \in ItemsIn(MailOf(t, k, m)) : j \in DOMAIN net
  <2>1. MailOf(t, k, m) = MailOf(s, k, m)
    BY <1>4 DEF OpenStep
  <2>2. /\ Ascending(MailOf(s, k, m))
        /\ \A j \in DOMAIN NetOf(s, k) : m \in FromOf(s, k)[j] =>
             /\ j \in DOMAIN NetOf(s, Peer(k, m))
             /\ \A net \in ItemsIn(MailOf(s, k, m)) : j \in DOMAIN net
    BY <1>4 DEF Ordered
  <2>3. ASSUME NEW j \in DOMAIN NetOf(t, k), m \in FromOf(t, k)[j]
        PROVE  (j \in DOMAIN NetOf(s, k) /\ m \in FromOf(s, k)[j]) \/ (j = p /\ m = l /\ p \in Kernels)
    BY <1>2, <2>3 DEF LearnsByOpen
  <2>4. ASSUME m = l, p \in Kernels
        PROVE  /\ p \in DOMAIN NetOf(s, Peer(k, m))
               /\ \A net \in ItemsIn(MailOf(s, k, m)) : p \in DOMAIN net
    <3>1. p \in DOMAIN NetOf(s, p)
      BY <2>4 DEF OpenStep, Sends, Shaped, Matches
    <3>2. \A net \in ItemsIn(MailOf(s, k, m)) : Covers(net, Peer(k, m), {k})
      BY <1>4, Zenon DEF Signed
    <3>3. QED
      BY <1>1, <2>4, <3>1, <3>2 DEF Covers
  <2>5. QED
    BY <2>1, <2>2, <2>3, <2>4
<1>5. QED
  BY <1>3, <1>4, OpenGrows, OrderedKept

LEMMA OpenKeepsJoined ==
  ASSUME NEW kl, OneWay(kl), NEW s, NEW t, NEW k \in Kernels, NEW l, OpenStep(kl, s, t, k, l),
         Joined(kl, s), Near(kl, s)
  PROVE  Joined(kl, t) /\ Near(kl, t)
<1>1. PICK p : p = Peer(k, l)
  OBVIOUS
<1>2. LearnsByOpen(s, t, k, l, p)
  BY <1>1, OpenLearns
<1>3. KernelNetLinks(kl) /\ k \in Ends[l] /\ (l \in kl <=> p \in Kernels) /\ AllOf(t, k) = AllOf(s, k) \cup {l}
  BY <1>1 DEF OneWay, OpenStep
<1>4. \A q \in Kernels \ {k} :
        NetOf(t, q) = NetOf(s, q) /\ AllOf(t, q) = AllOf(s, q)
  BY DEF OpenStep, Sends
<1>5. ASSUME NEW m \in AllOf(t, k)
      PROVE  /\ Peer(k, m) \in NetOf(t, k)[k].FCustomerInfo
             /\ m \in kl => Peer(k, m) \in DOMAIN NetOf(t, k)
  <2>1. CASE m = l
    BY <1>1, <1>2, <1>3, <2>1 DEF LearnsByOpen
  <2>2. CASE m # l
    <3>1. m \in AllOf(s, k)
      BY <1>3, <2>2
    <3>2. /\ Peer(k, m) \in NetOf(s, k)[k].FCustomerInfo
          /\ m \in kl => Peer(k, m) \in DOMAIN NetOf(s, k)
      BY <3>1 DEF Joined
    <3>3. QED
      BY <1>2, <3>2 DEF LearnsByOpen
  <2>3. QED
    BY <2>1, <2>2
<1>6. Joined(kl, t)
  BY <1>4, <1>5 DEF Joined
<1>7. DOMAIN NetOf(t, k) \subseteq ConnectedBy(kl, k)
  <2>1. DOMAIN NetOf(s, k) \subseteq ConnectedBy(kl, k)
    BY DEF Near
  <2>2. ASSUME p \in Kernels PROVE p \in ConnectedBy(kl, k)
    <3>1. l \in kl /\ p \in Ends[l]
      BY <1>1, <1>3, <2>2, KernelEnds
    <3>2. k \in ConnectedBy(kl, k) /\ ClosedBy(kl, ConnectedBy(kl, k))
      BY <1>3, JoinedAre
    <3>3. QED
      BY <1>3, <3>1, <3>2 DEF ClosedBy
  <2>3. QED
    BY <1>2, <2>1, <2>2 DEF LearnsByOpen
<1>8. Near(kl, t)
  BY <1>4, <1>7 DEF Near
<1>9. QED
  BY <1>6, <1>8

LEMMA OpenKeepsPassed ==
  ASSUME NEW kl, OneWay(kl), NEW s, NEW t, NEW k \in Kernels, NEW l, OpenStep(kl, s, t, k, l),
         Passed(kl, s), Rooted(kl, s)
  PROVE  Passed(kl, t)
<1>1. PICK p : p = Peer(k, l)
  OBVIOUS
<1>2. LearnsByOpen(s, t, k, l, p)
  BY <1>1, OpenLearns
<1>3. /\ KernelNetLinks(kl) /\ k \in Ends[l] /\ (l \in kl <=> p \in Kernels) /\ Shaped(kl, s)
      /\ AllOf(t, k) = AllOf(s, k) \cup {l}
  BY <1>1 DEF OneWay, OpenStep, Sends
<1>4. Grows(kl, s, t, k, SentByOpen(s, k, l))
  BY OpenGrows
<1> SUFFICES ASSUME NEW m \in kl, NEW q \in Ends[m], m \in AllOf(t, q)
             PROVE  Told(kl, t, q, m) \/ Unanswered(kl, t, q, m) \/ Unopened(kl, t, q)
  BY DEF Passed
<1>5. CASE q # k
  <2>1. q \in Kernels
    BY <1>3, KernelEnds
  <2>2. m \in AllOf(s, q)
    BY <1>5, <2>1 DEF OpenStep, Sends
  <2>3. Told(kl, s, q, m) \/ Unanswered(kl, s, q, m) \/ Unopened(kl, s, q)
    BY <2>2 DEF Passed
  <2>4. QED
    BY <1>3, <1>4, <1>5, <2>3, PassedKept
<1>6. CASE q = k
  <2>1. ASSUME NEW n \in Between(kl, m), n \in SentByOpen(s, k, l) PROVE Told(kl, t, q, m)
    BY <1>3, <1>4, <1>6, <2>1, SentIsKnown
  <2>2. m \in Between(kl, m)
    BY <1>3, BetweenAre
  <2>3. CASE m \in SentByOpen(s, k, l)
    BY <2>1, <2>2, <2>3
  <2>4. CASE m \notin SentByOpen(s, k, l)
    <3>1. p \in Kernels /\ IsNewFrom(FromOf(s, k), p, l) /\ SentByOpen(s, k, l) = {l} /\ l \in kl /\ m # l
      BY <1>1, <1>3, <1>6, <2>4 DEF SentByOpen
    <3>2. CASE Ends[m] = Ends[l]
      BY <1>3, <2>1, <3>1, <3>2, BetweenAre
    <3>3. CASE Ends[m] # Ends[l]
      <4>1. p \notin DOMAIN NetOf(s, k)
        <5> SUFFICES ASSUME p \in DOMAIN NetOf(s, k) PROVE FALSE
          OBVIOUS
        <5>1. p \in Side(kl, p, l)
          BY <1>1, <1>3, <3>1, SidesOf
        <5>2. FromOf(s, k)[p] \subseteq Between(kl, l)
          BY <1>1, <1>3, <3>1, <5>1 DEF Rooted
        <5>3. p \in DOMAIN FromOf(s, k) /\ FromOf(s, k)[p] # {}
          BY <1>3 DEF Shaped, Matches
        <5>4. PICK n \in FromOf(s, k)[p] : n # l
          BY <3>1, <5>3 DEF IsNewFrom
        <5>5. n \in Between(kl, l)
          BY <5>2
        <5>6. Ends[m] = Ends[l]
          BY <1>3, <1>6, <3>1, <5>4, <5>5, NoThirdKernel
        <5>7. QED
          BY <3>3, <5>6
      <4>2. k \notin NetOf(t, k)[p].FCustomerInfo
        BY <1>2, <3>1, <4>1 DEF LearnsByOpen
      <4>3. Unanswered(kl, t, k, m)
        BY <1>1, <1>3, <3>1, <3>3, <4>2 DEF Unanswered
      <4>4. QED
        BY <1>6, <4>3
    <3>4. QED
      BY <3>2, <3>3
  <2>5. QED
    BY <2>3, <2>4
<1>7. QED
  BY <1>5, <1>6

LEMMA OpenKeepsGood ==
  ASSUME NEW kl, OneWay(kl), NEW s, NEW t, NEW k \in Kernels, NEW l, OpenStep(kl, s, t, k, l),
         Good(kl, s)
  PROVE  Good(kl, t)
<1>1. /\ Signed(kl, s) /\ Near(kl, s) /\ Bounded(kl, s) /\ Rooted(kl, s)
      /\ Ordered(kl, s) /\ Joined(kl, s) /\ Answered(kl, s) /\ Passed(kl, s)
  BY DEF Good
<1>2. KernelNetLinks(kl) /\ Grows(kl, s, t, k, SentByOpen(s, k, l)) /\ Shaped(kl, t)
  BY OpenGrows DEF OneWay, OpenStep, Sends
<1>3. /\ AllOf(t, k) = AllOf(s, k) \cup {l}
      /\ SentByOpen(s, k, l) \subseteq AllOf(t, k) /\ l \in SentByOpen(s, k, l)
  BY DEF OpenStep, SentByOpen
<1>4. Joined(kl, t) /\ Near(kl, t)
  BY <1>1, OpenKeepsJoined
<1>5. Bounded(kl, t) /\ Rooted(kl, t) /\ Ordered(kl, t) /\ Passed(kl, t)
  BY <1>1, OpenKeepsBounded, OpenKeepsRooted, OpenKeepsOrdered, OpenKeepsPassed
<1>6. Signed(kl, t)
  <2>1. SentByOpen(s, k, l) \cap kl \subseteq AllOf(t, k)
    BY <1>3
  <2>2. QED
    BY <1>1, <1>2, <1>4, <2>1, SignedKept
<1>7. Answered(kl, t)
  <2>1. AllOf(t, k) \subseteq AllOf(s, k) \cup SentByOpen(s, k, l)
    BY <1>3
  <2>2. QED
    BY <1>1, <1>2, <1>4, <2>1, AnsweredKept
<1>8. QED
  BY <1>2, <1>4, <1>5, <1>6, <1>7 DEF Good

-----------------------------------------------------------------------------
(* The first letter of link l is read (MHandle): newer records have more.  *)
SentByHandle(s, k, l) ==
  LET new == Head(MailOf(s, k, l))
  IN IF /\ l \in AllOf(s, k)
        /\ Changed(NetOf(s, k), new, Removed(FromOf(s, k), new, l)) # {}
       THEN AllOf(s, k) \ {l} ELSE {}
HandleStep(kl, s, t, k, l) ==
  LET old == NetOf(s, k)
      new == Head(MailOf(s, k, l))
      from == FromOf(s, k)
      added == Added(old, new)
      removed == Removed(from, new, l)
      newer == Newer(old, new)
  IN /\ l \in kl /\ k \in Ends[l] /\ MailOf(s, k, l) # <<>>
     /\ Sends(kl, s, t, k, SentByHandle(s, k, l))
     /\ NetOf(t, k) = IF Changed(old, new, removed) # {}
                        THEN [j \in (DOMAIN old \ removed) \cup added |->
                                IF j \in added \cup newer THEN new[j] ELSE old[j]]
                        ELSE old
     /\ FromOf(t, k) = [j \in (DOMAIN from \ removed) \cup added |->
                          IF j \in added THEN {l}
                          ELSE IF j \in DOMAIN new THEN from[j] ELSE from[j] \ {l}]
     /\ AllOf(t, k) = AllOf(s, k)
     /\ MailOf(t, k, l) = Tail(MailOf(s, k, l))
     /\ \A m \in kl \ {l} : k \in Ends[m] => MailOf(t, k, m) = MailOf(s, k, m)
     /\ k \notin newer
     /\ \A j \in DOMAIN old \cap DOMAIN new :
          IF j \in newer THEN old[j].FCustomerInfo \subseteq new[j].FCustomerInfo
                         ELSE new[j].FCustomerInfo \subseteq old[j].FCustomerInfo

LearnsByHandle(s, t, k, l, new) ==
  /\ DOMAIN NetOf(t, k) = DOMAIN NetOf(s, k) \cup DOMAIN new
  /\ \A j \in DOMAIN NetOf(s, k) : NetOf(s, k)[j].FCustomerInfo \subseteq NetOf(t, k)[j].FCustomerInfo
  /\ \A j \in DOMAIN new : new[j].FCustomerInfo \subseteq NetOf(t, k)[j].FCustomerInfo
  /\ \A j \in DOMAIN NetOf(t, k) :
       \/ j \in DOMAIN NetOf(s, k) /\ NetOf(t, k)[j].FCustomerInfo = NetOf(s, k)[j].FCustomerInfo
       \/ j \in DOMAIN new /\ NetOf(t, k)[j].FCustomerInfo = new[j].FCustomerInfo
  /\ NetOf(t, k)[k] = NetOf(s, k)[k] /\ k \in DOMAIN NetOf(s, k)
  /\ \A j \in DOMAIN NetOf(s, k) : FromOf(t, k)[j] = FromOf(s, k)[j]
  /\ \A j \in DOMAIN new \ DOMAIN NetOf(s, k) : FromOf(t, k)[j] = {l}
  /\ NetOf(t, k) # NetOf(s, k) /\ l \in AllOf(s, k) => SentByHandle(s, k, l) = AllOf(s, k) \ {l}

LEMMA HandleLearns ==
  ASSUME NEW kl, KernelNetLinks(kl), NEW s, NEW t, NEW k \in Kernels, NEW l,
         HandleStep(kl, s, t, k, l), Ordered(kl, s)
  PROVE  LearnsByHandle(s, t, k, l, Head(MailOf(s, k, l)))
<1> DEFINE old == NetOf(s, k)
           new == Head(MailOf(s, k, l))
           from == FromOf(s, k)
           added == Added(old, new)
           removed == Removed(from, new, l)
           newer == Newer(old, new)
           changed == Changed(old, new, removed)
<1>1. /\ l \in kl /\ k \in Ends[l] /\ MailOf(s, k, l) # <<>> /\ Shaped(kl, s)
      /\ NetOf(t, k) = IF changed # {} THEN [j \in (DOMAIN old \ removed) \cup added |->
                                               IF j \in added \cup newer THEN new[j] ELSE old[j]]
                                       ELSE old
      /\ FromOf(t, k) = [j \in (DOMAIN from \ removed) \cup added |->
                           IF j \in added THEN {l}
                           ELSE IF j \in DOMAIN new THEN from[j] ELSE from[j] \ {l}]
      /\ k \notin newer
      /\ \A j \in DOMAIN old \cap DOMAIN new :
           IF j \in newer THEN old[j].FCustomerInfo \subseteq new[j].FCustomerInfo
                          ELSE new[j].FCustomerInfo \subseteq old[j].FCustomerInfo
  BY DEF HandleStep, Sends
<1>2. DOMAIN from = DOMAIN old /\ k \in DOMAIN old /\ MailOf(s, k, l) \in Seq(Nets)
  BY <1>1 DEF Shaped, Matches
<1>3. new \in ItemsIn(MailOf(s, k, l))
  BY <1>1, <1>2, ReadItems
<1>4. \A j \in DOMAIN old : l \in from[j] => j \in DOMAIN new
  BY <1>1, <1>3 DEF Ordered
<1>5. NetOf(t, k) # old /\ l \in AllOf(s, k) => SentByHandle(s, k, l) = AllOf(s, k) \ {l}
  BY <1>1 DEF SentByHandle
<1> HIDE DEF old, new, from
<1>6. removed = {}
  BY <1>2, <1>4 DEF Removed, OnlyFrom
<1>7. added = DOMAIN new \ DOMAIN old
  BY DEF Added
<1>8. \A j \in newer : j \in DOMAIN old /\ j \in DOMAIN new
  BY DEF Newer
<1>9. changed = {} => added = {} /\ \A j \in newer : new[j].FCustomerInfo = old[j].FCustomerInfo
  BY DEF Changed
<1> HIDE DEF added, removed, newer, changed
<1>10. /\ DOMAIN FromOf(t, k) = DOMAIN old \cup DOMAIN new
       /\ \A j \in DOMAIN old : FromOf(t, k)[j] = from[j]
       /\ \A j \in DOMAIN new \ DOMAIN old : FromOf(t, k)[j] = {l}
  BY <1>1, <1>2, <1>4, <1>6, <1>7
<1>11. DOMAIN NetOf(t, k) = DOMAIN old \cup DOMAIN new
  BY <1>1, <1>6, <1>7, <1>9
<1>12. ASSUME NEW j \in DOMAIN old
       PROVE  /\ old[j].FCustomerInfo \subseteq NetOf(t, k)[j].FCustomerInfo
              /\ j \in DOMAIN new => new[j].FCustomerInfo \subseteq NetOf(t, k)[j].FCustomerInfo
              /\ \/ NetOf(t, k)[j].FCustomerInfo = old[j].FCustomerInfo
                 \/ j \in DOMAIN new /\ NetOf(t, k)[j].FCustomerInfo = new[j].FCustomerInfo
              /\ j \notin newer => NetOf(t, k)[j] = old[j]
  <2>1. CASE changed = {}
    <3>1. NetOf(t, k)[j] = old[j]
      BY <1>1, <2>1
    <3>2. j \in DOMAIN new => new[j].FCustomerInfo \subseteq old[j].FCustomerInfo
      BY <1>1, <1>9, <2>1
    <3>3. QED
      BY <3>1, <3>2
  <2>2. CASE changed # {}
    <3>1. NetOf(t, k)[j] = IF j \in newer THEN new[j] ELSE old[j]
      BY <1>1, <1>6, <1>7, <2>2
    <3>2. QED
      BY <1>1, <1>8, <3>1
  <2>3. QED
    BY <2>1, <2>2
<1>13. \A j \in DOMAIN new \ DOMAIN old : NetOf(t, k)[j] = new[j]
  BY <1>1, <1>6, <1>7, <1>9
<1>14. NetOf(t, k)[k] = old[k]
  BY <1>1, <1>2, <1>12
<1>15. \A j \in DOMAIN new : new[j].FCustomerInfo \subseteq NetOf(t, k)[j].FCustomerInfo
  BY <1>12, <1>13
<1>16. \A j \in DOMAIN NetOf(t, k) :
         \/ j \in DOMAIN old /\ NetOf(t, k)[j].FCustomerInfo = old[j].FCustomerInfo
         \/ j \in DOMAIN new /\ NetOf(t, k)[j].FCustomerInfo = new[j].FCustomerInfo
  BY <1>11, <1>12, <1>13
<1>17. QED
  BY <1>2, <1>5, <1>10, <1>11, <1>12, <1>14, <1>15, <1>16 DEF LearnsByHandle, old, new, from

LEMMA HandleGrows ==
  ASSUME NEW kl, KernelNetLinks(kl), NEW s, NEW t, NEW k \in Kernels, NEW l,
         HandleStep(kl, s, t, k, l), Ordered(kl, s)
  PROVE  Grows(kl, s, t, k, SentByHandle(s, k, l))
<1>1. PICK new : new = Head(MailOf(s, k, l))
  OBVIOUS
<1>2. LearnsByHandle(s, t, k, l, new)
  BY <1>1, HandleLearns
<1>3. Includes(NetOf(t, k), NetOf(s, k)) /\ Includes(NetOf(t, k), new)
  BY <1>2 DEF LearnsByHandle, Includes, Covers
<1>4. ASSUME NEW m \in kl, k \in Ends[m]
      PROVE  /\ ItemsIn(MailOf(t, k, m)) \subseteq ItemsIn(MailOf(s, k, m))
             /\ \A net \in ItemsIn(MailOf(s, k, m)) :
                  net \in ItemsIn(MailOf(t, k, m)) \/ Includes(NetOf(t, k), net)
  <2>1. CASE m = l
    <3>1. /\ MailOf(s, k, l) \in Seq(Nets) /\ MailOf(s, k, l) # <<>>
          /\ MailOf(t, k, l) = Tail(MailOf(s, k, l))
      BY <1>4, <2>1 DEF HandleStep, Sends, Shaped
    <3>2. ItemsIn(MailOf(s, k, l)) = ItemsIn(MailOf(t, k, l)) \cup {new}
      BY <1>1, <3>1, ReadItems
    <3>3. QED
      BY <1>3, <2>1, <3>2
  <2>2. CASE m # l
    BY <1>4, <2>2 DEF HandleStep
  <2>3. QED
    BY <2>1, <2>2
<1>5. QED
  BY <1>3, <1>4 DEF HandleStep, Grows

(* A letter has nothing new of the kernels on the side of its receiver.    *)
LEMMA OwnSideStays ==
  ASSUME NEW kl, OneWay(kl), NEW s, NEW t, NEW k \in Kernels, NEW l, HandleStep(kl, s, t, k, l),
         Ordered(kl, s), Bounded(kl, s), NEW j \in DOMAIN NetOf(t, k) \cap Side(kl, k, l)
  PROVE  /\ j \in DOMAIN NetOf(s, k)
         /\ NetOf(t, k)[j].FCustomerInfo = NetOf(s, k)[j].FCustomerInfo
<1>1. PICK new : new = Head(MailOf(s, k, l))
  OBVIOUS
<1>2. KernelNetLinks(kl) /\ l \in kl /\ k \in Ends[l]
  BY DEF OneWay, HandleStep
<1>3. LearnsByHandle(s, t, k, l, new)
  BY <1>1, <1>2, HandleLearns
<1>4. new \in ItemsIn(MailOf(s, k, l))
  BY <1>1, <1>2, ReadItems DEF HandleStep, Sends, Shaped
<1>5. new \in HasAt(kl, s, k, l)
  BY <1>2, <1>4, BetweenAre, HasIs
<1>6. Within(new, NetOf(s, k), Side(kl, k, l))
  BY <1>2, <1>5 DEF Bounded
<1>7. CASE j \in DOMAIN new
  <2>1. j \in DOMAIN NetOf(s, k) /\ new[j].FCustomerInfo \subseteq NetOf(s, k)[j].FCustomerInfo
    BY <1>6, <1>7 DEF Within, Covers
  <2>2. QED
    BY <1>3, <2>1 DEF LearnsByHandle
<1>8. CASE j \notin DOMAIN new
  BY <1>3, <1>8 DEF LearnsByHandle
<1>9. QED
  BY <1>7, <1>8

(* Reading a letter keeps what the kernels know of each other.             *)
LEMMA HandleKeepsBounded ==
  ASSUME NEW kl, OneWay(kl), NEW s, NEW t, NEW k \in Kernels, NEW l, HandleStep(kl, s, t, k, l),
         Ordered(kl, s), Bounded(kl, s)
  PROVE  Bounded(kl, t)
<1>1. PICK new : new = Head(MailOf(s, k, l))
  OBVIOUS
<1>2. KernelNetLinks(kl) /\ l \in kl /\ k \in Ends[l]
  BY DEF OneWay, HandleStep
<1>3. LearnsByHandle(s, t, k, l, new)
  BY <1>1, <1>2, HandleLearns
<1>4. new \in ItemsIn(MailOf(s, k, l))
  BY <1>1, <1>2, ReadItems DEF HandleStep, Sends, Shaped
<1>5. ASSUME NEW m \in kl, k \in Ends[m], NEW h, h = Peer(k, m),
             NEW j \in DOMAIN NetOf(t, k) \cap Side(kl, h, m)
      PROVE  Covers(NetOf(s, h), j, NetOf(t, k)[j].FCustomerInfo)
  <2>1. h \in Ends[m] /\ Peer(h, m) = k /\ h \in Kernels
    BY <1>2, <1>5, KernelEnds
  <2>2. ASSUME NEW net \in HasAt(kl, s, k, m), j \in DOMAIN net,
               net[j].FCustomerInfo = NetOf(t, k)[j].FCustomerInfo
        PROVE  Covers(NetOf(s, h), j, NetOf(t, k)[j].FCustomerInfo)
    <3>1. Within(net, NetOf(s, h), Side(kl, h, m))
      BY <2>1, <2>2 DEF Bounded
    <3>2. QED
      BY <1>5, <2>2, <3>1 DEF Within
  <2>3. NetOf(s, k) \in HasAt(kl, s, k, m)
    BY HasIs
  <2>4. CASE j \in DOMAIN NetOf(s, k) /\ NetOf(t, k)[j].FCustomerInfo = NetOf(s, k)[j].FCustomerInfo
    BY <2>2, <2>3, <2>4
  <2>5. CASE ~(j \in DOMAIN NetOf(s, k) /\ NetOf(t, k)[j].FCustomerInfo = NetOf(s, k)[j].FCustomerInfo)
    <3>1. j \in DOMAIN new /\ NetOf(t, k)[j].FCustomerInfo = new[j].FCustomerInfo
      BY <1>3, <2>5 DEF LearnsByHandle
    <3>2. j \notin Side(kl, k, l)
      BY <2>5, OwnSideStays
    <3>3. Ends[m] = Ends[l]
      BY <1>2, <1>5, <3>2, SidesOf
    <3>4. l \in Between(kl, m)
      BY <1>2, <1>5, <3>3, SidesOf
    <3>5. new \in HasAt(kl, s, k, m)
      BY <1>4, <3>4, HasIs
    <3>6. QED
      BY <2>2, <3>1, <3>5
  <2>6. QED
    BY <2>4, <2>5
<1>6. \A m \in kl : k \in Ends[m] =>
        Within(NetOf(t, k), NetOf(s, Peer(k, m)), Side(kl, Peer(k, m), m))
  BY <1>5 DEF Within
<1>7. QED
  BY <1>2, <1>6, HandleGrows, BoundedKept

LEMMA HandleKeepsRooted ==
  ASSUME NEW kl, OneWay(kl), NEW s, NEW t, NEW k \in Kernels, NEW l, HandleStep(kl, s, t, k, l),
         Ordered(kl, s), Bounded(kl, s), Rooted(kl, s)
  PROVE  Rooted(kl, t)
<1>1. PICK new : new = Head(MailOf(s, k, l))
  OBVIOUS
<1>2. KernelNetLinks(kl) /\ l \in kl /\ k \in Ends[l]
  BY DEF OneWay, HandleStep
<1>3. LearnsByHandle(s, t, k, l, new)
  BY <1>1, <1>2, HandleLearns
<1> SUFFICES ASSUME NEW m \in kl, NEW q \in Ends[m], NEW j \in DOMAIN NetOf(t, q) \cap Side(kl, Peer(q, m), m)
             PROVE  FromOf(t, q)[j] \subseteq Between(kl, m)
  BY DEF Rooted
<1>4. j \in DOMAIN NetOf(s, q) => FromOf(s, q)[j] \subseteq Between(kl, m)
  BY DEF Rooted
<1>5. CASE q # k
  <2>1. q \in Kernels
    BY <1>2, KernelEnds
  <2>2. NetOf(t, q) = NetOf(s, q) /\ FromOf(t, q) = FromOf(s, q)
    BY <1>5, <2>1 DEF HandleStep, Sends
  <2>3. QED
    BY <1>4, <2>2
<1>6. CASE q = k
  <2>1. CASE j \in DOMAIN NetOf(s, k)
    BY <1>3, <1>4, <1>6, <2>1 DEF LearnsByHandle
  <2>2. CASE j \notin DOMAIN NetOf(s, k)
    <3>1. FromOf(t, k)[j] = {l}
      BY <1>3, <1>6, <2>2 DEF LearnsByHandle
    <3>2. j \notin Side(kl, k, l)
      BY <1>6, <2>2, OwnSideStays
    <3>3. l \in Between(kl, m)
      BY <1>2, <1>6, <3>2, SidesOf
    <3>4. QED
      BY <1>6, <3>1, <3>3
  <2>3. QED
    BY <2>1, <2>2
<1>7. QED
  BY <1>5, <1>6

LEMMA HandleKeepsOrdered ==
  ASSUME NEW kl, OneWay(kl), NEW s, NEW t, NEW k \in Kernels, NEW l, HandleStep(kl, s, t, k, l),
         Ordered(kl, s)
  PROVE  Ordered(kl, t)
<1>1. PICK new : new = Head(MailOf(s, k, l))
  OBVIOUS
<1>2. KernelNetLinks(kl) /\ l \in kl /\ k \in Ends[l]
  BY DEF OneWay, HandleStep
<1>3. LearnsByHandle(s, t, k, l, new)
  BY <1>1, <1>2, HandleLearns
<1>4. /\ MailOf(s, k, l) \in Seq(Nets) /\ MailOf(s, k, l) # <<>>
      /\ MailOf(t, k, l) = Tail(MailOf(s, k, l))
      /\ \A m \in kl \ {l} : k \in Ends[m] => MailOf(t, k, m) = MailOf(s, k, m)
  BY DEF HandleStep, Sends, Shaped
<1>5. ASSUME NEW m \in kl, k \in Ends[m]
      PROVE  /\ Ascending(MailOf(t, k, m))
             /\ \A j \in DOMAIN NetOf(t, k) : m \in FromOf(t, k)[j] =>
                  /\ j \in DOMAIN NetOf(s, Peer(k, m))
                  /\ \A net \in ItemsIn(MailOf(t, k, m)) : j \in DOMAIN net
  <2>1. /\ Ascending(MailOf(s, k, m))
        /\ \A net \in ItemsIn(MailOf(s, k, m)) : DOMAIN net \subseteq DOMAIN NetOf(s, Peer(k, m))
        /\ \A j \in DOMAIN NetOf(s, k) : m \in FromOf(s, k)[j] =>
             /\ j \in DOMAIN NetOf(s, Peer(k, m))
             /\ \A net \in ItemsIn(MailOf(s, k, m)) : j \in DOMAIN net
    BY <1>5 DEF Ordered
  <2>2. ASSUME NEW j \in DOMAIN NetOf(t, k), m \in FromOf(t, k)[j]
        PROVE  \/ j \in DOMAIN NetOf(s, k) /\ m \in FromOf(s, k)[j]
               \/ j \in DOMAIN new /\ m = l
    BY <1>3, <2>2 DEF LearnsByHandle
  <2>3. CASE m # l
    <3>1. MailOf(t, k, m) = MailOf(s, k, m)
      BY <1>4, <1>5, <2>3
    <3>2. QED
      BY <2>1, <2>2, <2>3, <3>1
  <2>4. CASE m = l
    <3>1. /\ ItemsIn(MailOf(s, k, m)) = ItemsIn(MailOf(t, k, m)) \cup {new}
          /\ Ascending(MailOf(t, k, m))
          /\ \A net \in ItemsIn(MailOf(s, k, m)) : DOMAIN new \subseteq DOMAIN net
      BY <1>1, <1>4, <2>1, <2>4, ReadItems
    <3>2. QED
      BY <2>1, <2>2, <3>1
  <2>5. QED
    BY <2>3, <2>4
<1>6. QED
  BY <1>2, <1>5, HandleGrows, OrderedKept

LEMMA HandleKeepsJoined ==
  ASSUME NEW kl, OneWay(kl), NEW s, NEW t, NEW k \in Kernels, NEW l, HandleStep(kl, s, t, k, l),
         Ordered(kl, s), Joined(kl, s), Near(kl, s)
  PROVE  Joined(kl, t) /\ Near(kl, t)
<1>1. PICK new : new = Head(MailOf(s, k, l))
  OBVIOUS
<1>2. KernelNetLinks(kl) /\ l \in kl /\ k \in Ends[l] /\ AllOf(t, k) = AllOf(s, k)
  BY DEF OneWay, HandleStep
<1>3. LearnsByHandle(s, t, k, l, new)
  BY <1>1, <1>2, HandleLearns
<1>4. \A q \in Kernels \ {k} :
        NetOf(t, q) = NetOf(s, q) /\ AllOf(t, q) = AllOf(s, q)
  BY DEF HandleStep, Sends
<1>5. ASSUME NEW m \in AllOf(t, k)
      PROVE  /\ Peer(k, m) \in NetOf(t, k)[k].FCustomerInfo
             /\ m \in kl => Peer(k, m) \in DOMAIN NetOf(t, k)
  <2>1. /\ Peer(k, m) \in NetOf(s, k)[k].FCustomerInfo
        /\ m \in kl => Peer(k, m) \in DOMAIN NetOf(s, k)
    BY <1>2 DEF Joined
  <2>2. QED
    BY <1>3, <2>1 DEF LearnsByHandle
<1>6. Joined(kl, t)
  BY <1>4, <1>5 DEF Joined
<1>7. DOMAIN NetOf(t, k) \subseteq ConnectedBy(kl, k)
  <2>1. PICK p : p = Peer(k, l)
    OBVIOUS
  <2>2. p \in Ends[l] /\ p \in Kernels
    BY <1>2, <2>1, KernelEnds
  <2>3. new \in ItemsIn(MailOf(s, k, l))
    BY <1>1, <1>2, ReadItems DEF HandleStep, Sends, Shaped
  <2>4. DOMAIN new \subseteq DOMAIN NetOf(s, p)
    BY <1>2, <2>1, <2>3 DEF Ordered
  <2>5. DOMAIN NetOf(s, p) \subseteq ConnectedBy(kl, p) /\ DOMAIN NetOf(s, k) \subseteq ConnectedBy(kl, k)
    BY <2>2 DEF Near
  <2>6. p \in ConnectedBy(kl, k)
    <3>1. k \in ConnectedBy(kl, k) /\ ClosedBy(kl, ConnectedBy(kl, k))
      BY <1>2, JoinedAre
    <3>2. QED
      BY <1>2, <2>2, <3>1 DEF ClosedBy
  <2>7. ConnectedBy(kl, p) = ConnectedBy(kl, k)
    BY <1>2, <2>6, JoinedTogether
  <2>8. QED
    BY <1>3, <2>4, <2>5, <2>7 DEF LearnsByHandle
<1>8. Near(kl, t)
  BY <1>4, <1>7 DEF Near
<1>9. QED
  BY <1>6, <1>8

LEMMA HandleKeepsPassed ==
  ASSUME NEW kl, OneWay(kl), NEW s, NEW t, NEW k \in Kernels, NEW l, HandleStep(kl, s, t, k, l),
         Ordered(kl, s), Bounded(kl, s), Signed(kl, s), Joined(kl, s), Passed(kl, s)
  PROVE  Passed(kl, t)
<1>1. PICK new : new = Head(MailOf(s, k, l))
  OBVIOUS
<1>2. KernelNetLinks(kl) /\ l \in kl /\ k \in Ends[l] /\ AllOf(t, k) = AllOf(s, k)
  BY DEF OneWay, HandleStep
<1>3. LearnsByHandle(s, t, k, l, new)
  BY <1>1, <1>2, HandleLearns
<1>4. Grows(kl, s, t, k, SentByHandle(s, k, l))
  BY <1>2, HandleGrows
<1> SUFFICES ASSUME NEW m \in kl, NEW q \in Ends[m], m \in AllOf(t, q)
             PROVE  Told(kl, t, q, m) \/ Unanswered(kl, t, q, m) \/ Unopened(kl, t, q)
  BY DEF Passed
<1>5. q \in Kernels
  BY <1>2, KernelEnds
<1>6. m \in AllOf(s, q)
  BY <1>2, <1>5 DEF HandleStep, Sends
<1>7. Told(kl, s, q, m) \/ Unanswered(kl, s, q, m) \/ Unopened(kl, s, q)
  BY <1>6 DEF Passed
<1>8. CASE q # k
  BY <1>2, <1>4, <1>7, <1>8, PassedKept
<1>9. ASSUME q = k, NetOf(t, k) # NetOf(s, k), Ends[m] # Ends[l]
      PROVE  Told(kl, t, k, m) \/ Unopened(kl, t, k)
  <2>1. CASE l \in AllOf(s, k)
    <3>1. m \in SentByHandle(s, k, l)
      BY <1>3, <1>6, <1>9, <2>1 DEF LearnsByHandle
    <3>2. m \in Between(kl, m)
      BY <1>2, BetweenAre
    <3>3. QED
      BY <1>2, <1>4, <1>9, <3>1, <3>2, SentIsKnown
  <2>2. CASE l \notin AllOf(s, k)
    BY <1>2, <2>2 DEF Unopened
  <2>3. QED
    BY <2>1, <2>2
<1>10. CASE q = k
  <2>1. CASE Unopened(kl, s, k)
    BY <1>2, <1>10, <2>1 DEF Unopened
  <2>2. CASE Unanswered(kl, s, k, m)
    <3>1. PICK n \in kl : /\ k \in Ends[n] /\ Ends[n] # Ends[m] /\ n \in AllOf(s, k)
                          /\ k \notin NetOf(s, k)[Peer(k, n)].FCustomerInfo
      BY <2>2 DEF Unanswered
    <3>2. PICK h : h = Peer(k, n)
      OBVIOUS
    <3>3. h \in DOMAIN NetOf(s, k) /\ k \notin NetOf(s, k)[h].FCustomerInfo
      BY <3>1, <3>2 DEF Joined
    <3>4. CASE k \notin NetOf(t, k)[h].FCustomerInfo
      <4>1. Unanswered(kl, t, k, m)
        BY <1>2, <3>1, <3>2, <3>4 DEF Unanswered
      <4>2. QED
        BY <1>10, <4>1
    <3>5. CASE k \in NetOf(t, k)[h].FCustomerInfo
      <4>1. NetOf(t, k) # NetOf(s, k)
        BY <3>3, <3>5
      <4>2. h \in DOMAIN NetOf(t, k)
        BY <1>3, <3>3 DEF LearnsByHandle
      <4>3. h \notin Side(kl, k, l)
        BY <3>3, <3>5, <4>2, OwnSideStays
      <4>4. Ends[n] = Ends[l]
        <5>1. Ends[n] # Ends[l] => h \in Side(kl, k, l)
          <6>1. h \in Side(kl, h, n)
            BY <1>2, <3>1, <3>2, SidesOf
          <6>2. Ends[n] # Ends[l] => Side(kl, h, n) \subseteq Side(kl, k, l)
            BY <1>2, <3>1, <3>2, SidesOf
          <6>3. QED
            BY <6>1, <6>2
        <5>2. QED
          BY <4>3, <5>1
      <4>5. QED
        BY <1>9, <1>10, <3>1, <4>1, <4>4
    <3>6. QED
      BY <3>4, <3>5
  <2>3. CASE Told(kl, s, k, m)
    <3>1. ASSUME \A j \in DOMAIN NetOf(t, k) \cap Side(kl, k, m) :
                   /\ j \in DOMAIN NetOf(s, k)
                   /\ NetOf(t, k)[j].FCustomerInfo = NetOf(s, k)[j].FCustomerInfo
          PROVE  Told(kl, t, k, m)
      BY <1>2, <1>4, <1>10, <2>3, <3>1, PassedKept
    <3>2. CASE Ends[m] = Ends[l]
      <4>1. Side(kl, k, m) = Side(kl, k, l)
        BY <1>2, <1>10, <3>2, SidesOf
      <4>2. \A j \in DOMAIN NetOf(t, k) \cap Side(kl, k, m) :
              /\ j \in DOMAIN NetOf(s, k)
              /\ NetOf(t, k)[j].FCustomerInfo = NetOf(s, k)[j].FCustomerInfo
        BY <4>1, OwnSideStays
      <4>3. QED
        BY <1>10, <3>1, <4>2
    <3>3. CASE Ends[m] # Ends[l]
      <4>1. CASE NetOf(t, k) = NetOf(s, k)
        BY <1>10, <3>1, <4>1
      <4>2. CASE NetOf(t, k) # NetOf(s, k)
        BY <1>9, <1>10, <3>3, <4>2
      <4>3. QED
        BY <4>1, <4>2
    <3>4. QED
      BY <3>2, <3>3
  <2>4. QED
    BY <1>7, <1>10, <2>1, <2>2, <2>3
<1>11. QED
  BY <1>8, <1>10

LEMMA HandleKeepsGood ==
  ASSUME NEW kl, OneWay(kl), NEW s, NEW t, NEW k \in Kernels, NEW l, HandleStep(kl, s, t, k, l),
         Good(kl, s)
  PROVE  Good(kl, t)
<1>1. /\ Signed(kl, s) /\ Near(kl, s) /\ Bounded(kl, s) /\ Rooted(kl, s)
      /\ Ordered(kl, s) /\ Joined(kl, s) /\ Answered(kl, s) /\ Passed(kl, s)
  BY DEF Good
<1>2. KernelNetLinks(kl) /\ Shaped(kl, t) /\ AllOf(t, k) = AllOf(s, k)
  BY DEF OneWay, HandleStep, Sends
<1>3. Grows(kl, s, t, k, SentByHandle(s, k, l))
  BY <1>1, <1>2, HandleGrows
<1>4. Joined(kl, t) /\ Near(kl, t)
  BY <1>1, HandleKeepsJoined
<1>5. Bounded(kl, t) /\ Rooted(kl, t) /\ Ordered(kl, t) /\ Passed(kl, t)
  BY <1>1, HandleKeepsBounded, HandleKeepsRooted, HandleKeepsOrdered, HandleKeepsPassed
<1>6. Signed(kl, t)
  <2>1. SentByHandle(s, k, l) \cap kl \subseteq AllOf(t, k)
    BY <1>2 DEF SentByHandle
  <2>2. QED
    BY <1>1, <1>2, <1>3, <1>4, <2>1, SignedKept
<1>7. Answered(kl, t)
  <2>1. AllOf(t, k) \subseteq AllOf(s, k) \cup SentByHandle(s, k, l)
    BY <1>2
  <2>2. QED
    BY <1>1, <1>2, <1>3, <1>4, <2>1, AnsweredKept
<1>8. QED
  BY <1>2, <1>4, <1>5, <1>6, <1>7 DEF Good

(* Once every letter is read and every link opened, nothing is left to be  *)
(* passed on: what a kernel says of itself is known all over its net.      *)
LEMMA GoodSettles ==
  ASSUME NEW kl, OneWay(kl), NEW s, Good(kl, s),
         \A l \in kl : \A q \in Ends[l] : MailOf(s, q, l) = <<>> /\ l \in AllOf(s, q),
         NEW j \in Kernels, NEW k \in ConnectedBy(kl, j)
  PROVE  Covers(NetOf(s, k), j, NetOf(s, j)[j].FCustomerInfo)
<1>1. KernelNetLinks(kl)
  BY DEF OneWay
<1>2. ASSUME NEW l \in kl, NEW q \in Ends[l], NEW net \in HasAt(kl, s, q, l) PROVE net = NetOf(s, q)
  <2>1. \A x : x \notin ItemsIn(<<>>)
    BY DEF ItemsIn
  <2>2. \A m \in Between(kl, l) : MailOf(s, q, m) = <<>>
    BY <1>1, BetweenAre
  <2>3. QED
    BY <1>2, <2>1, <2>2, HasIs
<1>3. ASSUME NEW l \in kl, NEW p \in Ends[l] PROVE p \in NetOf(s, p)[Peer(p, l)].FCustomerInfo
  <2>1. Peer(p, l) \in Ends[l]
    BY <1>1, KernelEnds
  <2>2. PICK net \in HasAt(kl, s, p, l) : Covers(net, Peer(p, l), {p})
    BY <2>1, Zenon DEF Answered, Good, KnowsAt
  <2>3. net = NetOf(s, p)
    BY <1>2
  <2>4. QED
    BY <2>2, <2>3 DEF Covers
<1>4. ASSUME NEW l \in kl, NEW p \in Ends[l], NEW i \in DOMAIN NetOf(s, p)
      PROVE  Covers(NetOf(s, Peer(p, l)), i, NetOf(s, p)[i].FCustomerInfo)
  <2>1. PICK q : q = Peer(p, l)
    OBVIOUS
  <2>2. q \in Ends[l] /\ Peer(q, l) = p /\ p \in Kernels
    BY <1>1, <2>1, KernelEnds
  <2>3. i \in Side(kl, p, l) \/ i \in Side(kl, q, l)
    <3>1. i \in ConnectedBy(kl, p)
      BY <2>2 DEF Good, Near
    <3>2. QED
      BY <2>1, <3>1, SidesAre
  <2>4. CASE i \in Side(kl, q, l)
    <3>1. NetOf(s, p) \in HasAt(kl, s, Peer(q, l), l)
      BY <2>2, HasIs
    <3>2. Within(NetOf(s, p), NetOf(s, q), Side(kl, q, l))
      BY <2>2, <3>1 DEF Good, Bounded
    <3>3. QED
      BY <2>1, <2>4, <3>2 DEF Within
  <2>5. CASE i \in Side(kl, p, l)
    <3>1. ~Unopened(kl, s, p) /\ ~Unanswered(kl, s, p, l)
      BY <1>3 DEF Unopened, Unanswered
    <3>2. Told(kl, s, p, l)
      BY <3>1 DEF Good, Passed
    <3>3. PICK net \in HasAt(kl, s, q, l) : Covers(net, i, NetOf(s, p)[i].FCustomerInfo)
      BY <2>1, <2>5, <3>2 DEF Told, KnowsAt
    <3>4. net = NetOf(s, q)
      BY <1>2, <2>2
    <3>5. QED
      BY <2>1, <3>3, <3>4
  <2>6. QED
    BY <2>3, <2>4, <2>5
<1> DEFINE T == {i \in Kernels : Covers(NetOf(s, i), j, NetOf(s, j)[j].FCustomerInfo)}
<1>5. j \in T
  BY DEF Good, Shaped, Matches, Covers
<1>6. ClosedBy(kl, T)
  <2> SUFFICES ASSUME NEW l \in kl, NEW p \in Ends[l], p \in T PROVE Ends[l] \subseteq T
    BY DEF ClosedBy
  <2>1. PICK q : q = Peer(p, l)
    OBVIOUS
  <2>2. Ends[l] = {p, q} /\ q \in Kernels
    BY <1>1, <2>1, KernelEnds
  <2>3. Covers(NetOf(s, q), j, NetOf(s, p)[j].FCustomerInfo)
    BY <1>4, <2>1 DEF Covers
  <2>4. Covers(NetOf(s, q), j, NetOf(s, j)[j].FCustomerInfo)
    BY <2>3 DEF Covers
  <2>5. QED
    BY <2>2, <2>4
<1>7. ConnectedBy(kl, j) \subseteq T
  BY <1>1, <1>5, <1>6, JoinedAre
<1>8. QED
  BY <1>7

-----------------------------------------------------------------------------
(* Calm runs: nothing breaks, one thread per kernel, and every kernel that *)
(* has a link works.  The letters of a link are those on their way, in the *)
(* pool and, first, in the thread's hand.                                  *)
Calm ==
  /\ world.threads = 1 /\ broken = {} /\ OneWayOnly
  /\ \A k \in world.silent : LinksOf(k) = {}

InHand(q, l) ==
  IF taken[q] # <<>> /\ Head(taken[q]).what = "info" /\ Head(taken[q]).id = l
    THEN <<Head(taken[q]).net>> ELSE <<>>
Letters(q, l) == InHand(q, l) \o infos[q][l]

Snap == [net |-> FNet, from |-> FUUIDFrom, all |-> FAllDescriptors,
         mail |-> [l \in KernelLinks |-> [q \in Ends[l] |-> Letters(q, l)]]]

(* Kernels that stand still, in any run.                                   *)
Off ==
  /\ DOMAIN FDescriptors = Kernels
  /\ \A k \in Kernels :
       /\ k \in world.silent => \A l \in LinksOf(k) : FDescriptors[k][l] = "created"
       /\ k \in aborted => LinksOf(k) \subseteq broken

(* A link that is open has been added or is about to be.                   *)
OpsAt(k) == ItemsIn(events[k]) \cup ItemsIn(taken[k])
Agrees(k, l) ==
  /\ FDescriptors[k][l] \in {"created", "open"}
  /\ l \in FAllDescriptors[k] => FDescriptors[k][l] = "open"
  /\ FDescriptors[k][l] = "open" => l \in FAllDescriptors[k] \/ Open(l) \in OpsAt(k)
  /\ l \notin KernelLinks => infos[k][l] = <<>>
Fits(k, op) ==
  /\ op.what # "close"
  /\ op.what = "open" => op.id \in LinksOf(k) /\ FDescriptors[k][op.id] = "open"
  /\ op.what = "info" => op.id \in KernelLinks /\ k \in Ends[op.id]
WiredAt(k) ==
  /\ Len(taken[k]) <= 1
  /\ FAllDescriptors[k] \subseteq LinksOf(k) /\ DOMAIN FDescriptors[k] = LinksOf(k)
  /\ \A l \in LinksOf(k) : Agrees(k, l)
  /\ \A op \in OpsAt(k) : Fits(k, op)
Wired ==
  /\ DOMAIN FAllDescriptors = Kernels /\ DOMAIN FDescriptors = Kernels
  /\ \A k \in Kernels : WiredAt(k)

LEMMA KernelLinksAre ==
  ASSUME Types
  PROVE  /\ KernelNetLinks(KernelLinks)
         /\ \A l \in KernelLinks : \A q \in Ends[l] : q \in Kernels /\ l \in LinksOf(q)
         /\ \A k \in Kernels : LinksOf(k) \subseteq Links /\ \A l \in LinksOf(k) : k \in Ends[l]
         /\ \A k \in Kernels : \A l \in LinksOf(k) : l \in KernelLinks <=> Peer(k, l) \in Kernels
<1>1. world.links \subseteq Links
  BY WorldAssumption DEF Types
<1>2. ASSUME NEW k \in Kernels, NEW l \in LinksOf(k) PROVE l \in KernelLinks <=> Peer(k, l) \in Kernels
  <2>1. l \in Links /\ k \in Ends[l] /\ l \in world.links
    BY <1>1 DEF LinksOf
  <2>2. Ends[l] = {k, Peer(k, l)}
    BY <2>1, EndsAre
  <2>3. QED
    BY <2>1, <2>2 DEF KernelLinks
<1>3. QED
  BY <1>1, <1>2 DEF KernelLinks, KernelNetLinks, LinksOf

LEMMA LettersAre ==
  ASSUME Types, NEW q \in Kernels, NEW l \in LinksOf(q)
  PROVE  /\ InHand(q, l) \in Seq(Nets) /\ infos[q][l] \in Seq(Nets) /\ Letters(q, l) \in Seq(Nets)
         /\ \A net \in Nets : InHand(q, l) \o Append(infos[q][l], net) = Append(Letters(q, l), net)
         /\ InHand(q, l) = <<>> => Letters(q, l) = infos[q][l]
<1>1. infos[q][l] \in Seq(Nets)
  BY DEF Types, LettersType
<1>2. InHand(q, l) \in Seq(Nets)
  <2>1. CASE InHand(q, l) = <<>>
    BY <2>1, EmptySeq
  <2>2. CASE InHand(q, l) # <<>>
    <3>1. /\ taken[q] # <<>> /\ Head(taken[q]).what = "info"
          /\ InHand(q, l) = <<Head(taken[q]).net>>
      BY <2>2 DEF InHand
    <3>2. Head(taken[q]) \in Ops
      BY <3>1, HeadTailProperties DEF Types
    <3>3. Head(taken[q]).net \in Nets
      BY <3>1, <3>2, OpsAre
    <3>4. QED
      BY <3>1, <3>3
  <2>3. QED
    BY <2>1, <2>2
<1>3. InHand(q, l) = <<>> => Letters(q, l) = infos[q][l]
  BY <1>1, ConcatEmptySeq DEF Letters
<1>4. Letters(q, l) \in Seq(Nets)
  BY <1>1, <1>2, ConcatProperties DEF Letters
<1>5. \A net \in Nets : InHand(q, l) \o Append(infos[q][l], net) = Append(Letters(q, l), net)
  BY <1>1, <1>2, AppendToRow DEF Letters
<1>6. QED
  BY <1>1, <1>2, <1>3, <1>4, <1>5

LEMMA SnapIs ==
  ASSUME NEW s, s = Snap
  PROVE  /\ \A k : NetOf(s, k) = FNet[k] /\ FromOf(s, k) = FUUIDFrom[k] /\ AllOf(s, k) = FAllDescriptors[k]
         /\ \A l \in KernelLinks : \A q \in Ends[l] : MailOf(s, q, l) = Letters(q, l)
BY DEF Snap, NetOf, FromOf, AllOf, MailOf

LEMMA NextSnapIs ==
  ASSUME NEW t, t = Snap', world' = world
  PROVE  /\ \A k : NetOf(t, k) = FNet'[k] /\ FromOf(t, k) = FUUIDFrom'[k] /\ AllOf(t, k) = FAllDescriptors'[k]
         /\ \A l \in KernelLinks : \A q \in Ends[l] : MailOf(t, q, l) = Letters(q, l)'
<1>1. KernelLinks' = KernelLinks
  BY DEF KernelLinks
<1>2. QED
  BY <1>1 DEF Snap, NetOf, FromOf, AllOf, MailOf

LEMMA SnapIsShaped ==
  ASSUME Types, Known, NEW s, s = Snap
  PROVE  Shaped(KernelLinks, s)
<1>1. \A k \in Kernels : FNet[k] \in Nets /\ Matches(k, FNet[k], FUUIDFrom[k])
  BY DEF Types, Known
<1>2. ASSUME NEW l \in KernelLinks, NEW q \in Ends[l] PROVE MailOf(s, q, l) \in Seq(Nets)
  <2>1. q \in Kernels /\ l \in LinksOf(q)
    BY KernelLinksAre
  <2>2. QED
    BY <2>1, LettersAre, SnapIs
<1>3. QED
  BY <1>1, <1>2, SnapIs DEF Shaped

(* What a kernel sends to open links arrives at their other ends.          *)
LEMMA SentIs ==
  ASSUME Types, Calm, Wired, NEW k \in Kernels, NEW net \in Nets, NEW to,
         \A l \in to \cap LinksOf(k) : FDescriptors[k][l] = "open",
         infos' = MSendNet(k, net, to), \A p \in Kernels \ {k} : taken'[p] = taken[p]
  PROVE  /\ \A l \in KernelLinks : \A q \in Ends[l] : q # k =>
              Letters(q, l)' = IF k \in Ends[l] /\ l \in to
                                 THEN Append(Letters(q, l), net) ELSE Letters(q, l)
         /\ \A l \in LinksOf(k) : infos'[k][l] = infos[k][l]
         /\ \A p \in Kernels : \A l \in LinksOf(p) : l \notin KernelLinks => infos'[p][l] = infos[p][l]
<1>1. \A p \in Kernels : \A l \in LinksOf(p) :
        infos'[p][l] = IF /\ p # k /\ l \in to \cap LinksOf(k)
                          /\ FDescriptors[k][l] = "open" /\ FDescriptors[p][l] # "closed"
                          /\ p \notin world.silent
                         THEN Append(infos[p][l], net) ELSE infos[p][l]
  BY DEF MSendNet
<1>2. ASSUME NEW l \in KernelLinks, NEW q \in Ends[l], q # k
      PROVE  Letters(q, l)' = IF k \in Ends[l] /\ l \in to
                                THEN Append(Letters(q, l), net) ELSE Letters(q, l)
  <2>1. q \in Kernels /\ l \in LinksOf(q) /\ (l \in LinksOf(k) <=> k \in Ends[l])
    BY <1>2, KernelLinksAre DEF LinksOf
  <2>2. FDescriptors[q][l] # "closed" /\ q \notin world.silent
    BY <2>1 DEF Wired, WiredAt, Agrees, Calm
  <2>3. infos'[q][l] = IF k \in Ends[l] /\ l \in to THEN Append(infos[q][l], net) ELSE infos[q][l]
    BY <1>1, <1>2, <2>1, <2>2
  <2>4. InHand(q, l)' = InHand(q, l)
    BY <1>2, <2>1 DEF InHand
  <2>5. InHand(q, l) \o Append(infos[q][l], net) = Append(Letters(q, l), net)
    BY <2>1, LettersAre
  <2>6. Letters(q, l)' = InHand(q, l) \o infos'[q][l]
    BY <2>4 DEF Letters
  <2>7. QED
    BY <2>3, <2>5, <2>6 DEF Letters
<1>3. ASSUME NEW p \in Kernels, NEW l \in LinksOf(p), l \notin KernelLinks
      PROVE  infos'[p][l] = infos[p][l]
  <2>1. CASE p # k /\ l \in LinksOf(k)
    <3>1. l \in Links /\ Ends[l] = {k, Peer(k, l)} /\ p \in Ends[l]
      BY <2>1, EndsAre, KernelLinksAre
    <3>2. QED
      BY <1>3, <2>1, <3>1 DEF KernelLinks, LinksOf
  <2>2. CASE ~(p # k /\ l \in LinksOf(k))
    BY <1>1, <2>2
  <2>3. QED
    BY <2>1, <2>2
<1>4. QED
  BY <1>1, <1>2, <1>3

LEMMA SameLetters ==
  ASSUME Types, NEW q \in Kernels, NEW l \in LinksOf(q),
         taken'[q] = taken[q], infos'[q][l] = infos[q][l]
  PROVE  Letters(q, l)' = Letters(q, l)
<1>1. InHand(q, l)' = InHand(q, l)
  BY DEF InHand
<1>2. QED
  BY <1>1 DEF Letters

(* With one thread an operation that is taken is the only one.             *)
LEMMA FirstInHand ==
  ASSUME Types, Wired, NEW k \in Kernels, NEW i \in 1 .. Len(taken[k])
  PROVE  /\ taken[k] # <<>> /\ Head(taken[k]) = taken[k][i] /\ Without(taken[k], i) = <<>>
         /\ taken[k][i] \in Ops /\ taken[k][i] \in OpsAt(k) /\ Fits(k, taken[k][i])
         /\ ItemsIn(taken[k]) = {taken[k][i]}
<1>1. PICK r : r = taken[k]
  OBVIOUS
<1>2. PICK n : n = Len(r)
  OBVIOUS
<1>3. r \in Seq(Ops) /\ n <= 1 /\ n \in Nat /\ i \in 1 .. n
  BY <1>1, <1>2, LenProperties DEF Types, Wired, WiredAt
<1>4. i = 1 /\ n = 1
  BY <1>3
<1>5. r # <<>> /\ Head(r) = r[i]
  <2>1. r # <<>>
    <3>1. Len(<<>>) = 0 /\ 0 # 1
      OBVIOUS
    <3>2. QED
      BY <1>2, <1>4, <3>1, Zenon
  <2>2. Head(r) = r[1]
    BY <1>3, <2>1, HeadTailProperties
  <2>3. QED
    BY <1>4, <2>1, <2>2
<1>6. Without(r, i) \in Seq(Ops) /\ Len(Without(r, i)) = 0
  <2>1. i \in 1 .. Len(r)
    BY <1>2, <1>3
  <2>2. Without(r, i) \in Seq(Ops) /\ Len(Without(r, i)) = n - 1
    BY <1>2, <1>3, <2>1, ClearIs
  <2>3. QED
    BY <1>4, <2>2
<1>7. Without(r, i) = <<>>
  BY <1>6, EmptySeq
<1>8. r[i] \in Ops
  BY <1>2, <1>3, ElementOfSeq
<1>9. ItemsIn(r) = {r[i]}
  BY <1>2, <1>4 DEF ItemsIn
<1>10. r[i] \in OpsAt(k)
  BY <1>1, <1>9 DEF OpsAt
<1>11. QED
  BY <1>1, <1>5, <1>7, <1>8, <1>9, <1>10 DEF Wired, WiredAt

(* A kernel that does nothing stays as it is.                              *)
LEMMA StaysWired ==
  ASSUME Wired, world' = world, NEW k \in Kernels,
         DOMAIN FAllDescriptors' = Kernels, DOMAIN FDescriptors' = Kernels,
         \A p \in Kernels \ {k} :
           /\ FAllDescriptors'[p] = FAllDescriptors[p] /\ FDescriptors'[p] = FDescriptors[p]
           /\ events'[p] = events[p] /\ taken'[p] = taken[p],
         \A p \in Kernels : \A l \in LinksOf(p) : l \notin KernelLinks => infos'[p][l] = infos[p][l],
         Len(taken'[k]) <= 1,
         FAllDescriptors[k] \subseteq FAllDescriptors'[k],
         \A l \in FAllDescriptors'[k] : l \in LinksOf(k) /\ FDescriptors'[k][l] = "open",
         DOMAIN FDescriptors'[k] = LinksOf(k),
         \A l \in LinksOf(k) : \/ FDescriptors'[k][l] = FDescriptors[k][l]
                               \/ FDescriptors'[k][l] = "open" /\ Open(l) \in OpsAt(k)',
         \A op \in OpsAt(k)' : op \in OpsAt(k) \/ Fits(k, op)',
         \A l \in LinksOf(k) : Open(l) \in OpsAt(k) => Open(l) \in OpsAt(k)' \/ l \in FAllDescriptors'[k]
  PROVE  Wired'
<1>1. KernelLinks' = KernelLinks /\ \A p : LinksOf(p)' = LinksOf(p)
  BY DEF KernelLinks, LinksOf
<1>2. ASSUME NEW p \in Kernels \ {k} PROVE WiredAt(p)'
  <2>1. WiredAt(p) /\ OpsAt(p)' = OpsAt(p)
    BY DEF Wired, OpsAt
  <2>2. \A op : Fits(p, op)' <=> Fits(p, op)
    BY <1>1 DEF Fits
  <2>3. \A l \in LinksOf(p) : Agrees(p, l)'
    BY <1>1, <2>1 DEF Agrees, WiredAt
  <2>4. QED
    BY <1>1, <2>1, <2>2, <2>3 DEF WiredAt
<1>3. WiredAt(k)'
  <2>1. WiredAt(k)
    BY DEF Wired
  <2>2. ASSUME NEW l \in LinksOf(k) PROVE Agrees(k, l)'
    <3>1. Agrees(k, l)
      BY <2>1 DEF WiredAt
    <3>2. QED
      BY <1>1, <3>1 DEF Agrees
  <2>3. ASSUME NEW op, Fits(k, op) PROVE Fits(k, op)'
    BY <1>1, <2>3 DEF Fits
  <2>4. \A op \in OpsAt(k)' : Fits(k, op)'
    BY <2>1, <2>3 DEF WiredAt
  <2>5. QED
    BY <1>1, <2>2, <2>4 DEF WiredAt
<1>4. QED
  BY <1>2, <1>3 DEF Wired

-----------------------------------------------------------------------------
(* The steps that change no records.                                       *)
Rests ==
  /\ world' = world /\ UNCHANGED <<FNet, FUUIDFrom, FAllDescriptors>>
  /\ \A l \in KernelLinks : \A q \in Ends[l] : Letters(q, l)' = Letters(q, l)

LEMMA RestsIsSame == Types /\ Rests => Snap' = Snap
<1> SUFFICES ASSUME Types, Rests PROVE Snap' = Snap
  OBVIOUS
<1>1. KernelLinks' = KernelLinks
  BY DEF Rests, KernelLinks
<1>2. QED
  BY <1>1 DEF Rests, Snap

LEMMA MOpenIsCalm ==
  ASSUME Types, Wired, NEW k \in Kernels, NEW l \in LinksOf(k), MOpen(k, l)
  PROVE  Wired' /\ Rests
<1>1. /\ FDescriptors[k][l] = "created"
      /\ FDescriptors' = [FDescriptors EXCEPT ![k][l] = "open"]
      /\ events' = [events EXCEPT ![k] = Append(@, Open(l))]
      /\ UNCHANGED <<world, FNet, FUUIDFrom, FAllDescriptors, infos, taken>>
  BY DEF MOpen, infoVars
<1>2. Rests
  <2>1. \A m \in KernelLinks : \A q \in Ends[m] : q \in Kernels /\ m \in LinksOf(q)
    BY KernelLinksAre
  <2>2. QED
    BY <1>1, <2>1, SameLetters DEF Rests
<1>3. l \in Links /\ WiredAt(k) /\ events \in [Kernels -> Seq(Immediate)]
      /\ DOMAIN FDescriptors = Kernels /\ DOMAIN FDescriptors[k] = LinksOf(k)
  BY KernelLinksAre DEF Wired, WiredAt, Types
<1>4. /\ DOMAIN FDescriptors' = Kernels /\ DOMAIN FDescriptors'[k] = LinksOf(k)
      /\ \A m \in LinksOf(k) : FDescriptors'[k][m] = IF m = l THEN "open" ELSE FDescriptors[k][m]
      /\ \A p \in Kernels \ {k} : FDescriptors'[p] = FDescriptors[p] /\ events'[p] = events[p]
  BY <1>1, <1>3
<1>5. OpsAt(k)' = OpsAt(k) \cup {Open(l)}
  <2>1. events[k] \in Seq(Immediate) /\ events'[k] = Append(events[k], Open(l)) /\ Open(l) \in Immediate
    BY <1>1, <1>3, OpsAre
  <2>2. ItemsIn(events'[k]) = ItemsIn(events[k]) \cup {Open(l)}
    BY <2>1, AppendedItems
  <2>3. QED
    BY <1>1, <2>2 DEF OpsAt
<1>6. Fits(k, Open(l))'
  <2>1. LinksOf(k)' = LinksOf(k)
    BY <1>1 DEF LinksOf
  <2>2. QED
    BY <1>4, <2>1 DEF Fits, Open
<1>7. \A op \in OpsAt(k)' : op \in OpsAt(k) \/ Fits(k, op)'
  <2>1. PICK o : o = Open(l)
    OBVIOUS
  <2>2. Fits(k, o)'
    BY <1>6, <2>1 DEF Fits
  <2>3. QED
    BY <1>5, <2>1, <2>2
<1>8. Len(taken'[k]) <= 1 /\ \A m \in FAllDescriptors'[k] : m \in LinksOf(k) /\ FDescriptors'[k][m] = "open"
  BY <1>1, <1>3, <1>4 DEF WiredAt, Agrees
<1>9. Wired'
  <2>1. DOMAIN FAllDescriptors' = Kernels
    BY <1>1 DEF Wired
  <2>2. /\ \A m \in LinksOf(k) : \/ FDescriptors'[k][m] = FDescriptors[k][m]
                                 \/ FDescriptors'[k][m] = "open" /\ Open(m) \in OpsAt(k)'
        /\ \A m \in LinksOf(k) : Open(m) \in OpsAt(k) => Open(m) \in OpsAt(k)' \/ m \in FAllDescriptors'[k]
    BY <1>4, <1>5
  <2>3. QED
    BY <1>1, <1>4, <1>7, <1>8, <2>1, <2>2, StaysWired
<1>10. QED
  BY <1>2, <1>9

(* An operation is taken when the thread has none.                         *)
LEMMA EmptyHand ==
  ASSUME Types, NEW k \in Kernels, Len(taken[k]) < world.threads, world.threads = 1
  PROVE  taken[k] = <<>> /\ \A l : InHand(k, l) = <<>>
<1>1. PICK r : r = taken[k]
  OBVIOUS
<1>2. r \in Seq(Ops) /\ Len(r) < 1
  BY <1>1 DEF Types
<1>3. r = <<>>
  BY <1>2, EmptySeq
<1>4. QED
  BY <1>1, <1>3 DEF InHand

LEMMA InHandIs ==
  ASSUME NEW T, NEW op \in T, NEW k, taken'[k] = Append(<<>>, op), NEW l
  PROVE  InHand(k, l)' = IF op.what = "info" /\ op.id = l THEN <<op.net>> ELSE <<>>
<1>1. Append(<<>>, op) # <<>> /\ Head(Append(<<>>, op)) = op
  OBVIOUS
<1>2. QED
  BY <1>1 DEF InHand

LEMMA TakeEventIsCalm ==
  ASSUME Types, Calm, Wired, NEW k \in Kernels, TakeEvent(k)
  PROVE  Wired' /\ Rests
<1>1. /\ Len(taken[k]) < world.threads /\ events[k] # <<>>
      /\ taken' = [taken EXCEPT ![k] = Append(@, Head(events[k]))]
      /\ events' = [events EXCEPT ![k] = Tail(@)]
      /\ UNCHANGED <<world, FNet, FUUIDFrom, FAllDescriptors, FDescriptors, infos>>
  BY DEF TakeEvent, infoVars, descVars
<1>2. taken[k] = <<>> /\ \A l : InHand(k, l) = <<>>
  BY <1>1, EmptyHand DEF Calm
<1>3. PICK e : e = Head(events[k])
  OBVIOUS
<1>4. /\ events[k] \in Seq(Immediate) /\ taken[k] \in Seq(Ops) /\ taken \in [Kernels -> Seq(Ops)]
      /\ events \in [Kernels -> Seq(Immediate)]
  BY DEF Types
<1>5. e \in Immediate
  BY <1>1, <1>3, <1>4, HeadTailProperties
<1>6. e \in Ops /\ e.what # "info"
  BY <1>5, OpsAre
<1>7. /\ taken'[k] = Append(<<>>, e) /\ events'[k] = Tail(events[k])
      /\ \A p \in Kernels \ {k} : taken'[p] = taken[p] /\ events'[p] = events[p]
  BY <1>1, <1>2, <1>3, <1>4
<1>8. Rests
  <2>1. ASSUME NEW m \in KernelLinks, NEW q \in Ends[m] PROVE Letters(q, m)' = Letters(q, m)
    <3>1. q \in Kernels /\ m \in LinksOf(q)
      BY KernelLinksAre
    <3>2. CASE q # k
      BY <1>1, <1>7, <3>1, <3>2, SameLetters
    <3>3. CASE q = k
      <4>1. InHand(k, m)' = <<>>
        BY <1>6, <1>7, InHandIs
      <4>2. Letters(q, m)' = <<>> \o infos[q][m]
        BY <1>1, <3>3, <4>1 DEF Letters
      <4>3. QED
        BY <1>2, <3>3, <4>2 DEF Letters
    <3>4. QED
      BY <3>2, <3>3
  <2>2. QED
    BY <1>1, <2>1 DEF Rests
<1>9. OpsAt(k)' = OpsAt(k)
  <2>1. ItemsIn(events[k]) = ItemsIn(events'[k]) \cup {e}
    BY <1>1, <1>3, <1>4, <1>7, ReadItems
  <2>2. ItemsIn(taken'[k]) = ItemsIn(taken[k]) \cup {e}
    <3>1. taken'[k] = Append(taken[k], e)
      BY <1>2, <1>7
    <3>2. QED
      BY <1>4, <1>6, <3>1, AppendedItems
  <2>3. ItemsIn(<<>>) = {}
    BY DEF ItemsIn
  <2>4. QED
    BY <1>2, <2>1, <2>2, <2>3 DEF OpsAt
<1>10. Len(taken'[k]) <= 1
  BY <1>7
<1>11. WiredAt(k)
  BY DEF Wired
<1>12. Wired'
  <2>1. DOMAIN FAllDescriptors' = Kernels /\ DOMAIN FDescriptors' = Kernels /\ DOMAIN FDescriptors'[k] = LinksOf(k)
    BY <1>1 DEF Wired, WiredAt
  <2>2. \A m \in FAllDescriptors'[k] : m \in LinksOf(k) /\ FDescriptors'[k][m] = "open"
    BY <1>1, <1>11 DEF WiredAt, Agrees
  <2>3. QED
    BY <1>1, <1>7, <1>9, <1>10, <2>1, <2>2, StaysWired
<1>13. QED
  BY <1>8, <1>12

LEMMA TakeInfoIsCalm ==
  ASSUME Types, Calm, Wired, NEW k \in Kernels, NEW l \in LinksOf(k), TakeInfo(k, l)
  PROVE  Wired' /\ Rests
<1>1. /\ Len(taken[k]) < world.threads /\ infos[k][l] # <<>>
      /\ taken' = [taken EXCEPT ![k] = Append(@, Info(l, Head(infos[k][l])))]
      /\ infos' = [infos EXCEPT ![k][l] = Tail(@)]
      /\ UNCHANGED <<world, FNet, FUUIDFrom, FAllDescriptors, FDescriptors, events>>
  BY DEF TakeInfo, infoVars, descVars
<1>2. taken[k] = <<>> /\ \A m : InHand(k, m) = <<>>
  BY <1>1, EmptyHand DEF Calm
<1>3. PICK net : net = Head(infos[k][l])
  OBVIOUS
<1>4. PICK e : e = Info(l, net)
  OBVIOUS
<1>5. /\ infos[k][l] \in Seq(Nets) /\ taken[k] \in Seq(Ops) /\ taken \in [Kernels -> Seq(Ops)]
      /\ l \in Links /\ DOMAIN infos = Kernels /\ DOMAIN infos[k] = LinksOf(k)
  BY KernelLinksAre DEF Types, LettersType
<1>6. net \in Nets
  BY <1>1, <1>3, <1>5, HeadTailProperties
<1>7. e \in Ops /\ e.what = "info" /\ e.id = l /\ e.net = net
  BY <1>4, <1>5, <1>6, OpsAre DEF Info
<1>8. /\ taken'[k] = Append(<<>>, e) /\ infos'[k][l] = Tail(infos[k][l])
      /\ \A p \in Kernels \ {k} : taken'[p] = taken[p] /\ infos'[p] = infos[p]
      /\ \A m \in LinksOf(k) \ {l} : infos'[k][m] = infos[k][m]
  BY <1>1, <1>2, <1>3, <1>4, <1>5
<1>9. Rests
  <2>1. ASSUME NEW m \in KernelLinks, NEW q \in Ends[m] PROVE Letters(q, m)' = Letters(q, m)
    <3>1. q \in Kernels /\ m \in LinksOf(q)
      BY KernelLinksAre
    <3>2. CASE q # k
      BY <1>8, <3>1, <3>2, SameLetters
    <3>3. CASE q = k /\ m # l
      <4>1. InHand(k, m)' = <<>>
        BY <1>7, <1>8, <3>3, InHandIs
      <4>2. Letters(q, m)' = <<>> \o infos[q][m]
        BY <1>8, <3>1, <3>3, <4>1 DEF Letters
      <4>3. QED
        BY <1>2, <3>3, <4>2 DEF Letters
    <3>4. CASE q = k /\ m = l
      <4>1. InHand(k, m)' = <<net>>
        BY <1>7, <1>8, <3>4, InHandIs
      <4>2. Letters(q, m)' = <<net>> \o Tail(infos[k][l])
        BY <1>8, <3>4, <4>1 DEF Letters
      <4>3. Append(<<>>, Head(infos[k][l])) \o Tail(infos[k][l]) = <<>> \o infos[k][l]
        BY <1>1, <1>5, EmptySeq, MoveAlongRow
      <4>4. Append(<<>>, net) = <<net>>
        OBVIOUS
      <4>5. QED
        BY <1>2, <1>3, <3>4, <4>2, <4>3, <4>4 DEF Letters
    <3>5. QED
      BY <3>2, <3>3, <3>4
  <2>2. QED
    BY <1>1, <2>1 DEF Rests
<1>10. OpsAt(k)' = OpsAt(k) \cup {e}
  <2>1. ItemsIn(taken'[k]) = ItemsIn(taken[k]) \cup {e}
    <3>1. taken'[k] = Append(taken[k], e)
      BY <1>2, <1>8
    <3>2. QED
      BY <1>5, <1>7, <3>1, AppendedItems
  <2>2. QED
    BY <1>1, <2>1 DEF OpsAt
<1>11. WiredAt(k) /\ l \in KernelLinks /\ k \in Ends[l]
  BY <1>1, KernelLinksAre DEF Wired, WiredAt, Agrees
<1>12. Fits(k, e)'
  <2>1. KernelLinks' = KernelLinks
    BY <1>1 DEF KernelLinks
  <2>2. QED
    BY <1>7, <1>11, <2>1 DEF Fits
<1>13. Len(taken'[k]) <= 1
  BY <1>8
<1>14. Wired'
  <2>1. DOMAIN FAllDescriptors' = Kernels /\ DOMAIN FDescriptors' = Kernels /\ DOMAIN FDescriptors'[k] = LinksOf(k)
    BY <1>1 DEF Wired, WiredAt
  <2>2. \A m \in FAllDescriptors'[k] : m \in LinksOf(k) /\ FDescriptors'[k][m] = "open"
    BY <1>1, <1>11 DEF WiredAt, Agrees
  <2>3. \A p \in Kernels : \A m \in LinksOf(p) : m \notin KernelLinks => infos'[p][m] = infos[p][m]
    BY <1>8, <1>11
  <2>4. \A op \in OpsAt(k)' : op \in OpsAt(k) \/ Fits(k, op)'
    BY <1>10, <1>12
  <2>5. QED
    BY <1>1, <1>8, <1>10, <1>13, <2>1, <2>2, <2>3, <2>4, StaysWired
<1>15. QED
  BY <1>9, <1>14

LEMMA LookUpIsCalm ==
  ASSUME Types, Wired, NEW k \in Kernels, NEW to, MNextDestinations(k, to)
  PROVE  Wired' /\ Rests
<1>1. UNCHANGED <<world, FNet, FUUIDFrom, FAllDescriptors, FDescriptors, events, infos, taken>>
  BY DEF MNextDestinations, descVars
<1>2. Rests
  <2>1. \A m \in KernelLinks : \A q \in Ends[m] : q \in Kernels /\ m \in LinksOf(q)
    BY KernelLinksAre
  <2>2. QED
    BY <1>1, <2>1, SameLetters DEF Rests
<1>3. Wired'
  BY <1>1 DEF Wired, WiredAt, Agrees, Fits, OpsAt, LinksOf, KernelLinks
<1>4. QED
  BY <1>2, <1>3

-----------------------------------------------------------------------------
(* An operation is applied: the hand is empty, what it sends is on its way.*)
LEMMA AppliedIsWired ==
  ASSUME Types, Wired, NEW k \in Kernels, NEW i \in 1 .. Len(taken[k]),
         world' = world, FDescriptors' = FDescriptors,
         taken' = [taken EXCEPT ![k] = Without(@, i)],
         events' = events \/ \E e \in DiffOps : events' = [events EXCEPT ![k] = Append(@, e)],
         FAllDescriptors' = IF taken[k][i].what = "open"
                              THEN [FAllDescriptors EXCEPT ![k] = @ \cup {taken[k][i].id}]
                              ELSE FAllDescriptors,
         \A p \in Kernels : \A l \in LinksOf(p) : l \notin KernelLinks => infos'[p][l] = infos[p][l]
  PROVE  Wired'
<1>1. PICK op : op = taken[k][i]
  OBVIOUS
<1>2. op \in Ops /\ Fits(k, op) /\ Without(taken[k], i) = <<>> /\ ItemsIn(taken[k]) = {op}
  BY <1>1, FirstInHand
<1>3. taken \in [Kernels -> Seq(Ops)] /\ events \in [Kernels -> Seq(Immediate)]
  BY DEF Types
<1>4. /\ taken'[k] = <<>> /\ \A p \in Kernels \ {k} : taken'[p] = taken[p] /\ events'[p] = events[p]
  BY <1>2, <1>3
<1>5. /\ DOMAIN FAllDescriptors = Kernels /\ DOMAIN FDescriptors = Kernels /\ WiredAt(k)
  BY DEF Wired
<1>6. /\ DOMAIN FAllDescriptors' = Kernels
      /\ \A p \in Kernels \ {k} : FAllDescriptors'[p] = FAllDescriptors[p]
      /\ FAllDescriptors'[k] = FAllDescriptors[k] \cup (IF op.what = "open" THEN {op.id} ELSE {})
  BY <1>1, <1>5
<1>7. ItemsIn(taken'[k]) = {} /\ Len(taken'[k]) <= 1
  BY <1>4 DEF ItemsIn
<1>8. ItemsIn(events[k]) \subseteq ItemsIn(events'[k])
      /\ \A e \in ItemsIn(events'[k]) : e \in ItemsIn(events[k]) \/ e.what = "diff"
  <2>1. CASE events' = events
    BY <2>1
  <2>2. ASSUME NEW e \in DiffOps, events' = [events EXCEPT ![k] = Append(@, e)] PROVE <1>8
    <3>1. events'[k] = Append(events[k], e) /\ e \in Immediate /\ e.what = "diff" /\ events[k] \in Seq(Immediate)
      BY <1>3, <2>2 DEF Immediate, DiffOps
    <3>2. ItemsIn(events'[k]) = ItemsIn(events[k]) \cup {e}
      BY <3>1, AppendedItems
    <3>3. QED
      BY <3>1, <3>2
  <2>3. QED
    BY <2>1, <2>2
<1>9. ASSUME NEW x \in OpsAt(k)' PROVE x \in OpsAt(k) \/ Fits(k, x)'
  <2>1. x \in ItemsIn(events[k]) \/ x.what = "diff"
    BY <1>7, <1>8, <1>9 DEF OpsAt
  <2>2. CASE x.what = "diff"
    BY <2>2 DEF Fits
  <2>3. QED
    BY <2>1, <2>2 DEF OpsAt
<1>10. ASSUME NEW l \in LinksOf(k), Open(l) \in OpsAt(k)
       PROVE  Open(l) \in OpsAt(k)' \/ l \in FAllDescriptors'[k]
  <2>1. CASE Open(l) \in ItemsIn(events[k])
    BY <1>8, <2>1 DEF OpsAt
  <2>2. CASE Open(l) = op
    <3>1. op.what = "open" /\ op.id = l
      BY <2>2 DEF Open
    <3>2. QED
      BY <1>6, <3>1
  <2>3. QED
    BY <1>2, <1>10, <2>1, <2>2 DEF OpsAt
<1>11. \A l \in FAllDescriptors'[k] : l \in LinksOf(k) /\ FDescriptors'[k][l] = "open"
  BY <1>2, <1>5, <1>6 DEF WiredAt, Agrees, Fits
<1>12. DOMAIN FDescriptors' = Kernels /\ DOMAIN FDescriptors'[k] = LinksOf(k)
  BY <1>5 DEF WiredAt
<1>13. QED
  BY <1>4, <1>6, <1>7, <1>9, <1>10, <1>11, <1>12, StaysWired

LettersApplied(k, op) ==
  /\ \A l \in LinksOf(k) : Letters(k, l)' = infos'[k][l] /\ infos'[k][l] \in Seq(Nets)
  /\ \A l \in LinksOf(k) : ~(op.what = "info" /\ op.id = l) => Letters(k, l) = infos[k][l]
  /\ op.what = "info" /\ op.id \in LinksOf(k) =>
       /\ Letters(k, op.id) # <<>> /\ Head(Letters(k, op.id)) = op.net
       /\ Tail(Letters(k, op.id)) = infos[k][op.id]
LEMMA AppliedLetters ==
  ASSUME Types, Types', Wired, NEW k \in Kernels, NEW i \in 1 .. Len(taken[k]),
         world' = world, taken' = [taken EXCEPT ![k] = Without(@, i)],
         NEW op, op = taken[k][i]
  PROVE  LettersApplied(k, op)
<1>1. /\ taken[k] # <<>> /\ Head(taken[k]) = op /\ Without(taken[k], i) = <<>> /\ op \in Ops
  BY FirstInHand
<1>2. taken'[k] = <<>>
  BY <1>1 DEF Types
<1>3. ASSUME NEW l \in LinksOf(k) PROVE Letters(k, l)' = infos'[k][l] /\ infos'[k][l] \in Seq(Nets)
  <2>1. infos'[k][l] \in Seq(Nets)
    <3>1. LinksOf(k)' = LinksOf(k)
      BY DEF LinksOf
    <3>2. infos'[k] \in [LinksOf(k)' -> Seq(Nets)]
      BY DEF Types, LettersType
    <3>3. QED
      BY <3>1, <3>2
  <2>2. InHand(k, l)' = <<>>
    BY <1>2 DEF InHand
  <2>3. <<>> \o infos'[k][l] = infos'[k][l]
    BY <2>1, ConcatEmptySeq
  <2>4. QED
    BY <2>1, <2>2, <2>3 DEF Letters
<1>4. ASSUME NEW l \in LinksOf(k), ~(op.what = "info" /\ op.id = l)
      PROVE  Letters(k, l) = infos[k][l]
  <2>1. InHand(k, l) = <<>>
    BY <1>1, <1>4 DEF InHand
  <2>2. QED
    BY <2>1, LettersAre
<1>5. ASSUME op.what = "info", op.id \in LinksOf(k)
      PROVE  /\ Letters(k, op.id) # <<>> /\ Head(Letters(k, op.id)) = op.net
             /\ Tail(Letters(k, op.id)) = infos[k][op.id]
  <2>1. PICK l : l = op.id
    OBVIOUS
  <2>2. PICK net : net = op.net
    OBVIOUS
  <2>3. l \in LinksOf(k) /\ net \in Nets /\ infos[k][l] \in Seq(Nets)
    BY <1>1, <1>5, <2>1, <2>2, OpsAre, LettersAre
  <2>4. Letters(k, l) = <<net>> \o infos[k][l]
    BY <1>1, <1>5, <2>1, <2>2 DEF Letters, InHand
  <2>5. <<net>> \in Seq(Nets) /\ <<net>> # <<>> /\ Head(<<net>>) = net /\ Tail(<<net>>) = <<>>
    BY <2>3
  <2>6. <<>> \o infos[k][l] = infos[k][l]
    BY <2>3, ConcatEmptySeq
  <2>7. PICK row : row = <<net>>
    OBVIOUS
  <2>8. PICK rest : rest = infos[k][l]
    OBVIOUS
  <2>9. PICK both : both = row \o rest
    OBVIOUS
  <2>10. both # <<>> /\ Head(both) = Head(row) /\ Tail(both) = Tail(row) \o rest
    BY <2>3, <2>5, <2>7, <2>8, <2>9, TakeFromRow
  <2>11. Head(row) = net /\ Tail(row) \o rest = rest
    BY <2>5, <2>6, <2>7, <2>8
  <2>12. Letters(k, l) = both
    BY <2>4, <2>7, <2>8, <2>9
  <2>13. both # <<>> /\ Head(both) = net /\ Tail(both) = rest
    BY <2>10, <2>11
  <2>14. QED
    BY <2>1, <2>2, <2>8, <2>12, <2>13
<1>6. QED
  BY <1>3, <1>4, <1>5 DEF LettersApplied

LEMMA AppliedSends ==
  ASSUME Types, Known, Types', Known', Calm, Wired, NEW k \in Kernels, NEW i \in 1 .. Len(taken[k]),
         world' = world, taken' = [taken EXCEPT ![k] = Without(@, i)],
         NEW s, s = Snap, NEW t, t = Snap', NEW to,
         \A p \in Kernels \ {k} : /\ FNet'[p] = FNet[p] /\ FUUIDFrom'[p] = FUUIDFrom[p]
                                  /\ FAllDescriptors'[p] = FAllDescriptors[p],
         \/ to = {} /\ infos' = infos
         \/ infos' = MSendNet(k, FNet'[k], to) /\ \A l \in to \cap LinksOf(k) : FDescriptors[k][l] = "open"
  PROVE  /\ Sends(KernelLinks, s, t, k, to)
         /\ \A l \in LinksOf(k) : infos'[k][l] = infos[k][l]
         /\ \A p \in Kernels : \A l \in LinksOf(p) : l \notin KernelLinks => infos'[p][l] = infos[p][l]
<1>1. PICK net : net = FNet'[k]
  OBVIOUS
<1>2. net \in Nets /\ \A p \in Kernels \ {k} : taken'[p] = taken[p]
  BY <1>1 DEF Types
<1>3. /\ \A l \in KernelLinks : \A q \in Ends[l] : q # k =>
           Letters(q, l)' = IF k \in Ends[l] /\ l \in to THEN Append(Letters(q, l), net) ELSE Letters(q, l)
      /\ \A l \in LinksOf(k) : infos'[k][l] = infos[k][l]
      /\ \A p \in Kernels : \A l \in LinksOf(p) : l \notin KernelLinks => infos'[p][l] = infos[p][l]
  <2>1. CASE to = {} /\ infos' = infos
    <3>1. ASSUME NEW l \in KernelLinks, NEW q \in Ends[l], q # k PROVE Letters(q, l)' = Letters(q, l)
      BY <1>2, <2>1, <3>1, KernelLinksAre, SameLetters
    <3>2. QED
      BY <2>1, <3>1
  <2>2. CASE infos' = MSendNet(k, net, to) /\ \A l \in to \cap LinksOf(k) : FDescriptors[k][l] = "open"
    BY <1>2, <2>2, SentIs
  <2>3. QED
    BY <1>1, <2>1, <2>2
<1>4. \A l \in LinksOf(k) : Letters(k, l)' \in Seq(Nets)
  <2>1. PICK op : op = taken[k][i]
    OBVIOUS
  <2>2. LettersApplied(k, op)
    BY <2>1, AppliedLetters
  <2>3. QED
    BY <2>2 DEF LettersApplied
<1>5. ASSUME NEW l \in KernelLinks, NEW q \in Ends[l] PROVE Letters(q, l)' \in Seq(Nets)
  <2>1. q \in Kernels /\ l \in LinksOf(q)
    BY KernelLinksAre
  <2>2. CASE q = k
    BY <1>4, <2>1, <2>2
  <2>3. CASE q # k
    <3>1. Letters(q, l) \in Seq(Nets)
      BY <2>1, LettersAre
    <3>2. Append(Letters(q, l), net) \in Seq(Nets)
      BY <1>2, <3>1, AppendProperties
    <3>3. QED
      BY <1>3, <2>3, <3>1, <3>2
  <2>4. QED
    BY <2>2, <2>3
<1>6. Shaped(KernelLinks, s)
  BY SnapIsShaped
<1>7. \A p \in Kernels : FNet'[p] \in Nets /\ Matches(p, FNet'[p], FUUIDFrom'[p])
  BY DEF Types, Known
<1>8. Shaped(KernelLinks, t)
  BY <1>5, <1>7, NextSnapIs DEF Shaped
<1>9. Sends(KernelLinks, s, t, k, to)
  BY <1>1, <1>3, <1>6, <1>8, SnapIs, NextSnapIs DEF Sends
<1>10. QED
  BY <1>3, <1>9

LEMMA DiffIsCalm ==
  ASSUME Types, Types', Wired, NEW k \in Kernels, NEW i \in 1 .. Len(taken[k]), MHandleDiff(k, i)
  PROVE  Wired' /\ Rests
<1>1. /\ taken[k][i].what = "diff" /\ taken' = [taken EXCEPT ![k] = Without(@, i)]
      /\ UNCHANGED <<world, FDescriptors, FNet, FUUIDFrom, FAllDescriptors, events, infos>>
  BY DEF MHandleDiff, descVars, infoVars
<1>2. Wired'
  BY <1>1, AppliedIsWired
<1>3. ASSUME NEW l \in KernelLinks, NEW q \in Ends[l] PROVE Letters(q, l)' = Letters(q, l)
  <2>1. q \in Kernels /\ l \in LinksOf(q)
    BY KernelLinksAre
  <2>2. CASE q # k
    <3>1. taken'[q] = taken[q]
      BY <1>1, <2>1, <2>2 DEF Types
    <3>2. QED
      BY <1>1, <2>1, <3>1, SameLetters
  <2>3. CASE q = k
    <3>1. PICK op : op = taken[k][i]
      OBVIOUS
    <3>2. LettersApplied(k, op)
      BY <1>1, <3>1, AppliedLetters
    <3>3. QED
      BY <1>1, <2>1, <2>3, <3>1, <3>2 DEF LettersApplied
  <2>4. QED
    BY <2>2, <2>3
<1>4. QED
  BY <1>1, <1>2, <1>3 DEF Rests

LEMMA OpenIsCalm ==
  ASSUME Types, Known, Types', Known', Calm, Wired, NEW k \in Kernels, NEW i \in 1 .. Len(taken[k]),
         MHandleOpen(k, i), NEW s, s = Snap, NEW t, t = Snap', NEW l, l = taken[k][i].id
  PROVE  Wired' /\ OpenStep(KernelLinks, s, t, k, l)
<1>1. PICK op : op = taken[k][i]
  OBVIOUS
<1>2. PICK p : p = Peer(k, l)
  OBVIOUS
<1> DEFINE mine == PutToMyInfo(k, FNet[k], p)
           net == IF p \in Kernels THEN MAddKernel(mine, p) ELSE mine
           to == IF p \in Kernels /\ IsNewFrom(FUUIDFrom[k], p, l) THEN {l}
                                                                  ELSE FAllDescriptors[k] \cup {l}
<1>3. /\ op.what = "open" /\ op.id = l
      /\ FNet' = [FNet EXCEPT ![k] = net]
      /\ FAllDescriptors' = [FAllDescriptors EXCEPT ![k] = FAllDescriptors[k] \cup {l}]
      /\ FUUIDFrom' = [FUUIDFrom EXCEPT ![k] = IF p \in Kernels THEN AddFrom(@, p, l) ELSE @]
      /\ MSynchronize(k, i, net, to, {p} \cap Customers, {})
  BY <1>1, <1>2 DEF MHandleOpen
<1>4. /\ FNet \in [Kernels -> Nets] /\ FUUIDFrom \in [Kernels -> Sources] /\ DOMAIN FAllDescriptors = Kernels
      /\ WiredAt(k)
  BY DEF Types, Wired
<1>5. /\ FNet'[k] = net
      /\ FUUIDFrom'[k] = IF p \in Kernels THEN AddFrom(FUUIDFrom[k], p, l) ELSE FUUIDFrom[k]
      /\ FAllDescriptors'[k] = FAllDescriptors[k] \cup {l}
      /\ \A q \in Kernels \ {k} : /\ FNet'[q] = FNet[q] /\ FUUIDFrom'[q] = FUUIDFrom[q]
                                  /\ FAllDescriptors'[q] = FAllDescriptors[q]
  BY <1>3, <1>4
<1>6. l \in LinksOf(k) /\ FDescriptors[k][l] = "open"
  BY <1>1, <1>3, FirstInHand DEF Fits
<1>7. l \in Links /\ k \in Ends[l] /\ (l \in KernelLinks <=> p \in Kernels)
  BY <1>2, <1>6, KernelLinksAre
<1>8. \A m \in to \cap LinksOf(k) : FDescriptors[k][m] = "open"
  BY <1>4, <1>6 DEF WiredAt, Agrees
<1> HIDE DEF net, to
<1>9. /\ infos' = MSendNet(k, FNet'[k], to) /\ world' = world /\ FDescriptors' = FDescriptors
      /\ taken' = [taken EXCEPT ![k] = Without(@, i)]
      /\ events' = [events EXCEPT ![k] = IF ({p} \cap Customers) \cup {} = {} THEN @
                                          ELSE Append(@, Diff({p} \cap Customers, {}))]
  BY <1>3, <1>5 DEF MSynchronize, descVars
<1>10. events' = events \/ \E e \in DiffOps : events' = [events EXCEPT ![k] = Append(@, e)]
  <2>1. Diff({p} \cap Customers, {}) \in DiffOps
    BY DEF Diff, DiffOps, Programs
  <2>2. CASE ({p} \cap Customers) \cup {} = {}
    BY <1>9, <2>2 DEF Types
  <2>3. CASE ({p} \cap Customers) \cup {} # {}
    BY <1>9, <2>1, <2>3
  <2>4. QED
    BY <2>2, <2>3
<1>11. /\ Sends(KernelLinks, s, t, k, to)
       /\ \A m \in LinksOf(k) : infos'[k][m] = infos[k][m]
       /\ \A q \in Kernels : \A m \in LinksOf(q) : m \notin KernelLinks => infos'[q][m] = infos[q][m]
  BY <1>5, <1>8, <1>9, AppliedSends
<1>12. Wired'
  <2>1. FAllDescriptors' = IF taken[k][i].what = "open"
                             THEN [FAllDescriptors EXCEPT ![k] = @ \cup {taken[k][i].id}]
                             ELSE FAllDescriptors
    BY <1>1, <1>3
  <2>2. QED
    BY <1>9, <1>10, <1>11, <2>1, AppliedIsWired
<1>13. to = SentByOpen(s, k, l)
  BY <1>2, SnapIs DEF to, SentByOpen
<1>14. ASSUME NEW m \in KernelLinks, k \in Ends[m] PROVE MailOf(t, k, m) = MailOf(s, k, m)
  <2>1. m \in LinksOf(k)
    BY <1>14, KernelLinksAre
  <2>2. LettersApplied(k, op)
    BY <1>1, <1>9, AppliedLetters
  <2>3. Letters(k, m)' = infos'[k][m] /\ Letters(k, m) = infos[k][m]
    BY <1>3, <2>1, <2>2 DEF LettersApplied
  <2>4. QED
    BY <1>9, <1>11, <1>14, <2>1, <2>3, SnapIs, NextSnapIs
<1>15. /\ NetOf(s, k) = FNet[k] /\ FromOf(s, k) = FUUIDFrom[k] /\ AllOf(s, k) = FAllDescriptors[k]
       /\ NetOf(t, k) = FNet'[k] /\ FromOf(t, k) = FUUIDFrom'[k] /\ AllOf(t, k) = FAllDescriptors'[k]
  BY <1>9, SnapIs, NextSnapIs
<1>16. OpenStep(KernelLinks, s, t, k, l)
  BY <1>2, <1>5, <1>7, <1>11, <1>13, <1>14, <1>15 DEF OpenStep, net
<1>17. QED
  BY <1>12, <1>16

(* Records with a greater number have more: in calm runs they only grow.   *)
Mono ==
  \A j \in Kernels : \A r, q : IsCopy(j, r) /\ IsCopy(j, q) /\ r.FIndexNumber <= q.FIndexNumber
    => r.FCustomerInfo \subseteq q.FCustomerInfo

LEMMA NewerHaveMore ==
  ASSUME Types, Known, Versions, Mono, NEW k \in Kernels, NEW new \in AllNets, new \in Nets,
         NEW newer, newer = Newer(FNet[k], new)
  PROVE  /\ k \notin newer
         /\ \A j \in DOMAIN FNet[k] \cap DOMAIN new :
              IF j \in newer THEN FNet[k][j].FCustomerInfo \subseteq new[j].FCustomerInfo
                             ELSE new[j].FCustomerInfo \subseteq FNet[k][j].FCustomerInfo
<1>1. PICK old : old = FNet[k]
  OBVIOUS
<1>2. \A j \in DOMAIN old : j \in Kernels /\ IsCopy(j, old[j])
  BY <1>1, OwnNetIsCopy, CopiesAreRecords
<1>3. \A j \in DOMAIN new : IsCopy(j, new[j])
  BY DEF IsCopy
<1>4. \A j \in DOMAIN old \cap DOMAIN new : old[j].FIndexNumber \in Nat /\ new[j].FIndexNumber \in Nat
  BY <1>2, <1>3, CopiesAreRecords DEF Records
<1>5. newer = {j \in DOMAIN old \cap DOMAIN new : new[j].FIndexNumber > old[j].FIndexNumber}
  BY <1>1 DEF Newer
<1>6. k \notin newer
  <2>1. k \in DOMAIN new => new[k].FIndexNumber <= old[k].FIndexNumber
    BY <1>1, VersionsAreNewest DEF OwnIsNewest
  <2>2. QED
    BY <1>4, <1>5, <2>1
<1>7. ASSUME NEW j \in DOMAIN old \cap DOMAIN new
      PROVE  IF j \in newer THEN old[j].FCustomerInfo \subseteq new[j].FCustomerInfo
                            ELSE new[j].FCustomerInfo \subseteq old[j].FCustomerInfo
  <2>1. IF j \in newer THEN old[j].FIndexNumber <= new[j].FIndexNumber
                       ELSE new[j].FIndexNumber <= old[j].FIndexNumber
    BY <1>4, <1>5
  <2>2. j \in Kernels /\ IsCopy(j, old[j]) /\ IsCopy(j, new[j])
    BY <1>2, <1>3
  <2>3. QED
    BY <2>1, <2>2 DEF Mono
<1>8. QED
  BY <1>1, <1>6, <1>7

LEMMA InfoIsCalm ==
  ASSUME Types, Known, Types', Known', Versions, Mono, Calm, Wired,
         NEW k \in Kernels, NEW i \in 1 .. Len(taken[k]),
         MHandle(k, i), NEW s, s = Snap, NEW t, t = Snap', NEW l, l = taken[k][i].id
  PROVE  Wired' /\ HandleStep(KernelLinks, s, t, k, l)
<1>1. PICK op : op = taken[k][i]
  OBVIOUS
<1>2. PICK new : new = op.net
  OBVIOUS
<1> DEFINE old == FNet[k]
           from == FUUIDFrom[k]
           added == Added(old, new)
           removed == Removed(from, new, l)
           newer == Newer(old, new)
           changed == Changed(old, new, removed)
           net == [j \in (DOMAIN old \ removed) \cup added |->
                     IF j \in added \cup newer THEN new[j] ELSE old[j]]
           src == [j \in (DOMAIN from \ removed) \cup added |->
                     IF j \in added THEN {l}
                     ELSE IF j \in DOMAIN new THEN from[j] ELSE from[j] \ {l}]
           opened == CustomersOf(new, added)
                     \cup UNION {CustomersOf(new, {j}) \ CustomersOf(old, {j}) : j \in newer}
           closed == CustomersOf(old, removed)
                     \cup UNION {CustomersOf(old, {j}) \ CustomersOf(new, {j}) : j \in newer}
           to == IF l \in FAllDescriptors[k] /\ changed # {} THEN FAllDescriptors[k] \ {l} ELSE {}
<1>3. /\ op.what = "info" /\ op.id = l
      /\ FUUIDFrom' = [FUUIDFrom EXCEPT ![k] = src] /\ FAllDescriptors' = FAllDescriptors
      /\ \/ /\ changed # {} /\ FNet' = [FNet EXCEPT ![k] = net]
            /\ MSynchronize(k, i, net, to, opened, closed)
         \/ changed = {} /\ NothingChanges(k, i)
  BY <1>1, <1>2 DEF MHandle, NothingChanges
<1>4. /\ FNet \in [Kernels -> Nets] /\ FUUIDFrom \in [Kernels -> Sources] /\ WiredAt(k)
      /\ op \in Ops /\ Fits(k, op) /\ new \in Nets
  BY <1>1, <1>2, <1>3, FirstInHand, OpsAre DEF Types, Wired
<1>5. l \in KernelLinks /\ k \in Ends[l] /\ l \in LinksOf(k)
  BY <1>3, <1>4, KernelLinksAre DEF Fits
<1>6. \A m \in to \cap LinksOf(k) : FDescriptors[k][m] = "open"
  BY <1>4 DEF WiredAt, Agrees
<1>7. opened \in SUBSET Programs /\ closed \in SUBSET Programs
  BY DEF CustomersOf, Programs
<1>8. changed = {} => to = {}
  OBVIOUS
<1> HIDE DEF net, src, opened, closed, to, changed
<1>9. /\ FNet'[k] = IF changed # {} THEN net ELSE old
      /\ FUUIDFrom'[k] = src
      /\ \A q \in Kernels \ {k} : FNet'[q] = FNet[q] /\ FUUIDFrom'[q] = FUUIDFrom[q]
  BY <1>3, <1>4 DEF NothingChanges
<1>10. /\ world' = world /\ FDescriptors' = FDescriptors
       /\ taken' = [taken EXCEPT ![k] = Without(@, i)]
       /\ (to = {} /\ infos' = infos) \/ infos' = MSendNet(k, FNet'[k], to)
       /\ events' = events \/ events' = [events EXCEPT ![k] =
                                 IF opened \cup closed = {} THEN @ ELSE Append(@, Diff(opened, closed))]
  BY <1>3, <1>8, <1>9 DEF MSynchronize, NothingChanges, descVars
<1>11. events' = events \/ \E e \in DiffOps : events' = [events EXCEPT ![k] = Append(@, e)]
  <2>1. Diff(opened, closed) \in DiffOps
    BY <1>7 DEF Diff, DiffOps
  <2>2. CASE opened \cup closed = {}
    BY <1>10, <2>2 DEF Types
  <2>3. CASE opened \cup closed # {}
    BY <1>10, <2>1, <2>3
  <2>4. QED
    BY <2>2, <2>3
<1>12. /\ Sends(KernelLinks, s, t, k, to)
       /\ \A m \in LinksOf(k) : infos'[k][m] = infos[k][m]
       /\ \A q \in Kernels : \A m \in LinksOf(q) : m \notin KernelLinks => infos'[q][m] = infos[q][m]
  BY <1>3, <1>6, <1>9, <1>10, AppliedSends
<1>13. Wired'
  <2>1. FAllDescriptors' = IF taken[k][i].what = "open"
                             THEN [FAllDescriptors EXCEPT ![k] = @ \cup {taken[k][i].id}]
                             ELSE FAllDescriptors
    BY <1>1, <1>3
  <2>2. QED
    BY <1>10, <1>11, <1>12, <2>1, AppliedIsWired
<1>14. /\ NetOf(s, k) = old /\ FromOf(s, k) = from /\ AllOf(s, k) = FAllDescriptors[k]
       /\ NetOf(t, k) = FNet'[k] /\ FromOf(t, k) = src /\ AllOf(t, k) = FAllDescriptors[k]
  BY <1>3, <1>9, <1>10, SnapIs, NextSnapIs
<1>15. LettersApplied(k, op)
  <2>1. world' = world /\ taken' = [taken EXCEPT ![k] = Without(@, i)]
    BY <1>10
  <2>2. QED
    BY <1>1, <2>1, AppliedLetters
<1>16. ASSUME NEW m \in KernelLinks, k \in Ends[m]
       PROVE  MailOf(t, k, m) = infos[k][m] /\ MailOf(s, k, m) = Letters(k, m)
              /\ (m # l => MailOf(s, k, m) = infos[k][m])
  <2>1. m \in LinksOf(k)
    BY <1>16, KernelLinksAre
  <2>2. Letters(k, m)' = infos'[k][m] /\ (m # l => Letters(k, m) = infos[k][m])
    BY <1>3, <1>15, <2>1 DEF LettersApplied
  <2>3. QED
    BY <1>10, <1>12, <1>16, <2>1, <2>2, SnapIs, NextSnapIs
<1>17. /\ Letters(k, l) # <<>> /\ Head(Letters(k, l)) = new
       /\ Tail(Letters(k, l)) = infos[k][l]
  BY <1>2, <1>3, <1>5, <1>15 DEF LettersApplied
<1>18. /\ MailOf(s, k, l) # <<>> /\ Head(MailOf(s, k, l)) = new
       /\ MailOf(t, k, l) = Tail(MailOf(s, k, l))
       /\ \A m \in KernelLinks \ {l} : k \in Ends[m] => MailOf(t, k, m) = MailOf(s, k, m)
  BY <1>5, <1>16, <1>17
<1>19. /\ k \notin newer
       /\ \A j \in DOMAIN old \cap DOMAIN new :
            IF j \in newer THEN old[j].FCustomerInfo \subseteq new[j].FCustomerInfo
                           ELSE new[j].FCustomerInfo \subseteq old[j].FCustomerInfo
  <2>1. new \in AllNets
    BY <1>1, <1>2, <1>3, TakenNetIsCopy
  <2>2. QED
    BY <1>4, <2>1, NewerHaveMore
<1>20. to = SentByHandle(s, k, l)
  BY <1>14, <1>18 DEF to, changed, SentByHandle
<1>21. HandleStep(KernelLinks, s, t, k, l)
  <2>1. NetOf(t, k) =
          IF Changed(NetOf(s, k), Head(MailOf(s, k, l)), Removed(FromOf(s, k), Head(MailOf(s, k, l)), l)) # {}
            THEN [j \in (DOMAIN NetOf(s, k) \ Removed(FromOf(s, k), Head(MailOf(s, k, l)), l))
                          \cup Added(NetOf(s, k), Head(MailOf(s, k, l))) |->
                     IF j \in Added(NetOf(s, k), Head(MailOf(s, k, l)))
                                \cup Newer(NetOf(s, k), Head(MailOf(s, k, l)))
                       THEN Head(MailOf(s, k, l))[j] ELSE NetOf(s, k)[j]]
            ELSE NetOf(s, k)
    <3>1. NetOf(t, k) = IF changed # {} THEN net ELSE NetOf(s, k)
      BY <1>9, <1>14
    <3>2. changed = Changed(NetOf(s, k), Head(MailOf(s, k, l)), Removed(FromOf(s, k), Head(MailOf(s, k, l)), l))
      BY <1>14, <1>18 DEF changed
    <3>3. net = [j \in (DOMAIN NetOf(s, k) \ Removed(FromOf(s, k), Head(MailOf(s, k, l)), l))
                          \cup Added(NetOf(s, k), Head(MailOf(s, k, l))) |->
                     IF j \in Added(NetOf(s, k), Head(MailOf(s, k, l)))
                                \cup Newer(NetOf(s, k), Head(MailOf(s, k, l)))
                       THEN Head(MailOf(s, k, l))[j] ELSE NetOf(s, k)[j]]
      BY <1>14, <1>18 DEF net
    <3>4. QED
      BY <3>1, <3>2, <3>3, Zenon
  <2>2. FromOf(t, k) =
          [j \in (DOMAIN FromOf(s, k) \ Removed(FromOf(s, k), Head(MailOf(s, k, l)), l))
                  \cup Added(NetOf(s, k), Head(MailOf(s, k, l))) |->
             IF j \in Added(NetOf(s, k), Head(MailOf(s, k, l))) THEN {l}
             ELSE IF j \in DOMAIN Head(MailOf(s, k, l)) THEN FromOf(s, k)[j]
                                                       ELSE FromOf(s, k)[j] \ {l}]
    BY <1>14, <1>18 DEF src
  <2>3. /\ k \notin Newer(NetOf(s, k), Head(MailOf(s, k, l)))
        /\ \A j \in DOMAIN NetOf(s, k) \cap DOMAIN Head(MailOf(s, k, l)) :
             IF j \in Newer(NetOf(s, k), Head(MailOf(s, k, l)))
               THEN NetOf(s, k)[j].FCustomerInfo \subseteq Head(MailOf(s, k, l))[j].FCustomerInfo
               ELSE Head(MailOf(s, k, l))[j].FCustomerInfo \subseteq NetOf(s, k)[j].FCustomerInfo
    BY <1>14, <1>18, <1>19
  <2>4. Sends(KernelLinks, s, t, k, SentByHandle(s, k, l)) /\ AllOf(t, k) = AllOf(s, k)
    BY <1>12, <1>14, <1>20
  <2>5. QED
    BY <1>5, <1>18, <2>1, <2>2, <2>3, <2>4, Zenon DEF HandleStep
<1>22. QED
  BY <1>13, <1>21

LEMMA StepKeepsMono ==
  ASSUME Types, Known, Versions, Mono, NEW k \in Kernels, Moves(k),
         FNet[k][k].FCustomerInfo \subseteq FNet'[k][k].FCustomerInfo
  PROVE  Mono'
<1>1. PICK mine : mine = FNet'[k][k]
  OBVIOUS
<1>2. \A j, r : IsCopy(j, r) => j \in Kernels /\ r.FIndexNumber \in Nat
  BY CopiesAreRecords DEF Records
<1>3. IsCopy(k, FNet[k][k])
  BY OwnNetIsCopy DEF Known, Matches
<1>4. /\ Record({}, 0).FCustomerInfo = {} /\ Record({}, 0).FIndexNumber = 0
  BY DEF Record
<1>5. PICK n : n = FNet[k][k].FIndexNumber
  OBVIOUS
<1>6. ASSUME NEW j, NEW r, IsCopy(j, r)'
      PROVE  \/ IsCopy(j, r) \/ r = Record({}, 0)
             \/ j = k /\ r = mine /\ mine.FIndexNumber = n + 1
  <2>1. CASE UNCHANGED <<FNet, FUUIDFrom>>
    <3>1. \A net \in AllNets' : net \in AllNets
      BY <2>1, OwnNetIsCopy DEF Moves, NetsMove
    <3>2. QED
      BY <1>6, <3>1 DEF IsCopy
  <2>2. CASE Renews(k)
    <3>1. PICK net \in Nets, from \in Sources :
            FNet' = [FNet EXCEPT ![k] = net] /\ Continues(k, net)
      BY <2>2 DEF Renews
    <3>2. FNet'[k] = net
      BY <3>1 DEF Types
    <3>3. IsCopy(j, r) \/ (j \in DOMAIN net /\ r = net[j])
      BY <1>6, <3>2 DEF Moves, NetsMove, IsCopy
    <3>4. net[k] = FNet[k][k] \/ net[k].FIndexNumber = n + 1
      BY <1>5, <3>1 DEF Continues
    <3>5. QED
      BY <1>1, <1>3, <3>1, <3>2, <3>3, <3>4 DEF Continues
  <2>3. QED
    BY <2>1, <2>2 DEF Moves
<1>7. \A r : IsCopy(k, r) => r.FIndexNumber <= n /\ r.FCustomerInfo \subseteq mine.FCustomerInfo
  <2> SUFFICES ASSUME NEW r, IsCopy(k, r)
               PROVE  r.FIndexNumber <= n /\ r.FCustomerInfo \subseteq mine.FCustomerInfo
    OBVIOUS
  <2>1. r.FIndexNumber <= n
    BY <1>5 DEF Versions
  <2>2. r.FCustomerInfo \subseteq FNet[k][k].FCustomerInfo
    BY <1>3, <1>5, <2>1 DEF Mono
  <2>3. QED
    BY <1>1, <2>1, <2>2
<1>8. n \in Nat
  BY <1>2, <1>3, <1>5
<1>9. ASSUME NEW j \in Kernels, NEW r, NEW q, IsCopy(j, r)', IsCopy(j, q)',
             r.FIndexNumber <= q.FIndexNumber
      PROVE  r.FCustomerInfo \subseteq q.FCustomerInfo
  <2>1. CASE r = Record({}, 0)
    BY <1>4, <2>1
  <2>2. CASE IsCopy(j, r) /\ IsCopy(j, q)
    BY <1>9, <2>2 DEF Mono
  <2>3. CASE IsCopy(j, r) /\ q = Record({}, 0)
    <3>1. r.FIndexNumber = 0
      BY <1>2, <1>4, <1>9, <2>3
    <3>2. QED
      BY <1>4, <2>3, <3>1 DEF Versions
  <2>4. CASE IsCopy(j, r) /\ j = k /\ q = mine
    BY <1>7, <2>4
  <2>5. CASE j = k /\ r = mine /\ mine.FIndexNumber = n + 1
    <3>1. q = mine \/ q.FIndexNumber <= n
      BY <1>4, <1>6, <1>7, <1>8, <1>9, <2>5
    <3>2. q = mine
      <4>1. IsCopy(k, q) => q.FIndexNumber \in Nat
        BY <1>2
      <4>2. IsCopy(k, q) \/ q = Record({}, 0) \/ q = mine
        BY <1>6, <1>9, <2>5
      <4>3. CASE IsCopy(k, q)
        <5>1. q.FIndexNumber \in Nat /\ q.FIndexNumber <= n /\ n + 1 <= q.FIndexNumber
          BY <1>7, <1>9, <2>5, <4>1, <4>3
        <5>2. QED
          BY <1>8, <5>1
      <4>4. CASE q = Record({}, 0)
        <5>1. n + 1 <= 0
          BY <1>4, <1>9, <2>5, <4>4
        <5>2. QED
          BY <1>8, <5>1
      <4>5. QED
        BY <4>2, <4>3, <4>4
    <3>3. QED
      BY <2>5, <3>2
  <2>6. QED
    BY <1>6, <1>9, <2>1, <2>2, <2>3, <2>4, <2>5
<1>10. QED
  BY <1>9 DEF Mono

(* What holds in all runs, and in the calm ones.                           *)
CalmInv == Off /\ (Calm => Wired /\ Mono /\ Good(KernelLinks, Snap))

LEMMA OneWayNet == Types /\ OneWayOnly => OneWay(KernelLinks)
BY KernelLinksAre DEF OneWayOnly, OneWay, Connected

LEMMA InitIsCalm == Init => CalmInv
<1> SUFFICES ASSUME Init PROVE CalmInv
  OBVIOUS
<1>1. Types /\ Known /\ Versions
  BY InitTypes, InitVersions
<1>2. Off
  <2>1. /\ FDescriptors = [k \in Kernels |-> [l \in LinksOf(k) |-> "created"]] /\ aborted = {}
    BY DEF Init
  <2>2. QED
    BY <2>1 DEF Off
<1>3. ASSUME Calm PROVE Wired /\ Mono /\ Good(KernelLinks, Snap)
  <2>1. \A k \in Kernels : /\ FNet[k] = [i \in {k} |-> Record({}, 0)]
                           /\ FUUIDFrom[k] = [i \in {k} |-> {INVALID}]
                           /\ FAllDescriptors[k] = {} /\ events[k] = <<>> /\ taken[k] = <<>>
                           /\ DOMAIN FDescriptors[k] = LinksOf(k)
                           /\ \A l \in LinksOf(k) : FDescriptors[k][l] = "created" /\ infos[k][l] = <<>>
    BY DEF Init
  <2>2. Wired
    <3>1. \A k \in Kernels : OpsAt(k) = {} /\ Len(taken[k]) <= 1
      <4>1. ItemsIn(<<>>) = {} /\ Len(<<>>) <= 1
        BY DEF ItemsIn
      <4>2. QED
        BY <2>1, <4>1, Zenon DEF OpsAt
    <3>2. \A k \in Kernels : \A l \in LinksOf(k) : Agrees(k, l)
      BY <2>1 DEF Agrees
    <3>3. DOMAIN FAllDescriptors = Kernels /\ DOMAIN FDescriptors = Kernels
      BY DEF Init
    <3>4. QED
      BY <2>1, <3>1, <3>2, <3>3 DEF Wired, WiredAt
  <2>3. Mono
    <3>1. Record({}, 0).FIndexNumber = 0
      BY DEF Record
    <3>2. ASSUME NEW j \in Kernels, NEW r, IsCopy(j, r) PROVE r = Record({}, 0)
      <4>1. r.FIndexNumber \in Nat /\ r.FIndexNumber <= FNet[j][j].FIndexNumber
        BY <1>1, <3>2, CopiesAreRecords DEF Versions, Records
      <4>2. FNet[j][j] = Record({}, 0)
        BY <2>1
      <4>3. r.FIndexNumber = 0
        BY <3>1, <4>1, <4>2
      <4>4. QED
        BY <1>1, <3>2, <4>3 DEF Versions
    <3>3. QED
      BY <3>2 DEF Mono
  <2>4. PICK s : s = Snap
    OBVIOUS
  <2>5. PICK kl : kl = KernelLinks
    OBVIOUS
  <2>6. OneWay(kl) /\ KernelNetLinks(kl) /\ Shaped(kl, s)
    BY <1>1, <1>3, <2>4, <2>5, OneWayNet, SnapIsShaped DEF Calm, OneWay
  <2>7. ASSUME NEW k \in Kernels
        PROVE  /\ \A j : j \in DOMAIN NetOf(s, k) <=> j = k
               /\ FromOf(s, k)[k] = {INVALID} /\ AllOf(s, k) = {}
    <3>1. NetOf(s, k) = FNet[k] /\ FromOf(s, k) = FUUIDFrom[k] /\ AllOf(s, k) = FAllDescriptors[k]
      BY <2>4, SnapIs
    <3>2. FNet[k] = [i \in {k} |-> Record({}, 0)] /\ FUUIDFrom[k] = [i \in {k} |-> {INVALID}]
      BY <2>1
    <3>3. DOMAIN FNet[k] = {k} /\ FUUIDFrom[k][k] = {INVALID}
      BY <3>2
    <3>4. FAllDescriptors[k] = {}
      BY <2>1
    <3>5. QED
      BY <3>1, <3>3, <3>4
  <2>8. ASSUME NEW l \in kl, NEW q \in Ends[l]
        PROVE  /\ MailOf(s, q, l) = <<>> /\ ItemsIn(MailOf(s, q, l)) = {} /\ Ascending(MailOf(s, q, l))
    <3>1. q \in Kernels /\ l \in LinksOf(q)
      BY <1>1, <2>5, KernelLinksAre
    <3>2. InHand(q, l) = <<>> /\ infos[q][l] = <<>>
      BY <2>1, <3>1 DEF InHand
    <3>3. MailOf(s, q, l) = <<>>
      BY <1>1, <2>4, <2>5, <3>1, <3>2, LettersAre, SnapIs
    <3>4. QED
      BY <3>3 DEF ItemsIn, Ascending
  <2>9. ASSUME NEW l \in kl, NEW q \in Ends[l]
        PROVE  /\ q \in Kernels /\ Peer(q, l) \in Kernels /\ Peer(q, l) \in Ends[l]
               /\ q \in Side(kl, q, l) /\ Peer(q, l) \notin Side(kl, q, l)
               /\ q \notin Side(kl, Peer(q, l), l)
               /\ \A net : net \in HasAt(kl, s, q, l) => net = NetOf(s, q)
               /\ \A net : net \in HasAt(kl, s, Peer(q, l), l) => net = NetOf(s, Peer(q, l))
    <3>1. PICK p : p = Peer(q, l)
      OBVIOUS
    <3>2. /\ q \in Kernels /\ p \in Kernels /\ p \in Ends[l] /\ Peer(p, l) = q
      BY <2>6, <3>1, KernelEnds
    <3>3. q \in Side(kl, q, l) /\ p \notin Side(kl, q, l) /\ q \notin Side(kl, p, l)
      BY <2>6, <3>1, <3>2, SidesAre
    <3>4. ASSUME NEW o \in Ends[l], NEW net \in HasAt(kl, s, o, l) PROVE net = NetOf(s, o)
      <4>1. \A m \in Between(kl, l) : ItemsIn(MailOf(s, o, m)) = {}
        BY <2>6, <2>8, BetweenAre
      <4>2. QED
        BY <3>4, <4>1, HasIs
    <3>5. QED
      BY <3>1, <3>2, <3>3, <3>4
  <2>10. Signed(kl, s)
    BY <2>8 DEF Signed
  <2>11. Near(kl, s)
    <3>1. \A k \in Kernels : k \in ConnectedBy(kl, k)
      BY <2>6, JoinedAre
    <3>2. QED
      BY <2>7, <3>1 DEF Near
  <2>12. Bounded(kl, s)
    <3> SUFFICES ASSUME NEW l \in kl, NEW q \in Ends[l],
                        NEW net \in HasAt(kl, s, Peer(q, l), l) \cup HasAt(kl, s, q, l),
                        NEW j \in DOMAIN net, j \in Side(kl, q, l)
                 PROVE  Covers(NetOf(s, q), j, net[j].FCustomerInfo)
      BY DEF Bounded, Within
    <3>1. PICK p : p = Peer(q, l)
      OBVIOUS
    <3>2. net = NetOf(s, q) \/ net = NetOf(s, p)
      BY <2>9, <3>1
    <3>3. net # NetOf(s, p)
      <4>1. p \in Kernels /\ p \notin Side(kl, q, l) /\ (net = NetOf(s, p) => j = p)
        BY <2>7, <2>9, <3>1
      <4>2. QED
        BY <4>1
    <3>4. QED
      BY <3>2, <3>3 DEF Covers
  <2>13. Rooted(kl, s)
    <3> SUFFICES ASSUME NEW l \in kl, NEW q \in Ends[l],
                        NEW j \in DOMAIN NetOf(s, q), j \in Side(kl, Peer(q, l), l)
                 PROVE  FALSE
      BY DEF Rooted
    <3>1. j = q
      BY <2>7, <2>9
    <3>2. QED
      BY <2>9, <3>1
  <2>14. Ordered(kl, s)
    <3> SUFFICES ASSUME NEW l \in kl, NEW q \in Ends[l], NEW j \in DOMAIN NetOf(s, q),
                        l \in FromOf(s, q)[j]
                 PROVE  FALSE
      BY <2>8 DEF Ordered
    <3>1. q \in Kernels /\ j = q /\ l \in Links
      BY <2>6, <2>7, <2>9 DEF KernelNetLinks
    <3>2. FromOf(s, q)[j] = {INVALID}
      BY <2>7, <3>1
    <3>3. QED
      BY <3>1, <3>2, LinkAssumption
  <2>15. Joined(kl, s)
    BY <2>7 DEF Joined
  <2>16. Answered(kl, s)
    <3>1. \A m \in kl : \A p \in Ends[m] : AllOf(s, Peer(p, m)) = {}
      BY <2>7, <2>9
    <3>2. QED
      BY <3>1 DEF Answered
  <2>17. Passed(kl, s)
    <3>1. \A m \in kl : \A p \in Ends[m] : AllOf(s, p) = {}
      BY <2>7, <2>9
    <3>2. QED
      BY <3>1 DEF Passed
  <2>18. QED
    BY <2>2, <2>3, <2>4, <2>5, <2>6, <2>10, <2>11, <2>12, <2>13, <2>14, <2>15, <2>16, <2>17 DEF Good
<1>4. QED
  BY <1>2, <1>3 DEF CalmInv

LEMMA StepKeepsOff ==
  ASSUME Off, NEW k \in Kernels, k \notin world.silent, StepOf(k)
  PROVE  Off'
<1>1. /\ world' = world /\ broken \subseteq broken'
      /\ DOMAIN FDescriptors' = DOMAIN FDescriptors
      /\ \A p \in Kernels \ {k} : FDescriptors'[p] = FDescriptors[p]
      /\ \A p \in Kernels : p \in aborted' => p \in aborted \/ LinksOf(p) \subseteq broken'
  <2>1. ASSUME NEW l \in LinksOf(k), MOpen(k, l) \/ MClose(k, l) PROVE <1>1
    BY <2>1 DEF MOpen, MClose, Off
  <2>2. CASE TakeEvent(k) \/ \E l \in LinksOf(k) : TakeInfo(k, l)
    BY <2>2 DEF TakeEvent, TakeInfo, descVars
  <2>3. ASSUME NEW i \in 1 .. Len(taken[k]), MHandleDiff(k, i) PROVE <1>1
    BY <2>3 DEF MHandleDiff, descVars
  <2>4. ASSUME NEW i \in 1 .. Len(taken[k]), MHandleOpen(k, i) PROVE <1>1
    BY <2>4 DEF MHandleOpen, MSynchronize, descVars
  <2>5. ASSUME NEW i \in 1 .. Len(taken[k]), MHandleClose(k, i) PROVE <1>1
    BY <2>5 DEF MHandleClose, MSynchronize, descVars
  <2>6. ASSUME NEW i \in 1 .. Len(taken[k]), MHandle(k, i) PROVE <1>1
    BY <2>6 DEF MHandle, MSynchronize, descVars
  <2>7. ASSUME NEW to, MNextDestinations(k, to) PROVE <1>1
    BY <2>7 DEF MNextDestinations, descVars
  <2>8. QED
    BY <2>1, <2>2, <2>3, <2>4, <2>5, <2>6, <2>7 DEF StepOf, Apply
<1>2. \A p : LinksOf(p)' = LinksOf(p)
  BY <1>1 DEF LinksOf
<1>3. QED
  BY <1>1, <1>2 DEF Off

(* A calm step was preceded by a calm run.                                 *)
LEMMA WasCalm ==
  ASSUME world' = world, broken \subseteq broken', Calm'
  PROVE  Calm /\ KernelLinks' = KernelLinks
<1>1. KernelLinks' = KernelLinks /\ \A k : LinksOf(k)' = LinksOf(k)
  BY DEF KernelLinks, LinksOf
<1>2. OneWayOnly' <=> OneWayOnly
  BY <1>1 DEF OneWayOnly, Connected
<1>3. QED
  BY <1>1, <1>2 DEF Calm

LEMMA RestsKeepsGood ==
  ASSUME IInv, IInv', Calm, Wired, Mono, Good(KernelLinks, Snap), NEW k \in Kernels, Moves(k), Wired', Rests
  PROVE  Wired' /\ Mono' /\ Good(KernelLinks, Snap)'
<1>1. Snap' = Snap /\ KernelLinks' = KernelLinks
  BY RestsIsSame DEF IInv, Rests, KernelLinks
<1>2. Good(KernelLinks, Snap)'
  <2>1. PICK s : s = Snap
    OBVIOUS
  <2>2. PICK kl : kl = KernelLinks
    OBVIOUS
  <2>3. Good(kl, s)
    BY <2>1, <2>2
  <2>4. s = Snap' /\ kl = KernelLinks'
    BY <1>1, <2>1, <2>2
  <2>5. QED
    BY <2>3, <2>4
<1>3. FNet[k][k].FCustomerInfo \subseteq FNet'[k][k].FCustomerInfo
  BY DEF Rests
<1>4. Mono'
  BY <1>3, StepKeepsMono DEF IInv
<1>5. QED
  BY <1>2, <1>4

LEMMA CalmStep ==
  ASSUME IInv, IInv', Wired, Mono, Good(KernelLinks, Snap), Calm, Calm',
         NEW k \in Kernels, StepOf(k), Moves(k)
  PROVE  Wired' /\ Mono' /\ Good(KernelLinks, Snap)'
<1>1. PICK s : s = Snap
  OBVIOUS
<1>2. PICK t : t = Snap'
  OBVIOUS
<1>3. PICK kl : kl = KernelLinks
  OBVIOUS
<1>4. OneWay(kl) /\ Good(kl, s)
  BY <1>1, <1>3, OneWayNet DEF Calm, IInv
<1>5. Ordered(kl, s) /\ KernelNetLinks(kl) /\ k \in DOMAIN FNet[k] /\ NetOf(s, k) = FNet[k]
  BY <1>1, <1>4, SnapIs DEF Good, OneWay, IInv, Known, Matches
<1>6. ASSUME world' = world, Good(kl, t), Includes(NetOf(t, k), NetOf(s, k))
      PROVE  Mono' /\ Good(KernelLinks, Snap)'
  <2>1. KernelLinks' = kl
    BY <1>3, <1>6 DEF KernelLinks
  <2>2. Good(KernelLinks, Snap)'
    BY <1>2, <1>6, <2>1
  <2>3. NetOf(t, k) = FNet'[k]
    BY <1>2, <1>6, NextSnapIs
  <2>4. FNet[k][k].FCustomerInfo \subseteq FNet'[k][k].FCustomerInfo
    BY <1>5, <1>6, <2>3 DEF Includes, Covers
  <2>5. QED
    BY <2>2, <2>4, StepKeepsMono DEF IInv
<1>7. ASSUME NEW l \in LinksOf(k), MOpen(k, l) PROVE Wired' /\ Rests
  BY <1>7, MOpenIsCalm DEF IInv
<1>8. ASSUME NEW l \in LinksOf(k), MClose(k, l) PROVE FALSE
  BY <1>8 DEF MClose, Calm
<1>9. CASE TakeEvent(k)
  BY <1>9, TakeEventIsCalm, RestsKeepsGood DEF IInv
<1>10. ASSUME NEW l \in LinksOf(k), TakeInfo(k, l) PROVE Wired' /\ Rests
  BY <1>10, TakeInfoIsCalm DEF IInv
<1>11. ASSUME NEW to, MNextDestinations(k, to) PROVE Wired' /\ Rests
  BY <1>11, LookUpIsCalm DEF IInv
<1>12. ASSUME NEW i \in 1 .. Len(taken[k]), MHandleDiff(k, i) PROVE Wired' /\ Rests
  BY <1>12, DiffIsCalm DEF IInv
<1>13. ASSUME NEW i \in 1 .. Len(taken[k]), MHandleClose(k, i) PROVE FALSE
  <2>1. taken[k][i].what = "close"
    BY <1>13 DEF MHandleClose
  <2>2. QED
    BY <2>1, FirstInHand DEF IInv, Fits
<1>14. ASSUME NEW i \in 1 .. Len(taken[k]), MHandleOpen(k, i)
       PROVE  Wired' /\ Mono' /\ Good(KernelLinks, Snap)'
  <2>1. PICK l : l = taken[k][i].id
    OBVIOUS
  <2>2. Wired' /\ OpenStep(kl, s, t, k, l)
    BY <1>1, <1>2, <1>3, <1>14, <2>1, OpenIsCalm DEF IInv
  <2>3. Good(kl, t)
    BY <1>4, <2>2, OpenKeepsGood
  <2>4. Includes(NetOf(t, k), NetOf(s, k))
    BY <2>2, OpenGrows DEF Grows
  <2>5. world' = world
    BY <1>14 DEF MHandleOpen, MSynchronize
  <2>6. QED
    BY <1>6, <2>2, <2>3, <2>4, <2>5
<1>15. ASSUME NEW i \in 1 .. Len(taken[k]), MHandle(k, i)
       PROVE  Wired' /\ Mono' /\ Good(KernelLinks, Snap)'
  <2>1. PICK l : l = taken[k][i].id
    OBVIOUS
  <2>2. Wired' /\ HandleStep(kl, s, t, k, l)
    BY <1>1, <1>2, <1>3, <1>15, <2>1, InfoIsCalm DEF IInv
  <2>3. Good(kl, t)
    BY <1>4, <2>2, HandleKeepsGood
  <2>4. Includes(NetOf(t, k), NetOf(s, k))
    BY <1>5, <2>2, HandleGrows DEF Grows
  <2>5. world' = world
    BY <1>15 DEF MHandle, MSynchronize
  <2>6. QED
    BY <1>6, <2>2, <2>3, <2>4, <2>5
<1>16. QED
  BY <1>7, <1>8, <1>9, <1>10, <1>11, <1>12, <1>13, <1>14, <1>15, RestsKeepsGood DEF StepOf, Apply

LEMMA CalmInvariance == Spec => [](IInv /\ CalmInv)
<1>1. IInv /\ CalmInv /\ IInv' /\ [Next]_vars => CalmInv'
  <2> SUFFICES ASSUME IInv, CalmInv, IInv', [Next]_vars PROVE CalmInv'
    OBVIOUS
  <2>1. CASE Next
    <3>1. PICK k \in Kernels : StepOf(k) /\ k \notin world.silent
      BY <2>1 DEF Next, Pool, StepOf
    <3>2. Moves(k)
      BY <3>1, VersionsAreNewest, StepMoves DEF IInv
    <3>3. Off'
      BY <3>1, StepKeepsOff DEF CalmInv
    <3>4. world' = world /\ broken \subseteq broken'
      <4>1. ASSUME NEW l \in LinksOf(k), MOpen(k, l) \/ MClose(k, l) PROVE <3>4
        BY <4>1 DEF MOpen, MClose
      <4>2. CASE TakeEvent(k) \/ \E l \in LinksOf(k) : TakeInfo(k, l)
        BY <4>2 DEF TakeEvent, TakeInfo
      <4>3. ASSUME NEW i \in 1 .. Len(taken[k]),
                   \/ MHandleOpen(k, i) \/ MHandleClose(k, i) \/ MHandle(k, i) \/ MHandleDiff(k, i)
            PROVE  <3>4
        <5>1. MHandleOpen(k, i) => <3>4
          BY DEF MHandleOpen, MSynchronize
        <5>2. MHandleClose(k, i) => <3>4
          BY DEF MHandleClose, MSynchronize
        <5>3. MHandle(k, i) => <3>4
          BY DEF MHandle, MSynchronize
        <5>4. MHandleDiff(k, i) => <3>4
          BY DEF MHandleDiff
        <5>5. QED
          BY <4>3, <5>1, <5>2, <5>3, <5>4
      <4>4. ASSUME NEW to, MNextDestinations(k, to) PROVE <3>4
        BY <4>4 DEF MNextDestinations
      <4>5. QED
        BY <3>1, <4>1, <4>2, <4>3, <4>4 DEF StepOf, Apply
    <3>5. ASSUME Calm' PROVE Wired' /\ Mono' /\ Good(KernelLinks, Snap)'
      <4>1. Calm
        BY <3>4, <3>5, WasCalm
      <4>2. QED
        BY <3>1, <3>2, <3>5, <4>1, CalmStep DEF CalmInv
    <3>6. QED
      BY <3>3, <3>5 DEF CalmInv
  <2>2. CASE UNCHANGED vars
    <3>1. UNCHANGED <<world, FDescriptors, FNet, FUUIDFrom, FAllDescriptors, events, infos,
                      taken, broken, aborted>>
      BY <2>2 DEF vars, descVars, infoVars
    <3>2. /\ KernelLinks' = KernelLinks /\ \A k : LinksOf(k)' = LinksOf(k)
          /\ AllNets' = AllNets
      BY <3>1 DEF KernelLinks, LinksOf, AllNets, NetsAt
    <3>3. Off'
      BY <3>1, <3>2 DEF CalmInv, Off
    <3>4. ASSUME Calm' PROVE Wired' /\ Mono' /\ Good(KernelLinks, Snap)'
      <4>1. Calm
        BY <3>1, <3>4, WasCalm
      <4>2. Wired'
        BY <3>1, <3>2, <4>1 DEF CalmInv, Wired, WiredAt, Agrees, Fits, OpsAt
      <4>3. Mono'
        BY <3>2, <4>1 DEF CalmInv, Mono, IsCopy
      <4>4. Snap' = Snap
        BY <3>1, <3>2 DEF Snap, Letters, InHand
      <4>5. Good(KernelLinks, Snap)'
        <5>1. PICK s : s = Snap
          OBVIOUS
        <5>2. PICK kl : kl = KernelLinks
          OBVIOUS
        <5>3. Good(kl, s)
          BY <4>1, <5>1, <5>2 DEF CalmInv
        <5>4. s = Snap' /\ kl = KernelLinks'
          BY <3>2, <4>4, <5>1, <5>2
        <5>5. QED
          BY <5>3, <5>4
      <4>6. QED
        BY <4>2, <4>3, <4>5
    <3>5. QED
      BY <3>3, <3>4 DEF CalmInv
  <2>3. QED
    BY <2>1, <2>2
<1>2. QED
  BY <1>1, InitIsCalm, Invariance, PTL DEF Spec

(* With one thread, once every link is open, none has broken and nothing   *)
(* is left to apply, every kernel has the current record of every kernel   *)
(* it can reach, in any net where kernels hear of each other one way only: *)
(* no send that MHandleOpen and MHandle leave out was needed.              *)
THEOREM EveryoneIsKnownHolds == Spec => []EveryoneIsKnown
<1>1. IInv /\ CalmInv => EveryoneIsKnown
  <2> SUFFICES ASSUME IInv, CalmInv, world.threads = 1, broken = {}, Quiet, OneWayOnly,
                      \A k \in Kernels : \A l \in LinksOf(k) : FDescriptors[k][l] = "open",
                      NEW k \in Kernels
               PROVE  /\ DOMAIN FNet[k] = Connected(k)
                      /\ \A j \in Connected(k) : FNet[k][j].FCustomerInfo = FNet[j][j].FCustomerInfo
    BY DEF EveryoneIsKnown
  <2>1. \A p \in Kernels : \A l \in LinksOf(p) : p \notin world.silent /\ p \notin aborted
    BY DEF CalmInv, Off
  <2>2. Calm /\ Wired /\ Mono /\ Good(KernelLinks, Snap)
    <3>1. world.silent \subseteq Kernels
      BY WorldAssumption DEF IInv, Types
    <3>2. Calm
      BY <2>1, <3>1 DEF Calm
    <3>3. QED
      BY <3>2 DEF CalmInv
  <2>3. PICK s : s = Snap
    OBVIOUS
  <2>4. PICK kl : kl = KernelLinks
    OBVIOUS
  <2>5. OneWay(kl) /\ KernelNetLinks(kl) /\ Good(kl, s)
    BY <2>2, <2>3, <2>4, OneWayNet DEF IInv, OneWay
  <2>6. ASSUME NEW l \in kl, NEW q \in Ends[l] PROVE MailOf(s, q, l) = <<>> /\ l \in AllOf(s, q)
    <3>1. q \in Kernels /\ l \in LinksOf(q)
      BY <2>4, KernelLinksAre DEF IInv
    <3>2. events[q] = <<>> /\ taken[q] = <<>> /\ infos[q][l] = <<>>
      BY <2>1, <3>1 DEF Quiet, Idle
    <3>3. MailOf(s, q, l) = <<>>
      <4>1. InHand(q, l) = <<>>
        BY <3>2 DEF InHand
      <4>2. Letters(q, l) = <<>>
        BY <3>1, <3>2, <4>1, LettersAre DEF IInv
      <4>3. QED
        BY <2>3, <2>4, <4>2, SnapIs
    <3>4. l \in AllOf(s, q)
      <4>1. OpsAt(q) = {}
        BY <3>2 DEF OpsAt, ItemsIn
      <4>2. l \in FAllDescriptors[q]
        BY <2>2, <3>1, <4>1 DEF Wired, WiredAt, Agrees
      <4>3. QED
        BY <2>3, <4>2, SnapIs
    <3>5. QED
      BY <3>3, <3>4
  <2>7. ASSUME NEW j \in Connected(k)
        PROVE  j \in DOMAIN FNet[k] /\ FNet[k][j].FCustomerInfo = FNet[j][j].FCustomerInfo
    <3>1. j \in ConnectedBy(kl, k) /\ j \in Kernels /\ k \in ConnectedBy(kl, j)
      BY <2>4, <2>5, JoinedAre, JoinedBack DEF Connected
    <3>2. Covers(NetOf(s, k), j, NetOf(s, j)[j].FCustomerInfo)
      BY <2>5, <2>6, <3>1, GoodSettles
    <3>3. j \in DOMAIN FNet[k] /\ FNet[j][j].FCustomerInfo \subseteq FNet[k][j].FCustomerInfo
      BY <2>3, <3>2, SnapIs DEF Covers
    <3>4. IsCopy(j, FNet[k][j]) /\ IsCopy(j, FNet[j][j])
      BY <3>1, <3>3, OwnNetIsCopy DEF IInv, Known, Matches
    <3>5. FNet[k][j].FIndexNumber <= FNet[j][j].FIndexNumber
      BY <3>1, <3>4 DEF IInv, Versions
    <3>6. FNet[k][j].FCustomerInfo \subseteq FNet[j][j].FCustomerInfo
      BY <2>2, <3>1, <3>4, <3>5 DEF Mono
    <3>7. QED
      BY <3>3, <3>6
  <2>8. DOMAIN FNet[k] \subseteq Connected(k)
    BY <2>3, <2>4, <2>5, SnapIs DEF Good, Near, Connected
  <2>9. QED
    BY <2>7, <2>8
<1>2. QED
  BY <1>1, CalmInvariance, PTL
=============================================================================
