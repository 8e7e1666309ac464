-------------------------- MODULE DataObjectProofs --------------------------
(***************************************************************************)
(* Theorems about DataObject for any set of descriptors, any number of     *)
(* workers and any bounds.                                                 *)
(***************************************************************************)
EXTENDS DataObject, TLAPS

(* How the sequence of queued operations changes. *)
LEMMA AppendTask ==
  ASSUME NEW s \in Seq(Desc), NEW d \in Desc
  PROVE  /\ Append(s, d) \in Seq(Desc)
         /\ DOMAIN Append(s, d) = DOMAIN s \cup {Len(s) + 1}
         /\ Len(s) + 1 \notin DOMAIN s
         /\ \A i \in DOMAIN s : Append(s, d)[i] = s[i]
         /\ Append(s, d)[Len(s) + 1] = d
OBVIOUS

LEMMA TailTask ==
  ASSUME NEW s \in Seq(Desc), s # <<>>
  PROVE  /\ Tail(s) \in Seq(Desc)
         /\ Head(s) \in Desc
         /\ 1 \in DOMAIN s
         /\ Head(s) = s[1]
         /\ \A i \in DOMAIN Tail(s) :
              i + 1 \in DOMAIN s /\ i + 1 # 1 /\ Tail(s)[i] = s[i + 1]
         /\ \A i \in DOMAIN s : i # 1 => i - 1 \in DOMAIN Tail(s) /\ Tail(s)[i - 1] = s[i]
         /\ DOMAIN s \subseteq Nat /\ DOMAIN Tail(s) \subseteq Nat
OBVIOUS

Queued(d) == \E i \in DOMAIN tasks : tasks[i] = d
HasOperation(d) == Queued(d) \/ \E w \in Workers : Running(w, d)

(* Each descriptor has at most one operation, queued or running. *)
OneOperation ==
  /\ \A i, j \in DOMAIN tasks : tasks[i] = tasks[j] => i = j
  /\ \A w \in Workers : pc[w] # "idle" => ~Queued(op[w])
  /\ \A w, v \in Workers :
       pc[w] # "idle" /\ pc[v] # "idle" /\ op[w] = op[v] => w = v

(* What the stage of the operation says about the user_operation_t. *)
StageOfOperation ==
  /\ \A i \in DOMAIN tasks :
       tasks[i] \in FUserDataFIFO /\ FUserData[tasks[i]] # <<>>
  /\ \A w \in Workers : pc[w] \in {"taken", "keeping"} =>
       op[w] \in FUserDataFIFO /\ FUserData[op[w]] # <<>>
  /\ \A w \in Workers : pc[w] = "calling" =>
       op[w] \in FUserDataFIFO /\ FIsWorking[op[w]]
  /\ \A d \in Desc : FIsWorking[d] \/ FUserData[d] # <<>> => HasOperation(d)

(* The inductive invariant.  FIsWorking has to be tied to an operation as  *)
(* well: DataHasOperation alone would allow a flag that no operation ever  *)
(* clears, and NeedCall would then never schedule again.                   *)
IInv == TypeOK /\ OneOperation /\ StageOfOperation

LEMMA TasksAreDesc == TypeOK => \A i \in DOMAIN tasks : tasks[i] \in Desc
BY DEF TypeOK

LEMMA InitIInv == Init => IInv
<1> SUFFICES ASSUME Init PROVE IInv
  OBVIOUS
<1> DEFINE d0 == CHOOSE d \in Desc : TRUE
<1>0. d0 \in Desc
  BY DataObjectAssumption
<1>1. op = [w \in Workers |-> d0]
  BY DEF Init
<1> HIDE DEF d0
<1>2. TypeOK
  <2>1. op \in [Workers -> Desc]
    BY <1>0, <1>1
  <2>2. <<>> \in Seq(Nat) /\ <<>> \in Seq(Desc)
    OBVIOUS
  <2>3. FIsWorking \in [Desc -> BOOLEAN]
    BY DEF Init
  <2>4. QED
    BY <2>1, <2>2, <2>3 DEF Init, TypeOK, PCs
<1>3. OneOperation /\ StageOfOperation
  BY DEF Init, OneOperation, StageOfOperation, Queued, HasOperation, Running
<1>4. QED
  BY <1>2, <1>3 DEF IInv

LEMMA MPushIInv ==
  ASSUME IInv, NEW d \in Desc, NEW n \in 1 .. MaxBatch, MPush(d, n)
  PROVE  IInv'
<1> DEFINE new == [i \in 1 .. n |-> pushed[d] + i]
<1>0. n \in Nat /\ n > 0 /\ TypeOK
  BY DataObjectAssumption DEF IInv
<1>1. new \in Seq(Nat) /\ new # <<>>
  <2>1. pushed[d] \in Nat
    BY <1>0 DEF TypeOK
  <2>2. \A i \in 1 .. n : pushed[d] + i \in Nat
    BY <2>1, <1>0
  <2>3. new \in [1 .. n -> Nat]
    BY <2>2
  <2>4. new \in Seq(Nat) /\ Len(new) = n
    BY <2>3, <1>0
  <2>5. QED
    BY <2>4, <1>0
<1> HIDE DEF new
<1>2. /\ FUserDataFIFO' = FUserDataFIFO \cup {d}
      /\ FUserData' = [FUserData EXCEPT ![d] = FUserData[d] \o new]
      /\ pushed' = [pushed EXCEPT ![d] = @ + n]
      /\ tasks' = IF NeedCall(d) THEN Append(tasks, d) ELSE tasks
      /\ UNCHANGED <<FIsWorking, pc, op, batch, handled>>
  BY DEF MPush, new
<1>3. FUserData[d] \in Seq(Nat) /\ FUserData[d] \o new \in Seq(Nat) /\ FUserData[d] \o new # <<>>
  BY <1>0, <1>1 DEF TypeOK
<1>4. tasks \in Seq(Desc) /\ tasks' \in Seq(Desc)
  BY <1>0, <1>2, AppendTask DEF TypeOK
<1>5. TypeOK'
  <2>1. FUserData' \in [Desc -> Seq(Nat)]
    BY <1>0, <1>2, <1>3 DEF TypeOK
  <2>2. pushed' \in [Desc -> Nat]
    BY <1>0, <1>2 DEF TypeOK
  <2>3. QED
    BY <1>0, <1>2, <1>4, <2>1, <2>2 DEF TypeOK
<1>6. \A e \in Desc : FUserData[e] # <<>> => FUserData'[e] # <<>>
  BY <1>0, <1>2, <1>3 DEF TypeOK
<1>7. FUserData'[d] # <<>>
  BY <1>0, <1>2, <1>3 DEF TypeOK
<1>8. OneOperation /\ StageOfOperation
  BY DEF IInv
<1>9. CASE NeedCall(d)
  <2>1. tasks' = Append(tasks, d)
    BY <1>2, <1>9
  <2>2. ~Queued(d)
    BY <1>8, <1>9 DEF NeedCall, StageOfOperation, Queued
  <2>3. \A w \in Workers : ~Running(w, d)
    BY <1>0, <1>8, <1>9 DEF NeedCall, StageOfOperation, Running, TypeOK, PCs
  <2>4. \A e \in Desc : Queued(e)' <=> Queued(e) \/ e = d
    BY <2>1, <1>4, AppendTask DEF Queued
  <2>5. OneOperation'
    <3>1. \A i, j \in DOMAIN tasks' : tasks'[i] = tasks'[j] => i = j
      BY <1>8, <1>4, <2>1, <2>2, AppendTask DEF OneOperation, Queued
    <3>2. \A w \in Workers : pc'[w] # "idle" => ~Queued(op[w])'
      BY <1>0, <1>2, <1>8, <2>3, <2>4 DEF OneOperation, Running, TypeOK
    <3>3. QED
      BY <1>2, <1>8, <3>1, <3>2 DEF OneOperation, Queued
  <2>6. StageOfOperation'
    <3>1. \A i \in DOMAIN tasks' : tasks'[i] \in FUserDataFIFO' /\ FUserData'[tasks'[i]] # <<>>
      <4>1. ASSUME NEW i \in DOMAIN tasks
            PROVE  tasks'[i] \in FUserDataFIFO' /\ FUserData'[tasks'[i]] # <<>>
        <5>1. tasks[i] \in Desc /\ tasks'[i] = tasks[i]
          BY <1>4, <2>1, AppendTask
        <5>2. QED
          BY <5>1, <1>2, <1>6, <1>8 DEF StageOfOperation
      <4>2. QED
        BY <4>1, <1>2, <1>4, <1>7, <2>1, AppendTask
    <3>2. \A e \in Desc : FIsWorking'[e] \/ FUserData'[e] # <<>> => HasOperation(e)'
      BY <1>0, <1>2, <1>8, <2>4 DEF StageOfOperation, HasOperation, Running, TypeOK
    <3>3. QED
      BY <1>0, <1>2, <1>6, <1>8, <3>1, <3>2 DEF StageOfOperation, TypeOK
  <2>7. QED
    BY <1>5, <2>5, <2>6 DEF IInv
<1>10. CASE ~NeedCall(d)
  <2>1. tasks' = tasks
    BY <1>2, <1>10
  <2>2. HasOperation(d)
    BY <1>8, <1>10 DEF NeedCall, StageOfOperation
  <2>3. OneOperation'
    BY <1>2, <1>8, <2>1 DEF OneOperation, Queued
  <2>4. \A e \in Desc : HasOperation(e)' <=> HasOperation(e)
    BY <1>2, <2>1 DEF HasOperation, Queued, Running
  <2>5. StageOfOperation'
    <3>1. \A i \in DOMAIN tasks : tasks[i] \in Desc
      BY <1>4
    <3>2. \A e \in Desc : e # d => FUserData'[e] = FUserData[e]
      BY <1>0, <1>2 DEF TypeOK
    <3>3. QED
      BY <1>0, <1>2, <1>6, <1>8, <2>1, <2>2, <2>4, <3>1, <3>2 DEF StageOfOperation, TypeOK
  <2>6. QED
    BY <1>5, <2>3, <2>5 DEF IInv
<1>11. QED
  BY <1>9, <1>10

LEMMA NextOperationIInv ==
  ASSUME IInv, NEW w \in Workers, NextOperation(w)
  PROVE  IInv'
<1>0. TypeOK /\ OneOperation /\ StageOfOperation
  BY DEF IInv
<1>1. /\ pc[w] = "idle" /\ tasks # <<>> /\ tasks \in Seq(Desc)
      /\ op' = [op EXCEPT ![w] = Head(tasks)]
      /\ tasks' = Tail(tasks)
      /\ pc' = [pc EXCEPT ![w] = "taken"]
      /\ UNCHANGED <<FUserDataFIFO, FUserData, FIsWorking, batch, pushed, handled>>
  BY <1>0 DEF NextOperation, TypeOK
<1>2. Head(tasks) \in Desc /\ tasks' \in Seq(Desc)
  BY <1>1, TailTask
<1>3. TypeOK'
  BY <1>0, <1>1, <1>2 DEF TypeOK, PCs
<1>4. /\ op'[w] = Head(tasks) /\ pc'[w] = "taken"
      /\ \A v \in Workers : v # w => op'[v] = op[v] /\ pc'[v] = pc[v]
  BY <1>0, <1>1 DEF TypeOK
<1>5. \A d \in Desc : Queued(d)' <=> Queued(d) /\ d # Head(tasks)
  <2> TAKE d \in Desc
  <2>0. \A i, j \in DOMAIN tasks : tasks[i] = tasks[j] => i = j
    BY <1>0 DEF OneOperation
  <2>1. ASSUME NEW i \in DOMAIN tasks', tasks'[i] = d
        PROVE  Queued(d) /\ d # Head(tasks)
    <3>1. /\ i + 1 \in DOMAIN tasks /\ tasks[i + 1] = d /\ i + 1 # 1
          /\ 1 \in DOMAIN tasks /\ Head(tasks) = tasks[1]
      BY <2>1, <1>1, TailTask
    <3>2. QED
      BY <3>1, <2>0 DEF Queued
  <2>2. ASSUME NEW i \in DOMAIN tasks, tasks[i] = d, d # Head(tasks)
        PROVE  Queued(d)'
    <3>1. i # 1
      BY <2>2, <1>1, TailTask
    <3>2. i - 1 \in DOMAIN tasks' /\ tasks'[i - 1] = d
      BY <2>2, <3>1, <1>1, TailTask
    <3>3. QED
      BY <3>2 DEF Queued
  <2>3. QED
    BY <2>1, <2>2 DEF Queued
<1>6. \A d \in Desc : HasOperation(d) => HasOperation(d)'
  BY <1>1, <1>4, <1>5 DEF HasOperation, Running
<1>7. Queued(Head(tasks))
  BY <1>1, TailTask DEF Queued
<1>8. \A i \in DOMAIN tasks' : tasks'[i] \in Desc /\ Queued(tasks'[i])
  BY <1>1, TailTask DEF Queued
<1>9. OneOperation'
  <2>1. \A i, j \in DOMAIN tasks' : tasks'[i] = tasks'[j] => i = j
    BY <1>0, <1>1, TailTask DEF OneOperation
  <2>2. ASSUME NEW v \in Workers, pc'[v] # "idle"
        PROVE  ~(\E i \in DOMAIN tasks' : tasks'[i] = op'[v])
    <3>1. CASE v = w
      BY <3>1, <1>2, <1>4, <1>5 DEF Queued
    <3>2. CASE v # w
      <4>1. ~Queued(op[v]) /\ op'[v] = op[v]
        BY <2>2, <3>2, <1>0, <1>4 DEF OneOperation
      <4>2. QED
        BY <4>1, <1>8
    <3>3. QED
      BY <3>1, <3>2
  <2>3. ASSUME NEW u \in Workers, NEW v \in Workers,
               pc'[u] # "idle", pc'[v] # "idle", op'[u] = op'[v]
        PROVE  u = v
    BY <2>3, <1>0, <1>4, <1>7 DEF OneOperation
  <2>4. QED
    BY <2>1, <2>2, <2>3 DEF OneOperation, Queued
<1>10. StageOfOperation'
  <2>1. \A i \in DOMAIN tasks' : tasks'[i] \in FUserDataFIFO' /\ FUserData'[tasks'[i]] # <<>>
    BY <1>0, <1>1, <1>8 DEF StageOfOperation, Queued
  <2>2. \A v \in Workers : pc'[v] \in {"taken", "keeping"} =>
          op'[v] \in FUserDataFIFO' /\ FUserData'[op'[v]] # <<>>
    BY <1>0, <1>1, <1>4, <1>7 DEF StageOfOperation, Queued
  <2>3. \A v \in Workers : pc'[v] = "calling" =>
          op'[v] \in FUserDataFIFO' /\ FIsWorking'[op'[v]]
    BY <1>0, <1>1, <1>4 DEF StageOfOperation
  <2>4. \A d \in Desc : FIsWorking'[d] \/ FUserData'[d] # <<>> => HasOperation(d)'
    BY <1>0, <1>1, <1>6 DEF StageOfOperation
  <2>5. QED
    BY <2>1, <2>2, <2>3, <2>4 DEF StageOfOperation
<1>11. QED
  BY <1>3, <1>9, <1>10 DEF IInv

LEMMA BeginUserOperationIInv ==
  ASSUME IInv, NEW w \in Workers, BeginUserOperation(w)
  PROVE  IInv'
<1>0. TypeOK /\ OneOperation /\ StageOfOperation
  BY DEF IInv
<1>1. /\ pc[w] = "taken" /\ op[w] \in Desc /\ op[w] \in FUserDataFIFO
      /\ batch' = [batch EXCEPT ![w] = FUserData[op[w]]]
      /\ FUserData' = [FUserData EXCEPT ![op[w]] = <<>>]
      /\ FIsWorking' = [FIsWorking EXCEPT ![op[w]] = TRUE]
      /\ pc' = [pc EXCEPT ![w] = "calling"]
      /\ UNCHANGED <<FUserDataFIFO, tasks, op, pushed, handled>>
  BY <1>0 DEF BeginUserOperation, TypeOK, StageOfOperation
<1>2. TypeOK'
  <2>1. <<>> \in Seq(Nat)
    OBVIOUS
  <2>2. FIsWorking' \in [Desc -> BOOLEAN]
    BY <1>0, <1>1 DEF TypeOK
  <2>3. QED
    BY <1>0, <1>1, <2>1, <2>2 DEF TypeOK, PCs
<1>3. /\ pc'[w] = "calling"
      /\ \A v \in Workers : v # w => pc'[v] = pc[v]
      /\ FIsWorking'[op[w]]
      /\ \A d \in Desc : d # op[w] => FUserData'[d] = FUserData[d] /\ FIsWorking'[d] = FIsWorking[d]
  BY <1>0, <1>1 DEF TypeOK
<1>4. \A v \in Workers : pc'[v] # "idle" <=> pc[v] # "idle"
  BY <1>1, <1>3
<1>5. OneOperation'
  BY <1>0, <1>1, <1>4 DEF OneOperation, Queued
<1>6. \A d \in Desc : HasOperation(d)' <=> HasOperation(d)
  BY <1>1, <1>4 DEF HasOperation, Queued, Running
<1>7. StageOfOperation'
  <2>1. \A i \in DOMAIN tasks : tasks[i] \in Desc /\ tasks[i] # op[w]
    BY <1>0, <1>1, TasksAreDesc DEF OneOperation, Queued
  <2>2. \A v \in Workers : v # w /\ pc[v] # "idle" => op[v] \in Desc /\ op[v] # op[w]
    BY <1>0, <1>1 DEF OneOperation, TypeOK
  <2>3. HasOperation(op[w])
    BY <1>1 DEF HasOperation, Running
  <2>4. \A i \in DOMAIN tasks' : tasks'[i] \in FUserDataFIFO' /\ FUserData'[tasks'[i]] # <<>>
    BY <1>0, <1>1, <1>3, <2>1 DEF StageOfOperation
  <2>5. \A v \in Workers : pc'[v] \in {"taken", "keeping"} =>
          op'[v] \in FUserDataFIFO' /\ FUserData'[op'[v]] # <<>>
    BY <1>0, <1>1, <1>3, <2>2 DEF StageOfOperation
  <2>6. \A v \in Workers : pc'[v] = "calling" =>
          op'[v] \in FUserDataFIFO' /\ FIsWorking'[op'[v]]
    BY <1>0, <1>1, <1>3, <2>2 DEF StageOfOperation
  <2>7. \A d \in Desc : FIsWorking'[d] \/ FUserData'[d] # <<>> => HasOperation(d)'
    BY <1>0, <1>3, <1>6, <2>3 DEF StageOfOperation
  <2>8. QED
    BY <2>4, <2>5, <2>6, <2>7 DEF StageOfOperation
<1>8. QED
  BY <1>2, <1>5, <1>7 DEF IInv

LEMMA EndUserOperationIInv ==
  ASSUME IInv, NEW w \in Workers, EndUserOperation(w)
  PROVE  IInv'
<1>0. TypeOK /\ OneOperation /\ StageOfOperation
  BY DEF IInv
<1>1. /\ pc[w] = "calling" /\ op[w] \in Desc /\ op[w] \in FUserDataFIFO
      /\ handled' = [handled EXCEPT ![op[w]] = @ + Len(batch[w])]
      /\ batch' = [batch EXCEPT ![w] = <<>>]
      /\ UNCHANGED <<FUserData, tasks, op, pushed>>
  BY <1>0 DEF EndUserOperation, TypeOK, StageOfOperation
<1>2. handled' \in [Desc -> Nat] /\ batch' \in [Workers -> Seq(Nat)]
  <2>1. Len(batch[w]) \in Nat /\ <<>> \in Seq(Nat)
    BY <1>0 DEF TypeOK
  <2>2. QED
    BY <1>0, <1>1, <2>1 DEF TypeOK
<1>3. \A v \in Workers : v # w /\ pc[v] # "idle" => op[v] \in Desc /\ op[v] # op[w]
  BY <1>0, <1>1 DEF OneOperation, TypeOK
<1>4. \A i \in DOMAIN tasks : tasks[i] \in Desc /\ tasks[i] # op[w]
  BY <1>0, <1>1, TasksAreDesc DEF OneOperation, Queued
<1>5. CASE /\ FUserData[op[w]] # <<>>
           /\ pc' = [pc EXCEPT ![w] = "keeping"]
           /\ UNCHANGED <<FUserDataFIFO, FIsWorking>>
  <2>1. TypeOK'
    BY <1>0, <1>1, <1>2, <1>5 DEF TypeOK, PCs
  <2>2. /\ pc'[w] = "keeping"
        /\ \A v \in Workers : v # w => pc'[v] = pc[v]
    BY <1>0, <1>5 DEF TypeOK
  <2>3. \A v \in Workers : pc'[v] # "idle" <=> pc[v] # "idle"
    BY <1>1, <2>2
  <2>4. OneOperation'
    BY <1>0, <1>1, <2>3 DEF OneOperation, Queued
  <2>5. \A d \in Desc : HasOperation(d)' <=> HasOperation(d)
    BY <1>1, <2>3 DEF HasOperation, Queued, Running
  <2>6. StageOfOperation'
    BY <1>0, <1>1, <1>5, <2>2, <2>5 DEF StageOfOperation
  <2>7. QED
    BY <2>1, <2>4, <2>6 DEF IInv
<1>6. CASE /\ FUserData[op[w]] = <<>>
           /\ FIsWorking' = [FIsWorking EXCEPT ![op[w]] = FALSE]
           /\ FUserDataFIFO' = FUserDataFIFO \ {op[w]}
           /\ pc' = [pc EXCEPT ![w] = "idle"]
  <2>1. TypeOK'
    <3>1. FIsWorking' \in [Desc -> BOOLEAN]
      BY <1>0, <1>6 DEF TypeOK
    <3>2. QED
      BY <1>0, <1>1, <1>2, <1>6, <3>1 DEF TypeOK, PCs
  <2>2. /\ pc'[w] = "idle"
        /\ \A v \in Workers : v # w => pc'[v] = pc[v]
        /\ ~FIsWorking'[op[w]]
        /\ \A d \in Desc : d # op[w] => FIsWorking'[d] = FIsWorking[d]
    BY <1>0, <1>1, <1>6 DEF TypeOK
  <2>3. OneOperation'
    BY <1>0, <1>1, <2>2 DEF OneOperation, Queued
  <2>4. \A d \in Desc : d # op[w] /\ HasOperation(d) => HasOperation(d)'
    BY <1>1, <2>2 DEF HasOperation, Queued, Running
  <2>5. StageOfOperation'
    <3>1. \A i \in DOMAIN tasks' : tasks'[i] \in FUserDataFIFO' /\ FUserData'[tasks'[i]] # <<>>
      BY <1>0, <1>1, <1>4, <1>6 DEF StageOfOperation
    <3>2. \A v \in Workers : pc'[v] \in {"taken", "keeping"} =>
            op'[v] \in FUserDataFIFO' /\ FUserData'[op'[v]] # <<>>
      BY <1>0, <1>1, <1>3, <1>6, <2>2 DEF StageOfOperation
    <3>3. \A v \in Workers : pc'[v] = "calling" =>
            op'[v] \in FUserDataFIFO' /\ FIsWorking'[op'[v]]
      BY <1>0, <1>1, <1>3, <1>6, <2>2 DEF StageOfOperation
    <3>4. \A d \in Desc : FIsWorking'[d] \/ FUserData'[d] # <<>> => HasOperation(d)'
      BY <1>0, <1>1, <1>6, <2>2, <2>4 DEF StageOfOperation
    <3>5. QED
      BY <3>1, <3>2, <3>3, <3>4 DEF StageOfOperation
  <2>6. QED
    BY <2>1, <2>3, <2>5 DEF IInv
<1>7. QED
  BY <1>5, <1>6 DEF EndUserOperation

LEMMA KeepOperationIInv ==
  ASSUME IInv, NEW w \in Workers, KeepOperation(w)
  PROVE  IInv'
<1>0. TypeOK /\ OneOperation /\ StageOfOperation
  BY DEF IInv
<1>1. /\ pc[w] = "keeping" /\ op[w] \in Desc /\ tasks \in Seq(Desc)
      /\ op[w] \in FUserDataFIFO /\ FUserData[op[w]] # <<>>
      /\ tasks' = Append(tasks, op[w])
      /\ pc' = [pc EXCEPT ![w] = "idle"]
      /\ UNCHANGED <<FUserDataFIFO, FUserData, FIsWorking, op, batch, pushed, handled>>
  BY <1>0 DEF KeepOperation, TypeOK, StageOfOperation
<1>2. TypeOK'
  BY <1>0, <1>1, AppendTask DEF TypeOK, PCs
<1>3. /\ pc'[w] = "idle"
      /\ \A v \in Workers : v # w => pc'[v] = pc[v]
  BY <1>0, <1>1 DEF TypeOK
<1>4. \A d \in Desc : Queued(d)' <=> Queued(d) \/ d = op[w]
  BY <1>1, AppendTask DEF Queued
<1>5. \A v \in Workers : v # w /\ pc[v] # "idle" => op[v] \in Desc /\ op[v] # op[w]
  BY <1>0, <1>1 DEF OneOperation, TypeOK
<1>6. OneOperation'
  <2>1. ~Queued(op[w])
    BY <1>0, <1>1 DEF OneOperation
  <2>2. \A i, j \in DOMAIN tasks' : tasks'[i] = tasks'[j] => i = j
    BY <1>0, <1>1, <2>1, AppendTask DEF OneOperation, Queued
  <2>3. \A v \in Workers : pc'[v] # "idle" => ~Queued(op[v])'
    BY <1>0, <1>1, <1>3, <1>4, <1>5 DEF OneOperation
  <2>4. QED
    BY <1>0, <1>1, <1>3, <2>2, <2>3 DEF OneOperation, Queued
<1>7. StageOfOperation'
  <2>1. \A i \in DOMAIN tasks' : tasks'[i] \in FUserDataFIFO' /\ FUserData'[tasks'[i]] # <<>>
    BY <1>0, <1>1, AppendTask DEF StageOfOperation
  <2>2. \A d \in Desc : HasOperation(d) => HasOperation(d)'
    BY <1>1, <1>3, <1>4 DEF HasOperation, Running
  <2>3. QED
    BY <1>0, <1>1, <1>3, <2>1, <2>2 DEF StageOfOperation
<1>8. QED
  BY <1>2, <1>6, <1>7 DEF IInv

LEMMA NextIInv == IInv /\ [Next]_vars => IInv'
<1> SUFFICES ASSUME IInv, [Next]_vars PROVE IInv'
  OBVIOUS
<1>1. CASE UNCHANGED vars
  BY <1>1 DEF vars, IInv, TypeOK, OneOperation, StageOfOperation, Queued,
              HasOperation, Running
<1>2. CASE Next
  BY <1>2, MPushIInv, NextOperationIInv, BeginUserOperationIInv,
     EndUserOperationIInv, KeepOperationIInv DEF Next, Work
<1>3. QED
  BY <1>1, <1>2

(* The handlers of a descriptor are never entered twice at once. *)
THEOREM CallsAreSerialHolds == Spec => [](TypeOK /\ CallsAreSerial)
<1>1. IInv => TypeOK /\ CallsAreSerial
  BY DEF IInv, OneOperation, CallsAreSerial, Calling
<1>2. QED
  BY InitIInv, NextIInv, <1>1, PTL DEF Spec

(* The CHECK of MUserOperation never fails and its object is alive. *)
THEOREM OperationFindsDataHolds == Spec => []OperationFindsData
<1>1. IInv => OperationFindsData
  BY DEF IInv, StageOfOperation, OperationFindsData
<1>2. QED
  BY InitIInv, NextIInv, <1>1, PTL DEF Spec

(* Collected data always has an operation that comes back for it. *)
THEOREM DataHasOperationHolds == Spec => []DataHasOperation
<1>1. IInv => DataHasOperation
  BY DEF IInv, StageOfOperation, DataHasOperation, HasOperation, Queued
<1>2. QED
  BY InitIInv, NextIInv, <1>1, PTL DEF Spec

-----------------------------------------------------------------------------
(* s holds the packets after packet n, without gaps. *)
InOrder(s, n) == \A i \in 1 .. Len(s) : s[i] = n + i

LEMMA EmptyInOrder == \A n : InOrder(<<>>, n) /\ Len(<<>>) = 0
BY DEF InOrder

LEMMA InOrderDomain ==
  ASSUME NEW s \in Seq(Nat), NEW n, InOrder(s, n)
  PROVE  \A i \in DOMAIN s : s[i] = n + i
BY DEF InOrder

LEMMA ConcatInOrder ==
  ASSUME NEW s \in Seq(Nat), NEW t \in Seq(Nat), NEW n \in Nat,
         InOrder(s, n), InOrder(t, n + Len(s))
  PROVE  InOrder(s \o t, n) /\ Len(s \o t) = Len(s) + Len(t)
<1>1. Len(s) \in Nat /\ Len(t) \in Nat /\ Len(s \o t) = Len(s) + Len(t)
  OBVIOUS
<1>2. ASSUME NEW i \in 1 .. Len(s) + Len(t)
      PROVE  (s \o t)[i] = n + i
  <2>1. CASE i <= Len(s)
    BY <1>1, <2>1 DEF InOrder
  <2>2. CASE i > Len(s)
    <3>1. (s \o t)[i] = t[i - Len(s)] /\ i - Len(s) \in 1 .. Len(t)
      BY <1>1, <2>2
    <3>2. QED
      BY <1>1, <3>1 DEF InOrder
  <2>3. QED
    BY <1>1, <2>1, <2>2
<1>3. QED
  BY <1>1, <1>2 DEF InOrder

DataFrom(d, n) ==
  /\ pushed[d] = n + Len(FUserData[d])
  /\ InOrder(FUserData[d], n)

(* The order of all packets that are not yet handled: first the batch in   *)
(* the hands of a worker, then the collected data.                         *)
Order ==
  /\ BatchesAreInOrder
  /\ \A w \in Workers : pc[w] = "calling" =>
       DataFrom(op[w], handled[op[w]] + Len(batch[w]))
  /\ \A d \in Desc : (\A w \in Workers : ~Calling(w, d)) => DataFrom(d, handled[d])

LEMMA InitOrder == Init => Order
<1> SUFFICES ASSUME Init PROVE Order
  OBVIOUS
<1>1. \A w \in Workers : pc[w] # "calling"
  BY DEF Init
<1>2. \A d \in Desc : FUserData[d] = <<>> /\ pushed[d] = 0 /\ handled[d] = 0
  BY DEF Init
<1>3. ASSUME NEW d \in Desc
      PROVE  DataFrom(d, handled[d])
  <2>1. InOrder(FUserData[d], handled[d]) /\ Len(FUserData[d]) = 0
    BY <1>2, EmptyInOrder, Zenon
  <2>2. pushed[d] = handled[d] + 0
    BY <1>2
  <2>3. QED
    BY <2>1, <2>2, Zenon DEF DataFrom
<1>4. QED
  BY <1>1, <1>3 DEF Order, BatchesAreInOrder, Calling

LEMMA MPushOrder ==
  ASSUME TypeOK, Order, NEW d \in Desc, NEW n \in 1 .. MaxBatch, MPush(d, n)
  PROVE  Order'
<1> DEFINE new == [i \in 1 .. n |-> pushed[d] + i]
<1>0. n \in Nat /\ pushed[d] \in Nat /\ FUserData[d] \in Seq(Nat)
  BY DataObjectAssumption DEF TypeOK
<1>1. new \in Seq(Nat) /\ Len(new) = n /\ InOrder(new, pushed[d])
  BY <1>0 DEF InOrder
<1> HIDE DEF new
<1>2. /\ FUserData' = [FUserData EXCEPT ![d] = FUserData[d] \o new]
      /\ pushed' = [pushed EXCEPT ![d] = @ + n]
      /\ UNCHANGED <<FIsWorking, pc, op, batch, handled>>
  BY DEF MPush, new
<1>3. /\ FUserData'[d] = FUserData[d] \o new /\ pushed'[d] = pushed[d] + n
      /\ \A e \in Desc : e # d => FUserData'[e] = FUserData[e] /\ pushed'[e] = pushed[e]
  BY <1>2 DEF TypeOK
<1>5. ASSUME NEW m \in Nat, DataFrom(d, m)
      PROVE  DataFrom(d, m)'
  <2>1. /\ Len(FUserData[d]) \in Nat
        /\ pushed[d] = m + Len(FUserData[d])
        /\ InOrder(FUserData[d], m)
    BY <1>0, <1>5 DEF DataFrom
  <2>2. /\ InOrder(FUserData[d] \o new, m)
        /\ Len(FUserData[d] \o new) = Len(FUserData[d]) + n
    BY <1>0, <1>1, <2>1, ConcatInOrder
  <2>3. pushed[d] + n = m + (Len(FUserData[d]) + n)
    BY <1>0, <2>1
  <2>4. QED
    BY <1>3, <2>2, <2>3 DEF DataFrom
<1>6. \A e \in Desc, m \in Nat : DataFrom(e, m) => DataFrom(e, m)'
  BY <1>3, <1>5 DEF DataFrom
<1>7. BatchesAreInOrder'
  BY <1>2 DEF Order, BatchesAreInOrder
<1>8. \A w \in Workers :
        op[w] \in Desc /\ handled[op[w]] + Len(batch[w]) \in Nat
  BY DEF TypeOK
<1>9. ASSUME NEW w \in Workers, pc'[w] = "calling"
      PROVE  DataFrom(op[w], handled[op[w]] + Len(batch[w]))'
  <2>1. DataFrom(op[w], handled[op[w]] + Len(batch[w]))
    BY <1>2, <1>9 DEF Order
  <2>2. QED
    BY <1>2, <1>3, <1>5, <1>8, <2>1 DEF DataFrom
<1>10. ASSUME NEW e \in Desc, \A w \in Workers : ~Calling(w, e)'
       PROVE  DataFrom(e, handled[e])'
  <2>1. DataFrom(e, handled[e]) /\ handled[e] \in Nat
    BY <1>2, <1>10 DEF Order, Calling, TypeOK
  <2>2. QED
    BY <1>2, <1>3, <1>5, <2>1 DEF DataFrom
<1>11. QED
  BY <1>7, <1>9, <1>10 DEF Order

(* Taking and keeping an operation moves no packet. *)
LEMMA QueueOrder ==
  ASSUME TypeOK, Order, NEW w \in Workers, NextOperation(w) \/ KeepOperation(w)
  PROVE  Order'
<1>1. /\ pc[w] # "calling" /\ pc'[w] # "calling"
      /\ \A v \in Workers : v # w => pc'[v] = pc[v] /\ op'[v] = op[v]
      /\ UNCHANGED <<FUserData, batch, pushed, handled>>
  BY DEF TypeOK, NextOperation, KeepOperation
<1>2. \A v \in Workers, d \in Desc : Calling(v, d)' <=> Calling(v, d)
  BY <1>1 DEF Calling
<1>3. BatchesAreInOrder'
  BY <1>1 DEF Order, BatchesAreInOrder
<1>4. \A v \in Workers : pc'[v] = "calling" =>
        DataFrom(op[v], handled[op[v]] + Len(batch[v]))'
  BY <1>1 DEF Order, DataFrom
<1>5. \A d \in Desc : (\A v \in Workers : ~Calling(v, d)') => DataFrom(d, handled[d])'
  BY <1>1, <1>2 DEF Order, DataFrom
<1>6. QED
  BY <1>3, <1>4, <1>5 DEF Order

LEMMA BeginOrder ==
  ASSUME IInv, Order, NEW w \in Workers, BeginUserOperation(w)
  PROVE  Order'
<1> DEFINE d == op[w]
<1>0. TypeOK /\ OneOperation /\ d \in Desc /\ pc[w] = "taken"
  BY DEF IInv, TypeOK, BeginUserOperation
<1>1. \A v \in Workers : ~Calling(v, d)
  BY <1>0 DEF OneOperation, Calling
<1>2. DataFrom(d, handled[d])
  BY <1>0, <1>1 DEF Order
<1>3. /\ batch'[w] = FUserData[d] /\ FUserData'[d] = <<>> /\ pc'[w] = "calling"
      /\ \A v \in Workers : v # w => pc'[v] = pc[v] /\ batch'[v] = batch[v]
      /\ \A e \in Desc : e # d => FUserData'[e] = FUserData[e]
      /\ UNCHANGED <<op, pushed, handled>>
  BY <1>0 DEF TypeOK, BeginUserOperation
<1>4. FUserData[d] \in Seq(Nat) /\ handled[d] \in Nat /\ pushed[d] \in Nat
  BY <1>0 DEF TypeOK
<1>5. \A v \in Workers : v # w /\ pc[v] = "calling" => op[v] \in Desc /\ op[v] # d
  BY <1>0 DEF OneOperation, TypeOK
<1>6. BatchesAreInOrder'
  <2>1. \A i \in DOMAIN FUserData[d] : FUserData[d][i] = handled[d] + i
    BY <1>2, <1>4, InOrderDomain DEF DataFrom
  <2>2. \A i \in DOMAIN batch'[w] : batch'[w][i] = handled'[op'[w]] + i
    BY <1>3, <2>1, Zenon
  <2>3. ASSUME NEW v \in Workers, v # w, pc'[v] = "calling"
        PROVE  \A i \in DOMAIN batch'[v] : batch'[v][i] = handled'[op'[v]] + i
    BY <1>3, <2>3 DEF Order, BatchesAreInOrder
  <2>4. QED
    BY <2>2, <2>3, Zenon DEF BatchesAreInOrder
<1>7. DataFrom(d, handled[d] + Len(batch[w]))'
  <2>1. pushed[d] = handled[d] + Len(FUserData[d]) /\ Len(FUserData[d]) \in Nat
    BY <1>2, <1>4 DEF DataFrom
  <2>2. pushed[d] = (handled[d] + Len(FUserData[d])) + 0
    BY <1>4, <2>1
  <2>3. pushed'[d] = (handled'[d] + Len(batch'[w])) + 0
    BY <1>3, <2>2, Zenon
  <2>4. Len(FUserData'[d]) = 0 /\ InOrder(FUserData'[d], handled'[d] + Len(batch'[w]))
    BY <1>3, EmptyInOrder, Zenon
  <2>5. d' = d
    BY <1>3
  <2>6. QED
    BY <2>3, <2>4, <2>5, Zenon DEF DataFrom, InOrder
<1>8. \A v \in Workers : pc'[v] = "calling" =>
        DataFrom(op[v], handled[op[v]] + Len(batch[v]))'
  <2>1. ASSUME NEW v \in Workers, v # w, pc'[v] = "calling"
        PROVE  DataFrom(op[v], handled[op[v]] + Len(batch[v]))'
    BY <2>1, <1>3, <1>5 DEF Order, DataFrom
  <2>2. QED
    BY <2>1, <1>7
<1>9. \A e \in Desc : (\A v \in Workers : ~Calling(v, e)') => DataFrom(e, handled[e])'
  <2>1. ASSUME NEW e \in Desc, \A v \in Workers : ~Calling(v, e)'
        PROVE  DataFrom(e, handled[e])'
    <3>1. e # d
      BY <2>1, <1>3 DEF Calling
    <3>2. \A v \in Workers : ~Calling(v, e)
      BY <2>1, <1>0, <1>3 DEF Calling
    <3>3. QED
      BY <3>1, <3>2, <1>3 DEF Order, DataFrom
  <2>2. QED
    BY <2>1
<1>10. QED
  BY <1>6, <1>8, <1>9 DEF Order

LEMMA EndOrder ==
  ASSUME IInv, Order, NEW w \in Workers, EndUserOperation(w)
  PROVE  Order'
<1> DEFINE d == op[w]
<1>0. TypeOK /\ OneOperation /\ d \in Desc /\ pc[w] = "calling"
  BY DEF IInv, TypeOK, EndUserOperation
<1>1. DataFrom(d, handled[d] + Len(batch[w]))
  BY <1>0 DEF Order
<1>2. /\ handled'[d] = handled[d] + Len(batch[w]) /\ pc'[w] # "calling"
      /\ \A v \in Workers : v # w => pc'[v] = pc[v] /\ batch'[v] = batch[v]
      /\ \A e \in Desc : e # d => handled'[e] = handled[e]
      /\ UNCHANGED <<op, pushed, FUserData>>
  BY <1>0 DEF TypeOK, EndUserOperation
<1>3. \A v \in Workers : v # w /\ pc[v] = "calling" => op[v] \in Desc /\ op[v] # d
  BY <1>0 DEF OneOperation, TypeOK
<1>4. BatchesAreInOrder'
  BY <1>2, <1>3 DEF Order, BatchesAreInOrder
<1>5. \A v \in Workers : pc'[v] = "calling" =>
        DataFrom(op[v], handled[op[v]] + Len(batch[v]))'
  BY <1>2, <1>3 DEF Order, DataFrom
<1>6. \A e \in Desc : (\A v \in Workers : ~Calling(v, e)') => DataFrom(e, handled[e])'
  <2>1. ASSUME NEW e \in Desc, \A v \in Workers : ~Calling(v, e)'
        PROVE  DataFrom(e, handled[e])'
    <3>1. CASE e = d
      BY <3>1, <1>1, <1>2 DEF DataFrom
    <3>2. CASE e # d
      <4>1. \A v \in Workers : ~Calling(v, e)
        BY <2>1, <3>2, <1>2 DEF Calling
      <4>2. QED
        BY <3>2, <4>1, <1>2 DEF Order, DataFrom
    <3>3. QED
      BY <3>1, <3>2
  <2>2. QED
    BY <2>1
<1>7. QED
  BY <1>4, <1>5, <1>6 DEF Order

(* The packets of a descriptor reach the handlers in the order in which    *)
(* they were pushed, none skipped and none twice.                          *)
THEOREM BatchesAreInOrderHolds == Spec => []BatchesAreInOrder
<1>1. Init => IInv /\ Order
  BY InitIInv, InitOrder
<1>2. IInv /\ Order /\ [Next]_vars => (IInv /\ Order)'
  <2> SUFFICES ASSUME IInv, Order, [Next]_vars PROVE Order'
    BY NextIInv
  <2>0. TypeOK
    BY DEF IInv
  <2>1. CASE UNCHANGED vars
    BY <2>1 DEF vars, Order, BatchesAreInOrder, DataFrom, Calling
  <2>2. CASE Next
    BY <2>0, <2>2, MPushOrder, QueueOrder, BeginOrder, EndOrder DEF Next, Work
  <2>3. QED
    BY <2>1, <2>2
<1>3. Order => BatchesAreInOrder
  BY DEF Order
<1>4. QED
  BY <1>1, <1>2, <1>3, PTL DEF Spec
=============================================================================
