--------------------------- MODULE CountingLemmas ---------------------------
(***************************************************************************)
(* Lemmas that the proofs share.  Induction over the natural numbers, in   *)
(* the form of a set that holds 0 and is closed under successor.  How many *)
(* elements of a sequence are in a set, and what Append and Tail make of   *)
(* that number: the facts behind the counters that are kept beside a queue *)
(* (FCountRecvEvent of an event ring, the use count of a buffer that is    *)
(* named by events).                                                       *)
(***************************************************************************)
EXTENDS FiniteSetTheorems, SequenceTheorems, WellFoundedInduction, TLAPS

LEMMA LeastElement ==
  \A T : (T \subseteq Nat /\ T # {}) => \E x \in T : \A y \in T : x <= y
<1> SUFFICES ASSUME NEW T, T \subseteq Nat, T # {}
             PROVE  \E x \in T : \A y \in T : x <= y
  OBVIOUS
<1>1. \E x \in T : \A y \in T : ~ (y < x)
  <2>1. PICK x \in T : \A y \in T : ~ (<<y, x>> \in OpToRel(<, Nat))
    BY NatLessThanWellFounded, WFMin, Zenon
  <2>2. \A y \in T : (y < x) => (<<y, x>> \in OpToRel(<, Nat))
    BY Zenon DEF OpToRel
  <2>3. QED
    BY <2>1, <2>2, Zenon
<1>2. QED
  BY <1>1

(* Induction: the set S stands for the property to be shown.               *)
LEMMA InductionOverNat ==
  ASSUME NEW S, 0 \in S, \A n \in Nat : n \in S => n + 1 \in S
  PROVE  \A n \in Nat : n \in S
<1> SUFFICES ASSUME Nat \ S # {} PROVE FALSE
  OBVIOUS
<1>1. PICK x \in Nat \ S : \A y \in Nat \ S : x <= y
  BY LeastElement
<1>2. x - 1 \in Nat /\ x - 1 \in S /\ (x - 1) + 1 = x
  BY <1>1
<1>3. QED
  BY <1>1, <1>2

-----------------------------------------------------------------------------

PositionsIn(s, S) == {i \in DOMAIN s : s[i] \in S}

CountIn(s, S) == Cardinality(PositionsIn(s, S))

LEMMA PositionsAreFinite ==
  ASSUME NEW T, NEW s \in Seq(T), NEW S
  PROVE  /\ PositionsIn(s, S) \subseteq 1 .. Len(s)
         /\ IsFiniteSet(PositionsIn(s, S))
         /\ CountIn(s, S) \in Nat /\ CountIn(s, S) <= Len(s)
<1>1. DOMAIN s = 1 .. Len(s) /\ Len(s) \in Nat
  BY LenProperties
<1>2. IsFiniteSet(1 .. Len(s)) /\ Cardinality(1 .. Len(s)) = Len(s)
  BY <1>1, FS_Interval
<1>3. PositionsIn(s, S) \in SUBSET (1 .. Len(s))
  BY <1>1 DEF PositionsIn
<1>4. QED
  BY <1>2, <1>3, FS_Subset, FS_CardinalityType DEF CountIn

LEMMA EmptyCount == \A S : CountIn(<<>>, S) = 0
BY FS_EmptySet DEF CountIn, PositionsIn

(* Appending an element adds its position.                                 *)
LEMMA AppendCount ==
  ASSUME NEW T, NEW s \in Seq(T), NEW x \in T, NEW S
  PROVE  CountIn(Append(s, x), S) = CountIn(s, S) + (IF x \in S THEN 1 ELSE 0)
<1> DEFINE n == Len(s) + 1
           a == Append(s, x)
<1>1. /\ a \in Seq(T) /\ Len(a) = n /\ a[n] = x
      /\ \A i \in 1 .. Len(s) : a[i] = s[i]
  BY AppendProperties
<1>2. DOMAIN a = 1 .. n /\ DOMAIN s = 1 .. Len(s) /\ Len(s) \in Nat
  BY <1>1, LenProperties
<1> HIDE DEF a
<1>3. n \notin PositionsIn(s, S)
  BY <1>2 DEF PositionsIn
<1>4. IsFiniteSet(PositionsIn(s, S)) /\ CountIn(s, S) \in Nat
  BY PositionsAreFinite
<1>5. CASE x \in S
  <2>1. PositionsIn(a, S) = PositionsIn(s, S) \cup {n}
    BY <1>1, <1>2, <1>5 DEF PositionsIn
  <2>2. Cardinality(PositionsIn(a, S)) = Cardinality(PositionsIn(s, S)) + 1
    BY <1>3, <1>4, <2>1, FS_AddElement
  <2>3. QED
    BY <1>5, <2>2 DEF CountIn, a
<1>6. CASE x \notin S
  <2>1. PositionsIn(a, S) = PositionsIn(s, S)
    BY <1>1, <1>2, <1>6 DEF PositionsIn
  <2>2. QED
    BY <1>4, <1>6, <2>1 DEF CountIn, a
<1>7. QED
  BY <1>5, <1>6

(* Taking the head away moves every other position by one.                 *)
LEMMA TailCount ==
  ASSUME NEW T, NEW s \in Seq(T), s # <<>>, NEW S
  PROVE  CountIn(s, S) = CountIn(Tail(s), S) + (IF Head(s) \in S THEN 1 ELSE 0)
<1> DEFINE t == Tail(s)
           P == PositionsIn(s, S)
           Q == PositionsIn(t, S)
<1>1. /\ t \in Seq(T) /\ Len(s) \in Nat \ {0} /\ Len(t) = Len(s) - 1
      /\ \A i \in 1 .. Len(s) - 1 : t[i] = s[i + 1]
      /\ Head(s) = s[1]
  BY HeadTailProperties, EmptySeq
<1>2. DOMAIN s = 1 .. Len(s) /\ DOMAIN t = 1 .. Len(s) - 1
  BY <1>1, LenProperties
<1> HIDE DEF t
<1>3. IsFiniteSet(P) /\ IsFiniteSet(Q) /\ Cardinality(Q) \in Nat /\ Cardinality(P) \in Nat
  BY <1>1, PositionsAreFinite DEF CountIn
<1>4. \A i \in Q : i \in 1 .. Len(s) - 1 /\ i + 1 \in P \ {1}
  BY <1>1, <1>2 DEF PositionsIn
<1>5. \A j \in P \ {1} : j - 1 \in Q /\ j = (j - 1) + 1
  <2> SUFFICES ASSUME NEW j \in P \ {1} PROVE j - 1 \in Q /\ j = (j - 1) + 1
    OBVIOUS
  <2>1. j \in 2 .. Len(s) /\ s[j] \in S
    BY <1>1, <1>2 DEF PositionsIn
  <2>2. j - 1 \in 1 .. Len(s) - 1 /\ t[j - 1] = s[j]
    BY <1>1, <2>1
  <2>3. QED
    BY <1>2, <2>1, <2>2 DEF PositionsIn
<1>6. Cardinality(P \ {1}) = Cardinality(Q)
  <2> DEFINE f == [i \in Q |-> i + 1]
  <2> HIDE DEF P, Q
  <2>1. f \in [Q -> P \ {1}]
    BY <1>4
  <2>2. \A i, j \in DOMAIN f : f[i] = f[j] => i = j
    BY <1>4
  <2>3. \A j \in P \ {1} : \E i \in Q : f[i] = j
    <3> SUFFICES ASSUME NEW j \in P \ {1} PROVE \E i \in Q : f[i] = j
      OBVIOUS
    <3>1. j - 1 \in Q /\ f[j - 1] = j
      BY <1>5
    <3>2. QED
      BY <3>1
  <2> HIDE DEF f
  <2>4. f \in Bijection(Q, P \ {1})
    BY <2>1, <2>2, <2>3 DEF Bijection, Injection, Surjection, IsInjective
  <2>5. ExistsBijection(Q, P \ {1})
    BY <2>4 DEF ExistsBijection
  <2>6. QED
    BY <1>3, <2>5, FS_Bijection
<1>7. Cardinality(P \ {1}) = IF 1 \in P THEN Cardinality(P) - 1 ELSE Cardinality(P)
  BY <1>3, FS_RemoveElement
<1>8. 1 \in P <=> Head(s) \in S
  BY <1>1, <1>2 DEF PositionsIn
<1>9. QED
  BY <1>3, <1>6, <1>7, <1>8 DEF CountIn, t
(* s without the element at position p.                                    *)
DropAt(s, p) == SubSeq(s, 1, p - 1) \o SubSeq(s, p + 1, Len(s))

LEMMA DropAtProperties ==
  ASSUME NEW T, NEW s \in Seq(T), NEW p \in 1 .. Len(s)
  PROVE  /\ DropAt(s, p) \in Seq(T) /\ Len(DropAt(s, p)) = Len(s) - 1
         /\ \A i \in 1 .. Len(s) - 1 :
              DropAt(s, p)[i] = IF i < p THEN s[i] ELSE s[i + 1]
<1> DEFINE n == Len(s)
           a == SubSeq(s, 1, p - 1)
           b == SubSeq(s, p + 1, n)
<1>1. n \in Nat /\ \A i \in 1 .. n : s[i] \in T
  BY LenProperties, ElementOfSeq
<1>2. /\ a \in Seq(T) /\ Len(a) = p - 1
      /\ \A i \in 1 .. p - 1 : a[i] = s[i]
  <2>1. 1 \in Int /\ p - 1 \in Int /\ \A i \in 1 .. p - 1 : s[i] \in T
    BY <1>1
  <2>2. /\ a \in Seq(T) /\ Len(a) = IF 1 <= p - 1 THEN (p - 1) - 1 + 1 ELSE 0
        /\ \A i \in 1 .. (p - 1) - 1 + 1 : a[i] = s[1 + i - 1]
    BY <2>1, SubSeqProperties
  <2>3. QED
    BY <2>2
<1>3. /\ b \in Seq(T) /\ Len(b) = n - p
      /\ \A i \in 1 .. n - p : b[i] = s[p + i]
  <2>1. p + 1 \in Int /\ n \in Int /\ \A i \in p + 1 .. n : s[i] \in T
    BY <1>1
  <2>2. /\ b \in Seq(T) /\ Len(b) = IF p + 1 <= n THEN n - (p + 1) + 1 ELSE 0
        /\ \A i \in 1 .. n - (p + 1) + 1 : b[i] = s[p + 1 + i - 1]
    BY <2>1, SubSeqProperties
  <2>3. QED
    BY <1>1, <2>2
<1>4. DropAt(s, p) = a \o b
  BY DEF DropAt
<1> HIDE DEF a, b
<1>5. /\ a \o b \in Seq(T) /\ Len(a \o b) = n - 1
      /\ \A i \in 1 .. n - 1 : (a \o b)[i] = IF i <= p - 1 THEN a[i] ELSE b[i - (p - 1)]
  <2>1. /\ a \o b \in Seq(T) /\ Len(a \o b) = Len(a) + Len(b)
        /\ \A i \in 1 .. Len(a) + Len(b) :
             (a \o b)[i] = IF i <= Len(a) THEN a[i] ELSE b[i - Len(a)]
    BY <1>2, <1>3, ConcatProperties
  <2>2. Len(a) + Len(b) = n - 1
    BY <1>1, <1>2, <1>3
  <2>3. QED
    BY <1>2, <2>1, <2>2
<1>6. ASSUME NEW i \in 1 .. n - 1
      PROVE  (a \o b)[i] = IF i < p THEN s[i] ELSE s[i + 1]
  <2>1. CASE i < p
    BY <1>1, <1>2, <1>5, <2>1
  <2>2. CASE ~ (i < p)
    <3>1. i - (p - 1) \in 1 .. n - p /\ p + (i - (p - 1)) = i + 1
      BY <1>1, <2>2
    <3>2. QED
      BY <1>1, <1>3, <1>5, <2>2, <3>1
  <2>3. QED
    BY <2>1, <2>2
<1>7. QED
  BY <1>4, <1>5, <1>6

(* Nothing is gained by taking an element out.                             *)
LEMMA DropAtCount ==
  ASSUME NEW T, NEW s \in Seq(T), NEW p \in 1 .. Len(s), NEW S
  PROVE  CountIn(DropAt(s, p), S) <= CountIn(s, S)
<1> DEFINE w == DropAt(s, p)
           P == PositionsIn(s, S)
           Q == PositionsIn(w, S)
           f == [i \in Q |-> IF i < p THEN i ELSE i + 1]
<1>1. /\ w \in Seq(T) /\ Len(w) = Len(s) - 1 /\ Len(s) \in Nat
      /\ \A i \in 1 .. Len(s) - 1 : w[i] = IF i < p THEN s[i] ELSE s[i + 1]
  BY DropAtProperties, LenProperties
<1>2. DOMAIN s = 1 .. Len(s) /\ DOMAIN w = 1 .. Len(s) - 1
  BY <1>1, LenProperties
<1> HIDE DEF w
<1>3. IsFiniteSet(P)
  BY PositionsAreFinite
<1>4. \A i \in Q : i \in 1 .. Len(s) - 1 /\ (IF i < p THEN i ELSE i + 1) \in P
  BY <1>1, <1>2 DEF PositionsIn
<1> HIDE DEF P, Q
<1>5. f \in [Q -> P]
  BY <1>4
<1>6. \A i, j \in DOMAIN f : f[i] = f[j] => i = j
  BY <1>4
<1> HIDE DEF f
<1>7. f \in Injection(Q, P)
  BY <1>5, <1>6 DEF Injection, IsInjective
<1>8. Cardinality(Q) <= Cardinality(P)
  BY <1>3, <1>7, FS_Injection
<1>9. QED
  BY <1>8 DEF CountIn, P, Q, w

-----------------------------------------------------------------------------
(* Queues in a row: what leaves one enters the next.                       *)

LEMMA AppendToRow ==
  ASSUME NEW T, NEW s \in Seq(T), NEW t \in Seq(T), NEW x \in T
  PROVE  s \o Append(t, x) = Append(s \o t, x)
<1> DEFINE a == s \o Append(t, x)
           b == Append(s \o t, x)
<1>1. s \o t \in Seq(T) /\ Append(t, x) \in Seq(T) /\ <<x>> \in Seq(T)
  BY ConcatProperties, AppendProperties
<1>2. Append(t, x) = t \o <<x>> /\ Append(s \o t, x) = (s \o t) \o <<x>>
  BY <1>1, AppendIsConcat
<1>3. (s \o t) \o <<x>> = s \o (t \o <<x>>)
  BY <1>1, ConcatAssociative
<1>4. QED
  BY <1>2, <1>3

LEMMA MoveAlongRow ==
  ASSUME NEW T, NEW s \in Seq(T), NEW t \in Seq(T), t # <<>>
  PROVE  Append(s, Head(t)) \o Tail(t) = s \o t
<1> DEFINE x == Head(t)
           u == Tail(t)
<1>1. x \in T /\ u \in Seq(T) /\ <<x>> \in Seq(T)
  BY HeadTailProperties
<1>2. <<x>> \o u = t
  <2>1. /\ <<x>> \o u \in Seq(T) /\ Len(<<x>> \o u) = 1 + Len(u)
        /\ \A i \in 1 .. 1 + Len(u) : (<<x>> \o u)[i] = IF i <= 1 THEN <<x>>[i] ELSE u[i - 1]
    BY <1>1, ConcatProperties
  <2>2. /\ Len(t) \in Nat \ {0} /\ Len(u) = Len(t) - 1 /\ x = t[1]
        /\ \A i \in 1 .. Len(t) - 1 : u[i] = t[i + 1]
    BY HeadTailProperties, EmptySeq
  <2> HIDE DEF x, u
  <2>3. ASSUME NEW i \in 1 .. Len(t) PROVE (<<x>> \o u)[i] = t[i]
    <3>1. CASE i = 1
      BY <2>1, <2>2, <3>1
    <3>2. CASE i # 1
      <4>1. i - 1 \in 1 .. Len(t) - 1 /\ (i - 1) + 1 = i /\ ~ (i <= 1)
        BY <2>2, <3>2
      <4>2. QED
        BY <2>1, <2>2, <4>1
    <3>3. QED
      BY <3>1, <3>2
  <2>4. Len(<<x>> \o u) = Len(t)
    BY <2>1, <2>2
  <2>5. QED
    BY <2>1, <2>3, <2>4, SeqEqual
<1> HIDE DEF x, u
<1>3. Append(s, x) = s \o <<x>>
  BY <1>1, AppendIsConcat
<1>4. (s \o <<x>>) \o u = s \o (<<x>> \o u)
  BY <1>1, ConcatAssociative
<1>5. QED
  BY <1>2, <1>3, <1>4 DEF x, u

LEMMA TakeFromRow ==
  ASSUME NEW T, NEW s \in Seq(T), NEW t \in Seq(T), s # <<>>
  PROVE  /\ s \o t # <<>> /\ Head(s \o t) = Head(s)
         /\ Tail(s \o t) = Tail(s) \o t
<1> DEFINE r == s \o t
           u == Tail(s) \o t
<1>1. /\ Len(s) \in Nat \ {0} /\ Len(t) \in Nat /\ Tail(s) \in Seq(T)
      /\ Len(Tail(s)) = Len(s) - 1 /\ Head(s) = s[1]
      /\ \A i \in 1 .. Len(s) - 1 : Tail(s)[i] = s[i + 1]
  BY HeadTailProperties, EmptySeq, LenProperties
<1>2. /\ r \in Seq(T) /\ Len(r) = Len(s) + Len(t)
      /\ \A i \in 1 .. Len(s) + Len(t) : r[i] = IF i <= Len(s) THEN s[i] ELSE t[i - Len(s)]
  BY ConcatProperties
<1>3. /\ u \in Seq(T) /\ Len(u) = Len(s) - 1 + Len(t)
      /\ \A i \in 1 .. Len(s) - 1 + Len(t) :
           u[i] = IF i <= Len(s) - 1 THEN Tail(s)[i] ELSE t[i - (Len(s) - 1)]
  BY <1>1, ConcatProperties
<1> HIDE DEF r, u
<1>4. r # <<>> /\ Head(r) = Head(s)
  BY <1>1, <1>2, EmptySeq
<1>5. /\ Tail(r) \in Seq(T) /\ Len(Tail(r)) = Len(r) - 1
      /\ \A i \in 1 .. Len(r) - 1 : Tail(r)[i] = r[i + 1]
  BY <1>2, <1>4, HeadTailProperties
<1>6. Len(Tail(r)) = Len(u) /\ Len(u) = Len(s) - 1 + Len(t)
  BY <1>1, <1>2, <1>3, <1>5
<1>7. ASSUME NEW i \in 1 .. Len(u) PROVE Tail(r)[i] = u[i]
  <2>1. Tail(r)[i] = r[i + 1] /\ i + 1 \in 1 .. Len(s) + Len(t)
    BY <1>1, <1>2, <1>5, <1>6
  <2>2. CASE i <= Len(s) - 1
    <3>1. i \in 1 .. Len(s) - 1 /\ i + 1 <= Len(s)
      BY <1>1, <2>2, <1>6
    <3>2. r[i + 1] = s[i + 1] /\ u[i] = s[i + 1]
      BY <1>1, <1>2, <1>3, <1>6, <2>1, <3>1
    <3>3. QED
      BY <2>1, <3>2
  <2>3. CASE ~ (i <= Len(s) - 1)
    <3>1. ~ (i + 1 <= Len(s)) /\ i + 1 - Len(s) = i - (Len(s) - 1)
      BY <1>1, <2>3, <1>6
    <3>2. r[i + 1] = t[i + 1 - Len(s)] /\ u[i] = t[i - (Len(s) - 1)]
      BY <1>2, <1>3, <1>6, <2>1, <2>3, <3>1
    <3>3. QED
      BY <2>1, <3>1, <3>2
  <2>4. QED
    BY <2>2, <2>3
<1>8. Tail(r) = u
  BY <1>3, <1>5, <1>6, <1>7, SeqEqual
<1>9. QED
  BY <1>4, <1>8 DEF r, u
=============================================================================
