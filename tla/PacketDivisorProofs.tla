------------------------ MODULE PacketDivisorProofs ------------------------
(***************************************************************************)
(* Proofs about PacketDivisor, for chains of any length with any limits,   *)
(* packets of any size and parts lost anywhere.                            *)
(***************************************************************************)
EXTENDS PacketDivisor, CountingLemmas, TLAPS

-----------------------------------------------------------------------------
(* Arithmetic of splitting.                                                *)

LEMMA ProductsGrow ==
  \A a, b, c \in Nat : a <= b => a * c <= b * c
<1> SUFFICES ASSUME NEW a \in Nat, NEW b \in Nat, NEW c \in Nat, a <= b
             PROVE  a * c <= b * c
  OBVIOUS
<1> DEFINE d == b - a
<1>1. d \in Nat /\ b = a + d
  OBVIOUS
<1> HIDE DEF d
<1>2. d * c \in Nat /\ a * c \in Nat
  BY <1>1
<1>3. (a + d) * c = a * c + d * c
  BY <1>1
<1>4. QED
  BY <1>1, <1>2, <1>3

LEMMA DivisionIs ==
  ASSUME NEW n \in Nat, NEW m \in Nat \ {0}
  PROVE  /\ n \div m \in Nat /\ n % m \in Nat
         /\ m * (n \div m) + (n % m) = n
         /\ n < m => n % m = n
<1>1. /\ n \div m \in Int /\ n % m \in 0 .. m - 1 /\ n = m * (n \div m) + (n % m)
  OBVIOUS
<1>2. n \div m >= 0
  BY <1>1
<1>3. QED
  BY <1>1, <1>2

LEMMA RemainderIs ==
  ASSUME NEW n \in Int, NEW m \in Nat \ {0}
  PROVE  n % m \in Nat
OBVIOUS

(* There is at least one part.                                             *)
LEMMA PartsAreSome ==
  ASSUME NEW n \in Nat, NEW s \in Nat, n > 1, s > 1
  PROVE  NumberOfParts(n, s) \in Nat \ {0}
<1> DEFINE max == IF s >= n THEN n - 1 ELSE s
           num == n \div max + (IF n % max = 0 THEN 0 ELSE 1)
<1>1. max \in Nat \ {0}
  OBVIOUS
<1> HIDE DEF max
<1>2. /\ n \div max \in Nat /\ n % max \in Nat
      /\ max * (n \div max) + (n % max) = n
  BY <1>1, DivisionIs
<1>3. num \in Nat
  BY <1>2
<1>4. num # 0
  <2> SUFFICES ASSUME num = 0 PROVE FALSE
    OBVIOUS
  <2>1. n \div max = 0 /\ n % max = 0
    BY <1>2
  <2>2. max * 0 = 0
    BY <1>1
  <2>3. QED
    BY <1>2, <2>1, <2>2
<1>5. NumberOfParts(n, s) = IF num % 2 = 0 THEN num ELSE num + 1
  BY DEF NumberOfParts, max
<1> HIDE DEF num
<1>6. QED
  BY <1>3, <1>4, <1>5

(* There are not more parts than bytes.                                    *)
LEMMA PartsAreFew ==
  ASSUME NEW n \in Nat, NEW s \in Nat, n > 1, s > 1
  PROVE  NumberOfParts(n, s) <= n
<1> DEFINE max == IF s >= n THEN n - 1 ELSE s
           a == n \div max
           r == n % max
           num == a + (IF r = 0 THEN 0 ELSE 1)
<1>1. max \in Nat \ {0} /\ max < n /\ (max = 1 => n = 2)
  OBVIOUS
<1>2. NumberOfParts(n, s) = IF num % 2 = 0 THEN num ELSE num + 1
  BY DEF NumberOfParts
<1> HIDE DEF max
<1>3. a \in Nat /\ r \in Nat /\ max * a + r = n /\ r < max
  BY <1>1, DivisionIs
<1> HIDE DEF a, r
<1>4. a >= 1
  <2> SUFFICES ASSUME a = 0 PROVE FALSE
    BY <1>3
  <2>1. max * 0 = 0
    BY <1>1
  <2>2. QED
    BY <1>1, <1>3, <2>1
<1>5. CASE max = 1
  <2>1. 1 * a = a
    BY <1>3
  <2>2. num = 2
    BY <1>1, <1>3, <1>5, <2>1
  <2> HIDE DEF num
  <2>3. QED
    BY <1>1, <1>2, <1>5, <2>2
<1>6. CASE max # 1
  <2>1. 2 * a <= max * a /\ max * a \in Nat
    BY <1>1, <1>3, <1>6, ProductsGrow
  <2>2. num \in Nat /\ num + 1 <= n
    BY <1>1, <1>3, <1>4, <2>1
  <2> HIDE DEF num
  <2>3. QED
    BY <1>2, <2>2
<1>7. QED
  BY <1>5, <1>6

LEMMA ProductsCancel ==
  \A a, b \in Nat, e \in Nat \ {0} :
    /\ a * e <= b * e => a <= b
    /\ a * e = b * e => a = b
<1>1. ASSUME NEW a \in Nat, NEW b \in Nat, NEW e \in Nat \ {0}, a * e <= b * e PROVE a <= b
  <2> SUFFICES ASSUME b + 1 <= a PROVE FALSE
    OBVIOUS
  <2>1. (b + 1) * e <= a * e /\ (b + 1) * e = b * e + e /\ b * e \in Nat /\ a * e \in Nat
    BY ProductsGrow
  <2>2. QED
    BY <1>1, <2>1
<1>2. ASSUME NEW a \in Nat, NEW b \in Nat, NEW e \in Nat \ {0}, a * e = b * e PROVE a = b
  <2>1. a * e \in Nat /\ b * e \in Nat
    OBVIOUS
  <2>2. a <= b /\ b <= a
    BY <1>1, <1>2, <2>1
  <2>3. QED
    BY <2>2
<1>3. QED
  BY <1>1, <1>2

(* A place in a packet is known as a fraction of it, as the counters see   *)
(* it, and as a number of bytes.  n/d, b bytes, is not behind m/e, c       *)
(* bytes, and both agree on whether it is the same place.                  *)
Before(n, d, b, m, e, c) ==
  /\ n * e <= m * d
  /\ b <= c
  /\ (n * e = m * d) <=> (b = c)

LEMMA BeforeIsTransitive ==
  ASSUME NEW n \in Nat, NEW d \in Nat \ {0}, NEW b \in Nat,
         NEW m \in Nat, NEW e \in Nat \ {0}, NEW c \in Nat,
         NEW k \in Nat, NEW f \in Nat \ {0}, NEW g \in Nat,
         Before(n, d, b, m, e, c), Before(m, e, c, k, f, g)
  PROVE  Before(n, d, b, k, f, g)
<1>1. /\ n * e \in Nat /\ m * d \in Nat /\ m * f \in Nat /\ k * e \in Nat
      /\ n * f \in Nat /\ k * d \in Nat /\ n * e <= m * d /\ m * f <= k * e
      /\ b <= c /\ c <= g /\ (n * e = m * d <=> b = c) /\ (m * f = k * e <=> c = g)
  BY DEF Before
<1>2. /\ (n * f) * e = (n * e) * f /\ (m * d) * f = (m * f) * d
      /\ (k * e) * d = (k * d) * e
  OBVIOUS
<1> DEFINE ne == n * e
           md == m * d
           mf == m * f
           ke == k * e
           nf == n * f
           kd == k * d
<1> HIDE DEF ne, md, mf, ke, nf, kd
<1>3. /\ ne \in Nat /\ md \in Nat /\ mf \in Nat /\ ke \in Nat /\ nf \in Nat /\ kd \in Nat
      /\ ne <= md /\ mf <= ke /\ (ne = md <=> b = c) /\ (mf = ke <=> c = g)
      /\ nf * e = ne * f /\ md * f = mf * d /\ ke * d = kd * e
  BY <1>1, <1>2 DEF ne, md, mf, ke, nf, kd
<1>4. /\ ne * f <= md * f /\ mf * d <= ke * d
      /\ ne * f \in Nat /\ md * f \in Nat /\ mf * d \in Nat /\ ke * d \in Nat
  BY <1>3, ProductsGrow
<1>5. nf <= kd
  <2>1. nf * e <= kd * e
    BY <1>3, <1>4
  <2>2. QED
    BY <1>3, <2>1, ProductsCancel
<1>6. ASSUME nf = kd PROVE b = g
  <2>1. ne * f = md * f /\ mf * d = ke * d
    BY <1>3, <1>4, <1>6
  <2>2. ne = md /\ mf = ke
    BY <1>3, <2>1, ProductsCancel
  <2>3. QED
    BY <1>3, <2>2
<1>7. ASSUME b = g PROVE nf = kd
  <2>1. b = c /\ c = g
    BY <1>1, <1>7
  <2>2. nf * e = kd * e
    BY <1>3, <2>1
  <2>3. QED
    BY <1>3, <2>2, ProductsCancel
<1>8. b <= g
  BY <1>1
<1>9. QED
  BY <1>5, <1>6, <1>7, <1>8 DEF Before, nf, kd

(* The counters of the parts of part c of k: the v parts are counted from  *)
(* the place where the parts before them end.                              *)
LEMMA CountersOfParts ==
  ASSUME NEW c \in Nat, NEW k \in Nat, NEW v \in Nat \ {0}, NEW i \in 1 .. v,
         1 <= c, c <= k
  PROVE  /\ c * v - v + i \in Nat /\ k * v \in Nat
         /\ 1 <= c * v - v + i /\ c * v - v + i <= k * v
         /\ c * v - v + i = 1 => c = 1 /\ i = 1
         /\ c = k /\ i = v => c * v - v + i = k * v
<1>1. c * v \in Nat /\ k * v \in Nat /\ c * v <= k * v
  BY ProductsGrow
<1>2. 1 * v <= c * v /\ 1 * v = v
  BY ProductsGrow
<1>3. c # 1 => 2 * v <= c * v
  BY ProductsGrow
<1>4. QED
  BY <1>1, <1>2, <1>3

(* The places where part i of v parts of n bytes begins and ends.          *)
Low(n, v, i) == (i - 1) * (n \div v)
High(n, v, i) == IF i = v THEN n ELSE i * (n \div v)

LEMMA PlacesOfParts ==
  ASSUME NEW n \in Nat, NEW v \in Nat \ {0}, v <= n
  PROVE  /\ \A i \in 1 .. v :
              /\ Low(n, v, i) \in Nat /\ High(n, v, i) \in Nat
              /\ Low(n, v, i) < High(n, v, i) /\ High(n, v, i) <= n
              /\ (Low(n, v, i) = 0) <=> (i = 1)
              /\ (High(n, v, i) = n) <=> (i = v)
         /\ \A i, j \in 1 .. v : i < j =>
              /\ High(n, v, i) <= Low(n, v, j)
              /\ (High(n, v, i) = Low(n, v, j)) <=> (i = j - 1)
<1> DEFINE z == n \div v
           Hi(i) == IF i = v THEN n ELSE i * z
<1>1. z \in Nat /\ v * z <= n
  BY DivisionIs
<1>2. z >= 1
  <2> SUFFICES ASSUME z = 0 PROVE FALSE
    BY <1>1
  <2>1. n % v < v /\ v * z + (n % v) = n
    BY DivisionIs
  <2>2. v * 0 = 0 /\ n % v \in Nat
    BY DivisionIs
  <2>3. QED
    BY <2>1, <2>2
<1> HIDE DEF z
<1>3. ASSUME NEW a \in Nat, NEW b \in Nat, a < b PROVE a * z + z <= b * z /\ a * z \in Nat /\ b * z \in Nat
  <2>1. (a + 1) * z <= b * z /\ (a + 1) * z = a * z + z
    BY <1>1, <1>3, ProductsGrow
  <2>2. QED
    BY <1>1, <2>1
<1>4. 0 * z = 0
  BY <1>1
<1>5. ASSUME NEW i \in 1 .. v
      PROVE  /\ (i - 1) * z \in Nat /\ i * z \in Nat /\ v * z \in Nat
             /\ (i - 1) * z + z <= i * z
             /\ i < v => i * z + z <= v * z
             /\ i = v => i * z = v * z
             /\ i # 1 => z <= (i - 1) * z
             /\ i = 1 => (i - 1) * z = 0
  <2>1. i - 1 \in Nat /\ i \in Nat /\ i - 1 < i /\ v \in Nat
    OBVIOUS
  <2>2. (i - 1) * z + z <= i * z /\ (i - 1) * z \in Nat /\ i * z \in Nat
    BY <1>3, <2>1
  <2>3. i < v => i * z + z <= v * z
    BY <1>3, <2>1
  <2>4. i # 1 => 0 * z + z <= (i - 1) * z
    BY <1>3, <2>1
  <2>5. v * z \in Nat
    BY <1>1
  <2>6. QED
    BY <1>1, <1>4, <2>2, <2>3, <2>4, <2>5
<1>6. ASSUME NEW i \in 1 .. v
      PROVE  /\ (i - 1) * z \in Nat /\ Hi(i) \in Nat
             /\ (i - 1) * z < Hi(i) /\ Hi(i) <= n
             /\ (i - 1) * z = 0 <=> i = 1
             /\ Hi(i) = n <=> i = v
  <2> DEFINE x == (i - 1) * z
             y == i * z
             w == v * z
  <2> HIDE DEF x, y, w
  <2>1. /\ x \in Nat /\ y \in Nat /\ w \in Nat /\ x + z <= y /\ (i < v => y + z <= w)
        /\ (i = v => y = w) /\ (i # 1 => z <= x) /\ (i = 1 => x = 0) /\ w <= n
    BY <1>1, <1>5 DEF x, y, w
  <2>2. /\ x \in Nat /\ (IF i = v THEN n ELSE y) \in Nat
        /\ x < (IF i = v THEN n ELSE y) /\ (IF i = v THEN n ELSE y) <= n
        /\ x = 0 <=> i = 1
        /\ (IF i = v THEN n ELSE y) = n <=> i = v
    BY <1>1, <1>2, <2>1
  <2>3. QED
    BY <2>2 DEF x, y
<1>7. ASSUME NEW i \in 1 .. v, NEW j \in 1 .. v, i < j
      PROVE  /\ Hi(i) <= (j - 1) * z
             /\ Hi(i) = (j - 1) * z <=> i = j - 1
  <2>1. Hi(i) = i * z /\ i \in Nat /\ j - 1 \in Nat /\ (i = j - 1 \/ i < j - 1)
    BY <1>7
  <2>2. i < j - 1 => i * z + z <= (j - 1) * z /\ i * z \in Nat /\ (j - 1) * z \in Nat
    BY <1>3, <2>1
  <2>3. CASE i = j - 1
    <3>1. i * z \in Nat
      BY <1>1, <2>1
    <3>2. QED
      BY <2>1, <2>3, <3>1
  <2>4. CASE i < j - 1
    <3> DEFINE x == i * z
               y == (j - 1) * z
    <3> HIDE DEF x, y
    <3>1. x + z <= y /\ x \in Nat /\ y \in Nat
      BY <2>2, <2>4 DEF x, y
    <3>2. x <= y /\ x # y /\ i # j - 1
      BY <1>1, <1>2, <2>4, <3>1
    <3>3. QED
      BY <2>1, <3>2 DEF x, y
  <2>5. QED
    BY <2>1, <2>3, <2>4
<1>8. /\ \A i \in 1 .. v : Low(n, v, i) = (i - 1) * z /\ High(n, v, i) = Hi(i)
  BY DEF Low, High, z
<1> HIDE DEF Hi
<1>9. QED
  BY <1>6, <1>7, <1>8

(* Part i of v of the part K of C, which has n bytes from B on, begins     *)
(* and ends within it.                                                     *)
LEMMA FractionsOfParts ==
  ASSUME NEW K \in Nat \ {0}, NEW C \in Nat \ {0}, NEW v \in Nat \ {0}, NEW i \in 1 .. v,
         NEW B \in Nat, NEW n \in Nat, NEW x \in Nat, NEW y \in Nat,
         x = 0 <=> i = 1, y <= n, y = n <=> i = v
  PROVE  /\ Before(K - 1, C, B, K * v - v + i - 1, C * v, B + x)
         /\ Before(K * v - v + i, C * v, B + y, K, C, B + n)
<1> DEFINE a == (K - 1) * (C * v)
           b == (i - 1) * C
           c == K * (C * v)
           d == (v - i) * C
<1>1. /\ (K * v - v + i - 1) * C = a + b /\ (K * v - v + i) * C + d = c
  OBVIOUS
<1>2. K - 1 \in Nat /\ i - 1 \in Nat /\ v - i \in Nat /\ C * v \in Nat
  OBVIOUS
<1>3. a \in Nat /\ b \in Nat /\ c \in Nat /\ d \in Nat
  BY <1>2
<1>4. /\ b = 0 <=> i = 1
      /\ d = 0 <=> i = v
  <2>1. \A t \in Nat : t * C = 0 <=> t = 0
    <3> SUFFICES ASSUME NEW t \in Nat PROVE t * C = 0 <=> t = 0
      OBVIOUS
    <3>1. 0 * C = 0
      OBVIOUS
    <3>2. t # 0 => 1 * C <= t * C /\ 1 * C = C
      BY ProductsGrow
    <3>3. QED
      BY <3>1, <3>2
  <2>2. QED
    BY <1>2, <2>1
<1>5. (K * v - v + i) * C \in Int
  OBVIOUS
<1> DEFINE e == (K * v - v + i) * C
           f == (K * v - v + i - 1) * C
<1>6. e \in Int /\ e + d = c /\ f = a + b
  BY <1>1, <1>5
<1> HIDE DEF a, b, c, d, e, f
<1>7. a <= f /\ (a = f <=> i = 1) /\ e <= c /\ (e = c <=> i = v)
  BY <1>3, <1>4, <1>6
<1>8. B <= B + x /\ (B = B + x <=> i = 1) /\ B + y <= B + n /\ (B + y = B + n <=> i = v)
  OBVIOUS
<1>9. QED
  BY <1>7, <1>8 DEF Before, a, c, e, f

LEMMA SliceOf ==
  ASSUME NEW d \in Seq(Nat), NEW b \in Nat, \A i \in 1 .. Len(d) : d[i] = b + i,
         NEW lo \in Nat, NEW hi \in Nat, lo < hi, hi <= Len(d)
  PROVE  LET t == SubSeq(d, lo + 1, hi)
         IN /\ t \in Seq(Nat) /\ Len(t) = hi - lo
            /\ \A i \in 1 .. hi - lo : t[i] = b + lo + i
<1> DEFINE t == SubSeq(d, lo + 1, hi)
<1>1. Len(d) \in Nat /\ \A i \in 1 .. Len(d) : d[i] \in Nat
  BY LenProperties, ElementOfSeq
<1>2. PICK a, T : a = lo + 1 /\ T = Nat
  OBVIOUS
<1>3. a \in Int /\ hi \in Int /\ \A i \in a .. hi : d[i] \in T
  BY <1>1, <1>2
<1>4. /\ SubSeq(d, a, hi) \in Seq(T)
      /\ Len(SubSeq(d, a, hi)) = (IF a <= hi THEN hi - a + 1 ELSE 0)
      /\ \A i \in 1 .. hi - a + 1 : SubSeq(d, a, hi)[i] = d[a + i - 1]
  BY <1>3, SubSeqProperties, SMTT(30)
<1>5. /\ t \in Seq(Nat) /\ Len(t) = hi - lo
      /\ \A i \in 1 .. hi - a + 1 : t[i] = d[a + i - 1]
  BY <1>2, <1>4
<1> HIDE DEF t
<1>6. ASSUME NEW i \in 1 .. hi - lo PROVE t[i] = b + lo + i
  <2>1. i \in 1 .. hi - a + 1 /\ a + i - 1 = lo + i /\ lo + i \in 1 .. Len(d)
    BY <1>1, <1>2
  <2>2. t[i] = d[lo + i] /\ d[lo + i] = b + (lo + i)
    BY <1>5, <2>1
  <2>3. QED
    BY <2>2
<1>7. QED
  BY <1>5, <1>6 DEF t

-----------------------------------------------------------------------------
(* The order of parts, c being the packets whose numbers were cut off.     *)

Elems(s) == {s[i] : i \in 1 .. Len(s)}

(* The bytes of a part: those of its packet behind Begin and up to End.    *)
Begin(q) == q.data[1] - 1
End(q) == Begin(q) + Len(q.data)
Slice(q) ==
  /\ Len(q.data) >= 1 /\ Begin(q) \in Nat
  /\ \A i \in 1 .. Len(q.data) : q.data[i] = Begin(q) + i

(* q ends where r begins, or before, whether one asks the numbers of the   *)
(* parts or their bytes; and x begins and ends within q.                   *)
Ahead(q, r) ==
  Before(q.FCounter, q.FCoefficient, End(q), r.FCounter - 1, r.FCoefficient, Begin(r))
Within(x, q) ==
  /\ Before(q.FCounter - 1, q.FCoefficient, Begin(q), x.FCounter - 1, x.FCoefficient, Begin(x))
  /\ Before(x.FCounter, x.FCoefficient, End(x), q.FCounter, q.FCoefficient, End(q))

(* The first part of a packet, as far as numbers tell.                     *)
First(c, q) == q.FCounter = 1 /\ q.pkt \notin c

(* Packets follow each other, nothing follows the last part of a packet,   *)
(* nothing of a packet precedes its first part, and its parts do not       *)
(* overlap.                                                                *)
Precedes(c, q, r) ==
  /\ q.pkt <= r.pkt
  /\ q.FIsLast => q.pkt < r.pkt
  /\ First(c, r) => q.pkt < r.pkt
  /\ (q.pkt = r.pkt /\ q.pkt \notin c) => Ahead(q, r)

InOrder(c, s) == \A i, j \in 1 .. Len(s) : i < j => Precedes(c, s[i], s[j])
AllPrecede(c, s, t) == \A q \in Elems(s), r \in Elems(t) : Precedes(c, q, r)

LEMMA OrderStays ==
  ASSUME NEW c, NEW d, c \subseteq d
  PROVE  /\ \A q, r : Precedes(c, q, r) => Precedes(d, q, r)
         /\ \A s : InOrder(c, s) => InOrder(d, s)
         /\ \A s, t : AllPrecede(c, s, t) => AllPrecede(d, s, t)
<1>1. \A q, r : Precedes(c, q, r) => Precedes(d, q, r)
  BY DEF Precedes, First
<1>2. QED
  BY <1>1 DEF InOrder, AllPrecede

LEMMA JoinedInOrder ==
  ASSUME NEW T, NEW s \in Seq(T), NEW t \in Seq(T), NEW c
  PROVE  /\ s \o t \in Seq(T) /\ Elems(s \o t) = Elems(s) \cup Elems(t)
         /\ InOrder(c, s) /\ InOrder(c, t) /\ AllPrecede(c, s, t) => InOrder(c, s \o t)
<1> DEFINE u == s \o t
           m == Len(s)
           n == Len(t)
<1>1. /\ u \in Seq(T) /\ Len(u) = m + n
      /\ \A i \in 1 .. m + n : u[i] = IF i <= m THEN s[i] ELSE t[i - m]
  BY ConcatProperties
<1>2. m \in Nat /\ n \in Nat
  BY LenProperties
<1> HIDE DEF u, m, n
<1>3. \A i \in 1 .. m + n :
        \/ i <= m /\ i \in 1 .. m /\ u[i] = s[i]
        \/ i > m /\ i - m \in 1 .. n /\ u[i] = t[i - m]
  BY <1>1, <1>2
<1>4. Elems(u) = Elems(s) \cup Elems(t)
  <2>1. Elems(u) \subseteq Elems(s) \cup Elems(t)
    BY <1>1, <1>3 DEF Elems, m, n
  <2>2. /\ \A i \in 1 .. m : i \in 1 .. m + n /\ u[i] = s[i]
        /\ \A j \in 1 .. n : m + j \in 1 .. m + n /\ u[m + j] = t[j]
    <3>1. \A i \in 1 .. m : i \in 1 .. m + n /\ u[i] = s[i]
      BY <1>1, <1>2
    <3>2. ASSUME NEW j \in 1 .. n PROVE m + j \in 1 .. m + n /\ u[m + j] = t[j]
      <4>1. m + j \in 1 .. m + n /\ ~(m + j <= m) /\ (m + j) - m = j
        BY <1>2
      <4>2. QED
        BY <1>1, <4>1
    <3>3. QED
      BY <3>1, <3>2
  <2>3. Elems(s) \subseteq Elems(u) /\ Elems(t) \subseteq Elems(u)
    BY <1>1, <2>2 DEF Elems, m, n
  <2>4. QED
    BY <2>1, <2>3
<1>5. ASSUME InOrder(c, s), InOrder(c, t), AllPrecede(c, s, t),
             NEW i \in 1 .. m + n, NEW j \in 1 .. m + n, i < j
      PROVE  Precedes(c, u[i], u[j])
  <2>1. CASE j <= m
    <3>1. i \in 1 .. m /\ j \in 1 .. m /\ u[i] = s[i] /\ u[j] = s[j]
      BY <1>2, <1>3, <1>5, <2>1
    <3>2. QED
      BY <1>5, <3>1 DEF InOrder, m
  <2>2. CASE i <= m /\ j > m
    <3>1. u[i] \in Elems(s) /\ u[j] \in Elems(t)
      <4>1. i \in 1 .. m /\ u[i] = s[i] /\ j - m \in 1 .. n /\ u[j] = t[j - m]
        BY <1>2, <1>3, <2>2
      <4>2. QED
        BY <4>1 DEF Elems, m, n
    <3>2. QED
      BY <1>5, <3>1 DEF AllPrecede
  <2>3. CASE i > m
    <3>1. /\ i - m \in 1 .. n /\ j - m \in 1 .. n /\ i - m < j - m
          /\ u[i] = t[i - m] /\ u[j] = t[j - m]
      BY <1>2, <1>3, <1>5, <2>3
    <3>2. QED
      BY <1>5, <3>1 DEF InOrder, n
  <2>4. QED
    BY <1>2, <2>1, <2>2, <2>3
<1>6. InOrder(c, s) /\ InOrder(c, t) /\ AllPrecede(c, s, t) => InOrder(c, u)
  BY <1>1, <1>5 DEF InOrder
<1>7. QED
  BY <1>1, <1>4, <1>6 DEF u

(* The first k of a queue and the rest of it.                              *)
LEMMA DividedInOrder ==
  ASSUME NEW T, NEW s \in Seq(T), NEW k \in 0 .. Len(s), NEW c, InOrder(c, s)
  PROVE  /\ SubSeq(s, 1, k) \in Seq(T) /\ SubSeq(s, k + 1, Len(s)) \in Seq(T)
         /\ Len(SubSeq(s, 1, k)) = k /\ \A i \in 1 .. k : SubSeq(s, 1, k)[i] = s[i]
         /\ Elems(SubSeq(s, 1, k)) \subseteq Elems(s)
         /\ Elems(SubSeq(s, k + 1, Len(s))) \subseteq Elems(s)
         /\ Elems(s) = Elems(SubSeq(s, k + 1, Len(s))) \cup Elems(SubSeq(s, 1, k))
         /\ InOrder(c, SubSeq(s, 1, k)) /\ InOrder(c, SubSeq(s, k + 1, Len(s)))
         /\ AllPrecede(c, SubSeq(s, 1, k), SubSeq(s, k + 1, Len(s)))
<1> DEFINE n == Len(s)
           a == SubSeq(s, 1, k)
           b == SubSeq(s, k + 1, n)
<1>1. n \in Nat /\ \A i \in 1 .. n : s[i] \in T
  BY LenProperties, ElementOfSeq
<1>2. /\ k \in Int /\ 1 \in Int /\ n \in Int /\ k + 1 \in Int
      /\ \A i \in 1 .. k : i \in 1 .. n /\ s[i] \in T
      /\ \A i \in k + 1 .. n : i \in 1 .. n /\ s[i] \in T
  BY <1>1
<1>3. /\ a \in Seq(T) /\ Len(a) = (IF 1 <= k THEN k - 1 + 1 ELSE 0)
      /\ \A i \in 1 .. k - 1 + 1 : a[i] = s[1 + i - 1]
  BY <1>2, SubSeqProperties
<1>4. /\ b \in Seq(T) /\ Len(b) = (IF k + 1 <= n THEN n - (k + 1) + 1 ELSE 0)
      /\ \A i \in 1 .. n - (k + 1) + 1 : b[i] = s[(k + 1) + i - 1]
  BY <1>2, SubSeqProperties
<1> HIDE DEF a, b, n
<1>5. Len(a) = k /\ \A i \in 1 .. k : a[i] = s[i] /\ i \in 1 .. n
  BY <1>1, <1>2, <1>3 DEF n
<1>6. Len(b) = n - k /\ \A i \in 1 .. n - k : b[i] = s[k + i] /\ k + i \in 1 .. n
  BY <1>1, <1>2, <1>4 DEF n
<1>7. Elems(a) \subseteq Elems(s) /\ Elems(b) \subseteq Elems(s)
  BY <1>5, <1>6 DEF Elems, n
<1>8. Elems(s) \subseteq Elems(b) \cup Elems(a)
  <2> SUFFICES ASSUME NEW i \in 1 .. n PROVE s[i] \in Elems(b) \cup Elems(a)
    BY DEF Elems, n
  <2>1. CASE i <= k
    <3>1. i \in 1 .. k
      BY <1>1, <1>2, <2>1
    <3>2. QED
      BY <1>5, <3>1 DEF Elems
  <2>2. CASE i > k
    <3>1. i - k \in 1 .. n - k /\ k + (i - k) = i
      BY <1>1, <1>2, <2>2
    <3>2. QED
      BY <1>6, <3>1 DEF Elems
  <2>3. QED
    BY <1>1, <1>2, <2>1, <2>2
<1>9. InOrder(c, a)
  BY <1>5 DEF InOrder, n
<1>10. InOrder(c, b)
  <2> SUFFICES ASSUME NEW i \in 1 .. n - k, NEW j \in 1 .. n - k, i < j
               PROVE  Precedes(c, b[i], b[j])
    BY <1>6 DEF InOrder
  <2>1. k + i < k + j /\ k + i \in 1 .. n /\ k + j \in 1 .. n
    BY <1>1, <1>2, <1>6
  <2>2. QED
    BY <1>6, <2>1 DEF InOrder, n
<1>11. AllPrecede(c, a, b)
  <2> SUFFICES ASSUME NEW i \in 1 .. k, NEW j \in 1 .. n - k PROVE Precedes(c, a[i], b[j])
    BY <1>5, <1>6 DEF AllPrecede, Elems
  <2>1. i < k + j /\ i \in 1 .. n /\ k + j \in 1 .. n /\ a[i] = s[i] /\ b[j] = s[k + j]
    BY <1>1, <1>2, <1>5, <1>6
  <2>2. QED
    BY <2>1 DEF InOrder, n
<1>12. QED
  BY <1>3, <1>4, <1>5, <1>7, <1>8, <1>9, <1>10, <1>11 DEF a, b, n

LEMMA HeadInOrder ==
  ASSUME NEW T, NEW s \in Seq(T), s # <<>>, NEW c, InOrder(c, s)
  PROVE  /\ Tail(s) \in Seq(T) /\ Head(s) \in Elems(s) /\ Head(s) = s[1] /\ s[1] \in T
         /\ Elems(Tail(s)) \subseteq Elems(s) /\ InOrder(c, Tail(s))
         /\ Elems(s) = Elems(Tail(s)) \cup {Head(s)}
         /\ \A r \in Elems(Tail(s)) : Precedes(c, Head(s), r)
<1>1. Len(s) \in Nat \ {0} /\ 1 \in 0 .. Len(s)
  BY EmptySeq
<1>2. Tail(s) = SubSeq(s, 1 + 1, Len(s)) /\ Head(s) = s[1]
  BY TailIsSubSeq
<1>3. /\ SubSeq(s, 1 + 1, Len(s)) \in Seq(T)
      /\ Len(SubSeq(s, 1, 1)) = 1 /\ SubSeq(s, 1, 1)[1] = s[1]
      /\ Elems(SubSeq(s, 1 + 1, Len(s))) \subseteq Elems(s)
      /\ Elems(s) = Elems(SubSeq(s, 1 + 1, Len(s))) \cup Elems(SubSeq(s, 1, 1))
      /\ InOrder(c, SubSeq(s, 1 + 1, Len(s)))
      /\ AllPrecede(c, SubSeq(s, 1, 1), SubSeq(s, 1 + 1, Len(s)))
  BY <1>1, DividedInOrder
<1>4. Elems(SubSeq(s, 1, 1)) = {s[1]}
  BY <1>3 DEF Elems
<1>5. s[1] \in Elems(s) /\ s[1] \in T
  BY <1>1, ElementOfSeq DEF Elems
<1>6. QED
  BY <1>2, <1>3, <1>4, <1>5 DEF AllPrecede

-----------------------------------------------------------------------------
(* Splitting keeps the order and the ends of a packet.                     *)

(* A part is a piece of its packet and one of those its coefficient        *)
(* counts.                                                                 *)
Counted(c, q) ==
  /\ Slice(q)
  /\ q.pkt \notin c =>
       /\ 1 <= q.FCounter /\ q.FCounter <= q.FCoefficient
       /\ q.FIsLast => q.FCounter = q.FCoefficient
       /\ (q.FCounter = 1) <=> (Begin(q) = 0)

(* x is a part of part q.                                                  *)
IsPartOf(c, x, q) ==
  /\ x.pkt = q.pkt /\ (x.FIsLast => q.FIsLast /\ End(x) = End(q))
  /\ First(c, x) => First(c, q)
  /\ Counted(c, x)
  /\ x.pkt \notin c => Within(x, q)

(* The parts s together are q.                                             *)
Divided(q, s) ==
  /\ Begin(s[1]) = Begin(q) /\ End(s[Len(s)]) = End(q)
  /\ \A i \in 1 .. Len(s) - 1 : Begin(s[i + 1]) = End(s[i])
  /\ q.FIsLast => s[Len(s)].FIsLast
  /\ \A i \in 1 .. Len(s) : s[i].pkt = q.pkt /\ s[i].FCoefficient = s[1].FCoefficient

LEMMA NumbersOfPart ==
  ASSUME NEW c, NEW q \in Part, Counted(c, q)
  PROVE  /\ Len(q.data) \in Nat \ {0} /\ Begin(q) \in Nat /\ End(q) \in Nat /\ Begin(q) < End(q)
         /\ q.FCounter \in Nat /\ q.FCoefficient \in Nat /\ q.pkt \in Nat
         /\ q.pkt \notin c => q.FCounter - 1 \in Nat /\ q.FCoefficient \in Nat \ {0}
<1>1. q.FCounter \in Nat /\ q.FCoefficient \in Nat /\ q.pkt \in Nat /\ q.data \in Seq(Nat)
  BY DEF Part
<1>2. Len(q.data) \in Nat
  BY <1>1, LenProperties
<1>3. QED
  BY <1>1, <1>2, SMTT(30) DEF Counted, Slice, End

LEMMA StaysPart ==
  ASSUME NEW c, NEW d, c \subseteq d, NEW q \in Part, Counted(c, q) PROVE IsPartOf(d, q, q)
<1>1. Counted(d, q)
  BY DEF Counted
<1>2. q.pkt \notin d => Within(q, q)
  <2> SUFFICES ASSUME q.pkt \notin d PROVE Within(q, q)
    OBVIOUS
  <2>1. q.FCounter - 1 \in Nat /\ q.FCoefficient \in Nat /\ Begin(q) \in Nat /\ End(q) \in Nat
        /\ q.FCounter \in Nat
    BY NumbersOfPart
  <2>2. \A n, e, b \in Nat : Before(n, e, b, n, e, b)
    <3> SUFFICES ASSUME NEW n \in Nat, NEW e \in Nat, NEW b \in Nat PROVE Before(n, e, b, n, e, b)
      OBVIOUS
    <3>1. n * e \in Nat
      OBVIOUS
    <3>2. QED
      BY <3>1 DEF Before
  <2>3. QED
    BY <2>1, <2>2 DEF Within
<1>3. QED
  BY <1>1, <1>2 DEF IsPartOf

LEMMA PartsTakePlace ==
  ASSUME NEW c, NEW d, c \subseteq d, NEW q \in Part, NEW x \in Part, NEW r \in Part,
         Counted(c, q), IsPartOf(d, x, q), Counted(c, r)
  PROVE  /\ Precedes(c, q, r) => Precedes(d, x, r)
         /\ Precedes(c, r, q) => Precedes(d, r, x)
<1>1. Counted(d, x) /\ x.pkt = q.pkt /\ (x.pkt \notin d => Within(x, q))
  BY DEF IsPartOf
<1>2. ASSUME x.pkt \notin d
      PROVE  /\ q.pkt \notin c /\ Within(x, q)
             /\ q.FCounter \in Nat /\ q.FCounter - 1 \in Nat /\ q.FCoefficient \in Nat \ {0}
             /\ Begin(q) \in Nat /\ End(q) \in Nat
             /\ x.FCounter \in Nat /\ x.FCounter - 1 \in Nat /\ x.FCoefficient \in Nat \ {0}
             /\ Begin(x) \in Nat /\ End(x) \in Nat
  BY <1>1, <1>2, NumbersOfPart
<1>3. r.pkt \notin c => /\ r.FCounter \in Nat /\ r.FCounter - 1 \in Nat
                        /\ r.FCoefficient \in Nat \ {0} /\ Begin(r) \in Nat /\ End(r) \in Nat
  BY NumbersOfPart
<1>4. ASSUME x.pkt \notin d, r.pkt = q.pkt, Ahead(q, r) PROVE Ahead(x, r)
  <2>1. /\ Before(x.FCounter, x.FCoefficient, End(x), q.FCounter, q.FCoefficient, End(q))
        /\ Before(q.FCounter, q.FCoefficient, End(q), r.FCounter - 1, r.FCoefficient, Begin(r))
    BY <1>2, <1>4 DEF Within, Ahead
  <2>2. r.pkt \notin c
    BY <1>2, <1>4
  <2>3. PICK xn, xd, xb, qn, qd, qb, rn, rd, rb :
          /\ xn = x.FCounter /\ xd = x.FCoefficient /\ xb = End(x)
          /\ qn = q.FCounter /\ qd = q.FCoefficient /\ qb = End(q)
          /\ rn = r.FCounter - 1 /\ rd = r.FCoefficient /\ rb = Begin(r)
    OBVIOUS
  <2>4. /\ xn \in Nat /\ xd \in Nat \ {0} /\ xb \in Nat
        /\ qn \in Nat /\ qd \in Nat \ {0} /\ qb \in Nat
        /\ rn \in Nat /\ rd \in Nat \ {0} /\ rb \in Nat
        /\ Before(xn, xd, xb, qn, qd, qb) /\ Before(qn, qd, qb, rn, rd, rb)
    BY <1>2, <1>3, <1>4, <2>1, <2>2, <2>3
  <2>5. Before(xn, xd, xb, rn, rd, rb)
    BY <2>4, BeforeIsTransitive
  <2>6. QED
    BY <2>3, <2>5 DEF Ahead
<1>5. ASSUME x.pkt \notin d, r.pkt = q.pkt, Ahead(r, q) PROVE Ahead(r, x)
  <2>1. /\ Before(r.FCounter, r.FCoefficient, End(r), q.FCounter - 1, q.FCoefficient, Begin(q))
        /\ Before(q.FCounter - 1, q.FCoefficient, Begin(q), x.FCounter - 1, x.FCoefficient, Begin(x))
    BY <1>2, <1>5 DEF Within, Ahead
  <2>2. r.pkt \notin c
    BY <1>2, <1>5
  <2>3. PICK xn, xd, xb, qn, qd, qb, rn, rd, rb :
          /\ xn = x.FCounter - 1 /\ xd = x.FCoefficient /\ xb = Begin(x)
          /\ qn = q.FCounter - 1 /\ qd = q.FCoefficient /\ qb = Begin(q)
          /\ rn = r.FCounter /\ rd = r.FCoefficient /\ rb = End(r)
    OBVIOUS
  <2>4. /\ xn \in Nat /\ xd \in Nat \ {0} /\ xb \in Nat
        /\ qn \in Nat /\ qd \in Nat \ {0} /\ qb \in Nat
        /\ rn \in Nat /\ rd \in Nat \ {0} /\ rb \in Nat
        /\ Before(rn, rd, rb, qn, qd, qb) /\ Before(qn, qd, qb, xn, xd, xb)
    BY <1>2, <1>3, <1>5, <2>1, <2>2, <2>3
  <2>5. Before(rn, rd, rb, xn, xd, xb)
    BY <2>4, BeforeIsTransitive
  <2>6. QED
    BY <2>3, <2>5 DEF Ahead
<1>6. (First(d, x) => First(c, q)) /\ (First(d, r) => First(c, r)) /\ (x.FIsLast => q.FIsLast)
  BY DEF IsPartOf, First
<1>7. QED
  BY <1>1, <1>4, <1>5, <1>6 DEF Precedes

Limits == {0} \cup {n \in Nat : n > 1 /\ n > Header}

LEMMA RenumberedIs ==
  ASSUME NEW q \in Part, NEW A, NEW B, NEW C, NEW D
  PROVE  [q EXCEPT !.FCoefficient = A, !.FCounter = B, !.FIsLast = C, !.data = D]
           = [pkt |-> q.pkt, FCoefficient |-> A, FCounter |-> B, FIsLast |-> C, data |-> D]
<1>1. q = [pkt |-> q.pkt, FCoefficient |-> q.FCoefficient, FCounter |-> q.FCounter,
           FIsLast |-> q.FIsLast, data |-> q.data]
  BY DEF Part
<1>2. PICK p, a, b, c, d : q = [pkt |-> p, FCoefficient |-> a, FCounter |-> b,
                                FIsLast |-> c, data |-> d]
  BY <1>1
<1> DEFINE q1 == [q EXCEPT !.FCoefficient = A]
           q2 == [q1 EXCEPT !.FCounter = B]
           q3 == [q2 EXCEPT !.FIsLast = C]
<1>3. q1 = [pkt |-> p, FCoefficient |-> A, FCounter |-> b, FIsLast |-> c, data |-> d]
  BY <1>2
<1> HIDE DEF q1
<1>4. q2 = [pkt |-> p, FCoefficient |-> A, FCounter |-> B, FIsLast |-> c, data |-> d]
  BY <1>3
<1> HIDE DEF q2
<1>5. q3 = [pkt |-> p, FCoefficient |-> A, FCounter |-> B, FIsLast |-> C, data |-> d]
  BY <1>4
<1> HIDE DEF q3
<1>6. [q3 EXCEPT !.data = D]
        = [pkt |-> p, FCoefficient |-> A, FCounter |-> B, FIsLast |-> C, data |-> D]
  BY <1>5
<1>7. q.pkt = p
  BY <1>2
<1>8. QED
  BY <1>6, <1>7 DEF q1, q2, q3

LEMMA SplitIs ==
  ASSUME NEW q \in Part, NEW max \in Limits, max # 0, max < Len(q.data) + Header,
         NEW c, Counted(c, q),
         q.FCoefficient * Len(MSplit(q, max)) >= CounterMod => q.pkt \in c
  PROVE  /\ MSplit(q, max) \in Seq(Part) /\ Len(MSplit(q, max)) \in Nat \ {0}
         /\ \A x \in Elems(MSplit(q, max)) : IsPartOf(c, x, q)
         /\ InOrder(c, MSplit(q, max)) /\ Divided(q, MSplit(q, max))
<1> DEFINE n == Len(q.data)
           v == NumberOfParts(n, max)
           lo(i) == Low(n, v, i)
           hi(i) == High(n, v, i)
           b(i) == SubSeq(q.data, lo(i) + 1, hi(i))
           p(i) == [pkt |-> q.pkt,
                    FCoefficient |-> (q.FCoefficient * v) % CounterMod,
                    FCounter |-> (q.FCounter * v - v + i) % CounterMod,
                    FIsLast |-> q.FIsLast /\ i = v,
                    data |-> b(i)]
           s == MSplit(q, max)
<1>1. /\ q.data \in Seq(Nat) /\ q.pkt \in Nat /\ q.FCoefficient \in Nat /\ q.FCounter \in Nat
      /\ q.FIsLast \in BOOLEAN
      /\ q = [pkt |-> q.pkt, FCoefficient |-> q.FCoefficient, FCounter |-> q.FCounter,
              FIsLast |-> q.FIsLast, data |-> q.data]
  BY DEF Part
<1>2. /\ n \in Nat /\ max \in Nat /\ max > 1 /\ max > Header /\ Header \in Nat
      /\ \A i \in 1 .. n : q.data[i] \in Nat
  BY <1>1, LenProperties, ElementOfSeq, LinkAssumption DEF Limits
<1>3. n > 1
  BY <1>2
<1>4. v \in Nat \ {0} /\ v <= n
  BY <1>2, <1>3, PartsAreSome, PartsAreFew
<1>5. s = [i \in 1 .. v |-> p(i)]
  <2>1. s = [i \in 1 .. v |->
               [q EXCEPT !.FCoefficient = (q.FCoefficient * v) % CounterMod,
                         !.FCounter = (q.FCounter * v - v + i) % CounterMod,
                         !.FIsLast = q.FIsLast /\ i = v,
                         !.data = b(i)]]
    BY DEF MSplit, Low, High
  <2> HIDE DEF s, v, b
  <2>2. ASSUME NEW i \in 1 .. v
        PROVE  [q EXCEPT !.FCoefficient = (q.FCoefficient * v) % CounterMod,
                         !.FCounter = (q.FCounter * v - v + i) % CounterMod,
                         !.FIsLast = q.FIsLast /\ i = v,
                         !.data = b(i)] = p(i)
    <3> DEFINE A == (q.FCoefficient * v) % CounterMod
               B == (q.FCounter * v - v + i) % CounterMod
               C == q.FIsLast /\ i = v
    <3> HIDE DEF A, B, C
    <3>1. [q EXCEPT !.FCoefficient = A, !.FCounter = B, !.FIsLast = C, !.data = b(i)]
            = [pkt |-> q.pkt, FCoefficient |-> A, FCounter |-> B, FIsLast |-> C, data |-> b(i)]
      BY RenumberedIs
    <3>2. QED
      BY <3>1 DEF A, B, C
  <2> HIDE DEF p
  <2>3. QED
    BY <2>1, <2>2
<1>6. CounterMod \in Nat \ {0}
  BY SizeAssumption
<1> HIDE DEF v, s, n
<1>7. ASSUME NEW i \in 1 .. v
      PROVE  /\ lo(i) \in Nat /\ hi(i) \in Nat /\ lo(i) < hi(i) /\ hi(i) <= n
             /\ (lo(i) = 0) <=> (i = 1)
             /\ (hi(i) = n) <=> (i = v)
             /\ \A j \in 1 .. v :
                  i < j => hi(i) <= lo(j) /\ ((hi(i) = lo(j)) <=> (i = j - 1))
  <2> HIDE DEF lo, hi
  <2>1. /\ \A j \in 1 .. v :
             /\ lo(j) \in Nat /\ hi(j) \in Nat
             /\ lo(j) < hi(j) /\ hi(j) <= n
             /\ (lo(j) = 0) <=> (j = 1)
             /\ (hi(j) = n) <=> (j = v)
        /\ \A k, j \in 1 .. v : k < j =>
             /\ hi(k) <= lo(j)
             /\ (hi(k) = lo(j)) <=> (k = j - 1)
    BY <1>2, <1>4, PlacesOfParts, ZenonT(60) DEF lo, hi
  <2>2. QED
    BY <2>1
<1> HIDE DEF lo, hi
<1>8. /\ Begin(q) \in Nat /\ \A i \in 1 .. n : q.data[i] = Begin(q) + i
      /\ End(q) = Begin(q) + n
  BY DEF Counted, Slice, End, n
<1>9. ASSUME NEW i \in 1 .. v
       PROVE  /\ b(i) \in Seq(Nat) /\ Len(b(i)) = hi(i) - lo(i)
              /\ \A j \in 1 .. hi(i) - lo(i) : b(i)[j] = Begin(q) + lo(i) + j
  <2>1. PICK e, x, y, d : e = Begin(q) /\ x = lo(i) /\ y = hi(i) /\ d = q.data
    OBVIOUS
  <2>2. e \in Nat /\ x \in Nat /\ y \in Nat /\ x < y /\ y <= Len(d) /\ d \in Seq(Nat)
    BY <1>1, <1>7, <1>8, <2>1 DEF n
  <2>3. \A j \in 1 .. Len(d) : d[j] = e + j
    BY <1>8, <2>1 DEF n
  <2>4. /\ SubSeq(d, x + 1, y) \in Seq(Nat) /\ Len(SubSeq(d, x + 1, y)) = y - x
        /\ \A j \in 1 .. y - x : SubSeq(d, x + 1, y)[j] = e + x + j
    BY <2>2, <2>3, SliceOf, SMTT(30)
  <2>5. QED
    BY <2>1, <2>4
<1> HIDE DEF b
<1>10. ASSUME NEW i \in 1 .. v PROVE p(i) \in Part
  <2>1. q.FCoefficient * v \in Int /\ q.FCounter * v - v + i \in Int
    BY <1>1, <1>4
  <2>2. (q.FCoefficient * v) % CounterMod \in Nat /\ (q.FCounter * v - v + i) % CounterMod \in Nat
    BY <1>6, <2>1, RemainderIs
  <2>3. QED
    BY <1>1, <1>9, <2>2 DEF Part
<1>11. s \in Seq(Part) /\ Len(s) = v
  <2>1. s \in [1 .. v -> Part]
    BY <1>5, <1>10
  <2>2. QED
    BY <1>4, <2>1
<1>12. ASSUME NEW i \in 1 .. v
       PROVE  /\ s[i] = p(i) /\ s[i].pkt = q.pkt /\ s[i].data = b(i)
              /\ s[i].FIsLast => q.FIsLast /\ i = v
              /\ q.pkt \notin c => /\ s[i].FCounter = q.FCounter * v - v + i
                                   /\ s[i].FCoefficient = q.FCoefficient * v
  <2>1. s[i] = p(i)
    BY <1>5
  <2>2. ASSUME q.pkt \notin c
        PROVE  /\ (q.FCounter * v - v + i) % CounterMod = q.FCounter * v - v + i
               /\ (q.FCoefficient * v) % CounterMod = q.FCoefficient * v
    <3>1. q.FCoefficient * v < CounterMod
      BY <1>1, <1>4, <1>6, <1>11, <2>2 DEF s
    <3>2. 1 <= q.FCounter /\ q.FCounter <= q.FCoefficient
      BY <2>2 DEF Counted
    <3>3. /\ q.FCounter * v - v + i \in Nat /\ q.FCoefficient * v \in Nat
          /\ q.FCounter * v - v + i <= q.FCoefficient * v
      BY <1>1, <1>4, <3>2, CountersOfParts
    <3> DEFINE x == q.FCounter * v - v + i
               y == q.FCoefficient * v
    <3>4. x \in Nat /\ y \in Nat /\ x < CounterMod /\ y < CounterMod
      BY <1>6, <3>1, <3>3
    <3> HIDE DEF x, y
    <3>5. x % CounterMod = x /\ y % CounterMod = y
      BY <1>6, <3>4, DivisionIs
    <3>6. QED
      BY <3>5 DEF x, y
  <2>3. /\ p(i).pkt = q.pkt /\ p(i).FIsLast = (q.FIsLast /\ i = v) /\ p(i).data = b(i)
        /\ p(i).FCounter = (q.FCounter * v - v + i) % CounterMod
        /\ p(i).FCoefficient = (q.FCoefficient * v) % CounterMod
    OBVIOUS
  <2> HIDE DEF p
  <2>4. QED
    BY <2>1, <2>2, <2>3
<1>13. ASSUME NEW i \in 1 .. v, q.pkt \notin c
       PROVE  /\ 1 <= s[i].FCounter /\ s[i].FCounter <= s[i].FCoefficient
              /\ s[i].FCounter = 1 => q.FCounter = 1 /\ i = 1
              /\ s[i].FIsLast => s[i].FCounter = s[i].FCoefficient
  <2>1. /\ 1 <= q.FCounter /\ q.FCounter <= q.FCoefficient
        /\ q.FIsLast => q.FCounter = q.FCoefficient
    BY <1>13 DEF Counted
  <2>2. /\ 1 <= q.FCounter * v - v + i /\ q.FCounter * v - v + i <= q.FCoefficient * v
        /\ q.FCounter * v - v + i = 1 => q.FCounter = 1 /\ i = 1
        /\ q.FCounter = q.FCoefficient /\ i = v => q.FCounter * v - v + i = q.FCoefficient * v
    BY <1>1, <1>4, <2>1, CountersOfParts
  <2>3. QED
    BY <1>12, <1>13, <2>1, <2>2
<1>14. ASSUME NEW i \in 1 .. v
       PROVE  Slice(s[i]) /\ Begin(s[i]) = Begin(q) + lo(i) /\ End(s[i]) = Begin(q) + hi(i)
  <2>1. s[i].data = b(i)
    BY <1>12
  <2>2. 1 \in 1 .. hi(i) - lo(i) /\ lo(i) \in Nat /\ hi(i) \in Nat /\ Len(b(i)) = hi(i) - lo(i)
    BY <1>7, <1>9
  <2>3. b(i)[1] = Begin(q) + lo(i) + 1
    BY <1>9, <2>2
  <2>4. Begin(s[i]) = Begin(q) + lo(i) /\ Begin(s[i]) \in Nat
    <3>1. PICK B : B = Begin(q)
      OBVIOUS
    <3>2. B \in Nat /\ b(i)[1] = B + lo(i) + 1
      BY <1>8, <2>3, <3>1
    <3>3. Begin(s[i]) = B + lo(i) + 1 - 1
      BY <2>1, <2>2, <3>2 DEF Begin
    <3>4. QED
      BY <2>2, <3>1, <3>2, <3>3
  <2>5. End(s[i]) = Begin(q) + hi(i)
    <3>1. End(s[i]) = Begin(q) + lo(i) + (hi(i) - lo(i))
      BY <2>1, <2>2, <2>4 DEF End
    <3>2. QED
      BY <1>8, <2>2, <3>1
  <2>6. Slice(s[i])
    BY <1>9, <2>1, <2>2, <2>4 DEF Slice
  <2>7. QED
    BY <2>4, <2>5, <2>6
<1> HIDE DEF p
<1>15. q.pkt \notin c => /\ q.FCounter \in Nat \ {0} /\ q.FCoefficient \in Nat \ {0}
                         /\ (q.FCounter = 1 <=> Begin(q) = 0)
  BY <1>1 DEF Counted
<1>16. ASSUME NEW i \in 1 .. v, q.pkt \notin c PROVE Within(s[i], q)
  <2>1. PICK K, C, x, y, B : /\ K = q.FCounter /\ C = q.FCoefficient /\ x = lo(i) /\ y = hi(i)
                            /\ B = Begin(q)
    OBVIOUS
  <2>2. /\ K \in Nat \ {0} /\ C \in Nat \ {0} /\ x \in Nat /\ y \in Nat /\ B \in Nat
        /\ (x = 0 <=> i = 1) /\ y <= n /\ (y = n <=> i = v)
    BY <1>7, <1>8, <1>15, <1>16, <2>1
  <2>3. /\ Before(K - 1, C, B, K * v - v + i - 1, C * v, B + x)
        /\ Before(K * v - v + i, C * v, B + y, K, C, B + n)
    BY <1>2, <1>4, <2>2, FractionsOfParts
  <2>4. /\ s[i].FCounter = K * v - v + i /\ s[i].FCoefficient = C * v
        /\ Begin(s[i]) = B + x /\ End(s[i]) = B + y /\ End(q) = B + n
    <3>1. s[i].FCounter = K * v - v + i /\ s[i].FCoefficient = C * v
      BY <1>12, <1>16, <2>1
    <3>2. Begin(s[i]) = B + x /\ End(s[i]) = B + y /\ End(q) = B + n
      BY <1>8, <1>14, <2>1
    <3>3. QED
      BY <3>1, <3>2
  <2>5. PICK F, E : F = K * v - v + i /\ E = C * v
    OBVIOUS
  <2>6. /\ Before(K - 1, C, B, F - 1, E, B + x) /\ Before(F, E, B + y, K, C, B + n)
        /\ s[i].FCounter = F /\ s[i].FCoefficient = E
    BY <1>2, <1>4, <2>2, <2>3, <2>4, <2>5
  <2>7. QED
    BY <2>1, <2>4, <2>6 DEF Within
<1>17. ASSUME NEW i \in 1 .. v, q.pkt \notin c PROVE (s[i].FCounter = 1) <=> (Begin(s[i]) = 0)
  <2>1. CASE s[i].FCounter = 1
    <3>1. q.FCounter = 1 /\ i = 1
      BY <1>13, <1>17, <2>1
    <3>2. QED
      BY <1>7, <1>8, <1>14, <1>15, <1>17, <2>1, <3>1
  <2>2. CASE Begin(s[i]) = 0
    <3>1. Begin(q) = 0 /\ lo(i) = 0 /\ i = 1 /\ q.FCounter = 1
      BY <1>7, <1>8, <1>14, <1>15, <1>17, <2>2
    <3>2. s[i].FCounter = 1 * v - v + 1
      BY <1>12, <1>17, <3>1
    <3>3. QED
      BY <1>4, <2>2, <3>2
  <2>3. QED
    BY <2>1, <2>2
<1>18. \A i \in 1 .. v : s[i].FIsLast => End(s[i]) = End(q)
  BY <1>7, <1>12, <1>8, <1>14
<1>19. \A i \in 1 .. v : IsPartOf(c, s[i], q)
  BY <1>12, <1>13, <1>14, <1>16, <1>17, <1>18 DEF IsPartOf, First, Counted
<1>20. ASSUME NEW i \in 1 .. v, NEW j \in 1 .. v, i < j, q.pkt \notin c PROVE Ahead(s[i], s[j])
  <2> DEFINE C == q.FCoefficient * v
             a == q.FCounter * v - v + i
             d == q.FCounter * v - v + j - 1
  <2>1. C \in Nat \ {0} /\ a \in Nat /\ d \in Nat /\ a <= d /\ (a = d <=> i = j - 1)
    <3>1. 1 * v <= q.FCounter * v /\ 1 * v = v /\ q.FCounter * v \in Nat
      BY <1>4, <1>15, <1>20, ProductsGrow
    <3>2. 1 * v <= q.FCoefficient * v /\ q.FCoefficient * v \in Nat
      BY <1>4, <1>15, <1>20, ProductsGrow
    <3>3. QED
      BY <1>4, <1>20, <3>1, <3>2
  <2>2. /\ s[i].FCounter = a /\ s[j].FCounter - 1 = d
        /\ s[i].FCoefficient = C /\ s[j].FCoefficient = C
    <3>1. s[i].FCounter = a /\ s[i].FCoefficient = C
      BY <1>12, <1>20
    <3>2. s[j].FCounter = q.FCounter * v - v + j /\ s[j].FCoefficient = C
      BY <1>12, <1>20
    <3>3. q.FCounter * v \in Nat
      BY <1>1, <1>4
    <3>4. QED
      BY <1>4, <3>1, <3>2, <3>3
  <2> HIDE DEF a, d, C
  <2>3. a * C <= d * C /\ (a * C = d * C <=> a = d)
    BY <2>1, ProductsGrow, ProductsCancel
  <2>4. /\ Begin(q) + hi(i) <= Begin(q) + lo(j)
        /\ (Begin(q) + hi(i) = Begin(q) + lo(j)) <=> (i = j - 1)
    <3>1. hi(i) \in Nat /\ hi(i) <= lo(j) /\ ((hi(i) = lo(j)) <=> (i = j - 1))
      <4>1. hi(i) \in Nat
        BY <1>7
      <4>2. \A k \in 1 .. v :
                i < k => hi(i) <= lo(k) /\ ((hi(i) = lo(k)) <=> (i = k - 1))
        BY <1>7
      <4>3. QED
        BY <1>20, <4>1, <4>2
    <3>2. lo(j) \in Nat /\ Begin(q) \in Nat
      BY <1>7, <1>8
    <3> HIDE DEF Begin
    <3>3. QED
      BY <3>1, <3>2
  <2>5. QED
    BY <1>14, <2>1, <2>2, <2>3, <2>4 DEF Ahead, Before
<1>21. ASSUME NEW i \in 1 .. v, NEW j \in 1 .. v, i < j PROVE Precedes(c, s[i], s[j])
  <2>1. s[i].pkt = q.pkt /\ s[j].pkt = q.pkt /\ q.pkt <= q.pkt
    BY <1>1, <1>12
  <2>2. ~s[i].FIsLast
    BY <1>4, <1>12, <1>21
  <2>3. ~First(c, s[j])
    BY <1>13, <1>21, <2>1 DEF First
  <2>4. QED
    BY <1>21, <1>20, <2>1, <2>2, <2>3 DEF Precedes
<1>22. Divided(q, s)
  <2>1. 1 \in 1 .. v /\ v \in 1 .. v /\ Len(s) = v
    BY <1>4, <1>11
  <2>2. Begin(s[1]) = Begin(q) /\ End(s[v]) = End(q)
    BY <1>7, <1>8, <1>14, <2>1
  <2>3. ASSUME NEW i \in 1 .. v - 1 PROVE Begin(s[i + 1]) = End(s[i])
    <3>1. i \in 1 .. v /\ i + 1 \in 1 .. v /\ i < i + 1 /\ i = (i + 1) - 1
      BY <1>4
    <3>2. hi(i) = lo(i + 1)
      BY <1>7, <3>1
    <3>3. QED
      BY <1>14, <3>1, <3>2
  <2>4. \A i \in 1 .. v : /\ s[i].pkt = q.pkt /\ s[i].FCoefficient = s[1].FCoefficient
                           /\ s[i].FIsLast = (q.FIsLast /\ i = v)
    <3>1. \A i \in 1 .. v : /\ p(i).FCoefficient = (q.FCoefficient * v) % CounterMod
                             /\ p(i).FIsLast = (q.FIsLast /\ i = v)
      BY DEF p
    <3>2. QED
      BY <1>12, <2>1, <3>1
  <2>5. QED
    BY <2>1, <2>2, <2>3, <2>4 DEF Divided
<1>23. QED
  BY <1>4, <1>11, <1>19, <1>21, <1>22 DEF Elems, InOrder, s

(* What a kernel puts on a link for a part.                                *)
LEMMA PartsAre ==
  ASSUME NEW q \in Part, NEW max \in Limits, NEW c, Counted(c, q),
         q.FCoefficient * Len(SplitIfNeed(q, max)) >= CounterMod => q.pkt \in c
  PROVE  /\ SplitIfNeed(q, max) \in Seq(Part) /\ Len(SplitIfNeed(q, max)) \in Nat \ {0}
         /\ \A x \in Elems(SplitIfNeed(q, max)) : IsPartOf(c, x, q)
         /\ InOrder(c, SplitIfNeed(q, max)) /\ Divided(q, SplitIfNeed(q, max))
<1>1. CASE max = 0 \/ max >= Len(q.data) + Header
  <2>1. SplitIfNeed(q, max) = <<q>>
    BY <1>1 DEF SplitIfNeed
  <2>2. <<q>> \in Seq(Part) /\ Len(<<q>>) = 1 /\ <<q>>[1] = q
    OBVIOUS
  <2>3. IsPartOf(c, q, q)
    BY StaysPart
  <2>4. Divided(q, <<q>>)
    BY <2>2 DEF Divided
  <2>5. QED
    BY <2>1, <2>2, <2>3, <2>4 DEF Elems, InOrder
<1>2. CASE ~(max = 0 \/ max >= Len(q.data) + Header)
  <2>1. Len(q.data) \in Nat /\ Header \in Nat /\ max \in Nat
    BY LenProperties, LinkAssumption DEF Part, Limits
  <2>2. SplitIfNeed(q, max) = MSplit(q, max) /\ max # 0 /\ max < Len(q.data) + Header
    BY <1>2, <2>1 DEF SplitIfNeed
  <2>3. QED
    BY <2>2, SplitIs
<1>3. QED
  BY <1>1, <1>2

-----------------------------------------------------------------------------
(* All parts under way: row h is link h, and the last row is what the      *)
(* customer's kernel has to handle.  Rows with higher numbers come first.  *)

Rows == 1 .. Links + 1
LinesOf(w, a) == [h \in Rows |-> IF h = Links + 1 THEN a ELSE w[h]]
Lines == LinesOf(wire, aWhat)
InRows(L) == UNION {Elems(L[h]) : h \in Rows}

Ordered(c, L) ==
  /\ \A h \in Rows : InOrder(c, L[h])
  /\ \A g, h \in Rows : g < h => AllPrecede(c, L[h], L[g])

(* M is L with t in row h.                                                 *)
Replaced(L, M, h, t) == M[h] = t /\ \A g \in Rows : g # h => M[g] = L[g]

(* Rows that differ in the parts S only.                                   *)
Grown(X, Y, S) == Y \subseteq X \cup S /\ X \subseteq Y /\ S \subseteq Y

LEMMA RowsGrow ==
  ASSUME NEW L, NEW M, NEW S, NEW h \in Rows, \A g \in Rows : g # h => M[g] = L[g],
         Grown(Elems(L[h]), Elems(M[h]), S)
  PROVE  Grown(InRows(L), InRows(M), S)
<1>1. \A g \in Rows : Elems(M[g]) \subseteq Elems(L[g]) \cup S /\ Elems(L[g]) \subseteq Elems(M[g])
  BY DEF Grown
<1>2. S \subseteq Elems(M[h])
  BY DEF Grown
<1>3. QED
  BY <1>1, <1>2 DEF InRows, Grown

(* Some parts of a row go.                                                 *)
LEMMA TakenInOrder ==
  ASSUME NEW L, NEW c, NEW d, c \subseteq d, Ordered(c, L), NEW h \in Rows,
         NEW t, Elems(t) \subseteq Elems(L[h]), InOrder(c, t), NEW M, Replaced(L, M, h, t)
  PROVE  /\ Ordered(d, M) /\ InRows(M) \subseteq InRows(L)
<1>1. M[h] = t /\ \A g \in Rows : g # h => M[g] = L[g]
  BY DEF Replaced
<1>2. \A g \in Rows : InOrder(c, M[g]) /\ Elems(M[g]) \subseteq Elems(L[g])
  BY <1>1 DEF Ordered
<1>3. \A g, r \in Rows : g < r => AllPrecede(c, M[r], M[g])
  BY <1>2 DEF Ordered, AllPrecede
<1>4. Ordered(d, M)
  BY <1>2, <1>3, OrderStays DEF Ordered
<1>5. InRows(M) \subseteq InRows(L)
  BY <1>2 DEF InRows
<1>6. QED
  BY <1>4, <1>5

(* Parts come to the end of a row.                                         *)
LEMMA AddedInOrder ==
  ASSUME NEW L \in [Rows -> Seq(Part)], NEW c, NEW d, c \subseteq d, Ordered(c, L),
         NEW h \in Rows, NEW t \in Seq(Part), InOrder(d, t),
         \A g \in Rows : g < h => AllPrecede(d, t, L[g]),
         \A g \in Rows : g >= h => AllPrecede(d, L[g], t),
         NEW M, Replaced(L, M, h, L[h] \o t)
  PROVE  Ordered(d, M) /\ Grown(InRows(L), InRows(M), Elems(t))
<1>1. M[h] = L[h] \o t /\ \A g \in Rows : g # h => M[g] = L[g]
  BY DEF Replaced
<1>2. /\ \A g \in Rows : InOrder(d, L[g])
      /\ \A g, r \in Rows : g < r => AllPrecede(d, L[r], L[g])
  BY OrderStays DEF Ordered
<1>3. L[h] \in Seq(Part) /\ AllPrecede(d, L[h], t) /\ h \in Int
  BY DEF Rows
<1>4. /\ L[h] \o t \in Seq(Part) /\ Elems(L[h] \o t) = Elems(L[h]) \cup Elems(t)
      /\ InOrder(d, L[h] \o t)
  BY <1>2, <1>3, JoinedInOrder
<1>5. \A g \in Rows : InOrder(d, M[g])
  BY <1>1, <1>2, <1>4
<1>6. ASSUME NEW g \in Rows, NEW r \in Rows, g < r PROVE AllPrecede(d, M[r], M[g])
  <2>1. g \in Int /\ r \in Int
    BY DEF Rows
  <2>2. CASE g # h /\ r # h
    BY <1>1, <1>2, <1>6, <2>2
  <2>3. CASE g = h
    <3>1. M[r] = L[r] /\ AllPrecede(d, L[r], L[h]) /\ AllPrecede(d, L[r], t)
      BY <1>1, <1>2, <1>3, <1>6, <2>1, <2>3
    <3>2. QED
      BY <1>1, <1>4, <2>3, <3>1 DEF AllPrecede
  <2>4. CASE r = h
    <3>1. M[g] = L[g] /\ AllPrecede(d, L[h], L[g]) /\ AllPrecede(d, t, L[g])
      BY <1>1, <1>2, <1>3, <1>6, <2>1, <2>4
    <3>2. QED
      BY <1>1, <1>4, <2>4, <3>1 DEF AllPrecede
  <2>5. QED
    BY <2>2, <2>3, <2>4
<1>7. Grown(InRows(L), InRows(M), Elems(t))
  <2>1. Grown(Elems(L[h]), Elems(M[h]), Elems(t))
    BY <1>1, <1>4 DEF Grown
  <2>2. QED
    BY <1>1, <2>1, RowsGrow
<1>8. QED
  BY <1>5, <1>6, <1>7 DEF Ordered

(* The first parts of a row, t, come before all others that stay.          *)
LEMMA FrontIsFirst ==
  ASSUME NEW L, NEW c, Ordered(c, L), NEW h \in Rows,
         NEW t, Elems(t) \subseteq Elems(L[h]),
         NEW u, Elems(u) \subseteq Elems(L[h]), InOrder(c, u), AllPrecede(c, t, u),
         NEW M, Replaced(L, M, h, u)
  PROVE  /\ Ordered(c, M) /\ InRows(M) \subseteq InRows(L)
         /\ \A g \in Rows : g <= h => AllPrecede(c, t, M[g])
         /\ \A g \in Rows : g > h => AllPrecede(c, M[g], t)
<1>1. Ordered(c, M) /\ InRows(M) \subseteq InRows(L)
  BY TakenInOrder
<1>2. M[h] = u /\ \A g \in Rows : g # h => M[g] = L[g]
  BY DEF Replaced
<1>3. h \in Int /\ Rows \subseteq Int
  BY DEF Rows
<1>4. \A g \in Rows : g <= h => AllPrecede(c, t, M[g])
  <2> SUFFICES ASSUME NEW g \in Rows, g <= h PROVE AllPrecede(c, t, M[g])
    OBVIOUS
  <2>1. CASE g = h
    BY <1>2, <2>1
  <2>2. CASE g # h
    <3>1. g < h /\ M[g] = L[g]
      BY <1>2, <1>3, <2>2
    <3>2. AllPrecede(c, L[h], L[g])
      BY <3>1 DEF Ordered
    <3>3. QED
      BY <3>1, <3>2 DEF AllPrecede
  <2>3. QED
    BY <2>1, <2>2
<1>5. \A g \in Rows : g > h => AllPrecede(c, M[g], t)
  <2> SUFFICES ASSUME NEW g \in Rows, g > h PROVE AllPrecede(c, M[g], t)
    OBVIOUS
  <2>1. h < g /\ M[g] = L[g]
    BY <1>2, <1>3
  <2>2. AllPrecede(c, L[g], L[h])
    BY <2>1 DEF Ordered
  <2>3. QED
    BY <2>1, <2>2 DEF AllPrecede
<1>6. QED
  BY <1>1, <1>4, <1>5

-----------------------------------------------------------------------------
(* How each step moves the parts.                                          *)

InFlight == InRows(Lines)
Flow ==
  /\ Ordered(cut, Lines)
  /\ \A q \in InFlight : Counted(cut, q)

(* What is on the last link or behind it.                                  *)
Arriving == Elems(aWhat) \cup Elems(wire[Links])

(* Everything under way was so before, or is a part of something that was. *)
Moved == \A x \in InFlight' : \E q \in InFlight : IsPartOf(cut', x, q)

(* The parts S are no longer under way.                                    *)
Dropped(S) ==
  /\ InFlight' \subseteq InFlight /\ InFlight \subseteq InFlight' \cup S
  /\ Arriving' \subseteq Arriving /\ levels' = levels

(* The parts s of q are under way in its place, and noted if they arrive.  *)
Spread(q, s) ==
  /\ s \in Seq(Part) /\ Len(s) \in Nat \ {0} /\ Divided(q, s)
  /\ \A x \in Elems(s) : IsPartOf(cut', x, q)
  /\ InFlight' \subseteq InFlight \cup Elems(s)
  /\ Elems(s) \subseteq InFlight' /\ InFlight \subseteq InFlight' \cup {q}
  /\ \/ Arriving' = Arriving /\ levels' = levels
     \/ /\ Arriving' = Arriving \cup Elems(s)
        /\ \A r \in Arriving, x \in Elems(s) : Precedes(cut', r, x)
        /\ levels' = levels \cup {<<q.pkt, c, s[1].FCoefficient>> :
                                   c \in LevelsFor(q.pkt) \cup {s[1].FCoefficient}}

LEMMA LinksAre == Links \in Nat \ {0} /\ Links \in Rows /\ Links + 1 \in Rows /\ 1 \in Rows
BY LinkAssumption DEF Rows

LEMMA LinesAre ==
  ASSUME TypeOK
  PROVE  /\ Lines \in [Rows -> Seq(Part)] /\ Lines[Links + 1] = aWhat
         /\ \A h \in 1 .. Links : h \in Rows /\ Lines[h] = wire[h]
BY LinksAre DEF TypeOK, Lines, LinesOf, Rows

LEMMA PartsInFlight == TypeOK => InFlight \subseteq Part
<1> SUFFICES ASSUME TypeOK PROVE InFlight \subseteq Part
  OBVIOUS
<1>1. \A h \in Rows : Lines[h] \in Seq(Part)
  BY LinesAre
<1>2. \A h \in Rows : Elems(Lines[h]) \subseteq Part
  BY <1>1, ElementOfSeq DEF Elems
<1>3. QED
  BY <1>2 DEF InFlight, InRows

LEMMA LinkChanges ==
  ASSUME TypeOK, NEW h \in 1 .. Links, NEW t, wire' = [wire EXCEPT ![h] = t], aWhat' = aWhat
  PROVE  Replaced(Lines, Lines', h, t)
<1>1. h # Links + 1 /\ h \in Rows /\ \A g \in Rows : g # Links + 1 => g \in 1 .. Links
  BY LinksAre DEF Rows
<1>2. QED
  BY <1>1 DEF Lines, LinesOf, Replaced, TypeOK

LEMMA ListChanges ==
  ASSUME NEW t, wire' = wire, aWhat' = t
  PROVE  Replaced(Lines, Lines', Links + 1, t)
BY LinksAre DEF Lines, LinesOf, Replaced

(* Limit[h] and the parts kernel h puts on its link.                       *)
LEMMA NotedParts ==
  ASSUME NEW h \in 1 .. Links, NEW q \in Part, Counted(cut, q),
         Note(h, q, SplitIfNeed(q, Limit[h]))
  PROVE  LET parts == SplitIfNeed(q, Limit[h])
         IN /\ cut \subseteq cut'
            /\ parts \in Seq(Part) /\ Len(parts) \in Nat \ {0} /\ InOrder(cut', parts)
            /\ \A x \in Elems(parts) : IsPartOf(cut', x, q)
            /\ Divided(q, parts)
            /\ h # Links => levels' = levels
            /\ h = Links => levels' = levels \cup {<<q.pkt, c, parts[1].FCoefficient>> :
                                          c \in LevelsFor(q.pkt) \cup {parts[1].FCoefficient}}
<1> DEFINE parts == SplitIfNeed(q, Limit[h])
<1>1. /\ cut \subseteq cut'
      /\ q.FCoefficient * Len(parts) >= CounterMod => q.pkt \in cut'
  BY DEF Note
<1>2. Limit[h] \in Limits /\ Counted(cut', q)
  BY <1>1, LinkAssumption DEF Limits, Counted
<1>3. /\ h # Links => levels' = levels
      /\ h = Links => levels' = levels \cup {<<q.pkt, c, parts[1].FCoefficient>> :
                                    c \in LevelsFor(q.pkt) \cup {parts[1].FCoefficient}}
  BY DEF Note
<1>4. QED
  BY <1>1, <1>2, <1>3, PartsAre

(* Kernel h adds parts to its link.                                        *)
LEMMA ArrivingIs ==
  ASSUME TypeOK, NEW h \in 1 .. Links, NEW s \in Seq(Part), aWhat' = aWhat,
         wire'[h] = wire[h] \o s, h # Links => wire'[Links] = wire[Links]
  PROVE  Arriving' = IF h = Links THEN Arriving \cup Elems(s) ELSE Arriving
<1>1. CASE h = Links
  <2>1. PICK w : w = wire[Links]
    OBVIOUS
  <2>2. w \in Seq(Part) /\ wire'[Links] = w \o s
    BY <1>1, <2>1 DEF TypeOK
  <2>3. Elems(w \o s) = Elems(w) \cup Elems(s)
    BY <2>2, JoinedInOrder, ZenonT(30)
  <2>4. QED
    BY <1>1, <2>1, <2>2, <2>3 DEF Arriving
<1>2. CASE h # Links
  BY <1>2 DEF Arriving
<1>3. QED
  BY <1>1, <1>2

LEMMA WholeIs ==
  ASSUME NEW k \in Nat, NEW n \in Nat \ {0}
  PROVE  /\ Whole(k, n) \in Part /\ Whole(k, n).pkt = k /\ Whole(k, n).FIsLast
         /\ Begin(Whole(k, n)) = 0 /\ End(Whole(k, n)) = n
         /\ \A c : Counted(c, Whole(k, n))
<1> DEFINE d == [i \in 1 .. n |-> i]
           w == Whole(k, n)
<1>1. d \in Seq(Nat) /\ Len(d) = n /\ \A i \in 1 .. n : d[i] = i
  OBVIOUS
<1>2. w = [pkt |-> k, FCoefficient |-> 1, FCounter |-> 1, FIsLast |-> TRUE, data |-> d]
  BY DEF Whole
<1> HIDE DEF d
<1>3. /\ w \in Part /\ w.pkt = k /\ w.FIsLast /\ w.data = d
      /\ w.FCoefficient = 1 /\ w.FCounter = 1
  BY <1>1, <1>2 DEF Part
<1> HIDE DEF w
<1>4. Begin(w) = 0
  BY <1>1, <1>3 DEF Begin
<1>5. End(w) = n /\ Slice(w)
  BY <1>1, <1>3, <1>4 DEF End, Slice
<1>6. \A c : Counted(c, w)
  BY <1>3, <1>4, <1>5 DEF Counted
<1>7. QED
  BY <1>3, <1>4, <1>5, <1>6 DEF w

LEMMA SendMoves ==
  ASSUME TypeOK, Flow, \A q \in InFlight : q.pkt \in Packets, NEW n \in Sizes, MSendTo(n)
  PROVE  /\ TypeOK' /\ Flow' /\ cut \subseteq cut'
         /\ \A x \in InFlight' :
              x \in InFlight \/ (x.pkt = Len(sizeOf) + 1 /\ IsPartOf(cut', x, x))
         /\ \E s : Spread(Whole(Len(sizeOf) + 1, n), s)
<1> DEFINE k == Len(sizeOf) + 1
           packet == Whole(k, n)
           parts == SplitIfNeed(packet, Limit[1])
<1>1. /\ sizeOf' = Append(sizeOf, n)
      /\ wire' = [wire EXCEPT ![1] = @ \o parts]
      /\ Note(1, packet, parts)
      /\ UNCHANGED <<aWhat, FMergeOp, lost, arrived>>
  BY DEF MSendTo
<1>2. n \in Nat \ {0} /\ k \in Nat
  BY SizeAssumption, LenProperties DEF TypeOK
<1>3. packet \in Part /\ Counted(cut, packet) /\ packet.pkt = k
  BY <1>2, WholeIs
<1>4. 1 \in 1 .. Links /\ 1 \in Rows
  BY LinkAssumption DEF Rows
<1>5. /\ cut \subseteq cut'
      /\ parts \in Seq(Part) /\ Len(parts) \in Nat \ {0} /\ InOrder(cut', parts)
      /\ \A x \in Elems(parts) : IsPartOf(cut', x, packet)
      /\ Divided(packet, parts)
      /\ 1 # Links => levels' = levels
      /\ 1 = Links => levels' = levels \cup {<<packet.pkt, c, parts[1].FCoefficient>> :
                               c \in LevelsFor(packet.pkt) \cup {parts[1].FCoefficient}}
  BY <1>1, <1>3, <1>4, NotedParts
<1> HIDE DEF parts, packet, k
<1>6. \A x \in Elems(parts) : x.pkt = k /\ IsPartOf(cut', x, x)
  <2>1. \A x \in Elems(parts) : x \in Part
    BY <1>5, ElementOfSeq DEF Elems
  <2>2. \A x \in Elems(parts) : x.pkt = k /\ Counted(cut', x)
    BY <1>3, <1>5 DEF IsPartOf
  <2>3. QED
    BY <2>1, <2>2, StaysPart
<1>7. Lines \in [Rows -> Seq(Part)]
  BY LinesAre
<1>8. Replaced(Lines, Lines', 1, Lines[1] \o parts)
  <2>1. wire' = [wire EXCEPT ![1] = wire[1] \o parts] /\ aWhat' = aWhat
    BY <1>1
  <2>2. Replaced(Lines, Lines', 1, wire[1] \o parts)
    BY <1>4, <2>1, LinkChanges
  <2>3. Lines[1] = wire[1]
    BY <1>4, LinesAre
  <2>4. QED
    BY <2>2, <2>3
<1>9. ASSUME NEW g \in Rows PROVE AllPrecede(cut', Lines[g], parts)
  <2> SUFFICES ASSUME NEW q \in Elems(Lines[g]), NEW x \in Elems(parts)
               PROVE  Precedes(cut', q, x)
    BY DEF AllPrecede
  <2>1. q.pkt \in Packets /\ Len(sizeOf) \in Nat
    BY LenProperties DEF InFlight, InRows, TypeOK
  <2>2. q.pkt < x.pkt /\ q.pkt <= x.pkt /\ q.pkt # x.pkt
    BY <1>6, <2>1 DEF Packets, k
  <2>3. QED
    BY <2>2 DEF Precedes
<1>10. \A g \in Rows : ~(g < 1)
  BY DEF Rows
<1>11. Ordered(cut', Lines') /\ Grown(InRows(Lines), InRows(Lines'), Elems(parts))
  <2>1. cut \subseteq cut' /\ parts \in Seq(Part) /\ InOrder(cut', parts) /\ Ordered(cut, Lines)
    BY <1>5 DEF Flow
  <2>2. QED
    BY <1>4, <1>7, <1>8, <1>9, <1>10, <2>1, AddedInOrder
<1>12. \A x \in InFlight' : x \in InFlight \/ (x.pkt = k /\ IsPartOf(cut', x, x))
  BY <1>6, <1>11 DEF InFlight, Grown
<1>13. Flow'
  BY <1>5, <1>11, <1>12 DEF Flow, IsPartOf, Counted
<1>14. TypeOK'
  <2>1. sizeOf' \in Seq(Sizes) /\ Len(sizeOf') = k /\ Packets \subseteq Packets'
    <3>1. sizeOf \in Seq(Sizes) /\ Len(sizeOf) \in Nat
      BY LenProperties DEF TypeOK
    <3>2. sizeOf' \in Seq(Sizes) /\ Len(sizeOf') = Len(sizeOf) + 1
      BY <1>1, <3>1, AppendProperties
    <3>3. QED
      BY <3>1, <3>2 DEF Packets, k
  <2>2. wire[1] \o parts \in Seq(Part)
    BY <1>4, <1>5, ConcatProperties DEF TypeOK
  <2>3. wire' \in [1 .. Links -> Seq(Part)]
    BY <1>1, <2>2 DEF TypeOK
  <2>4. lost' \in Seq(Packets')
    <3>1. lost \in [1 .. Len(lost) -> Packets] /\ Len(lost) \in Nat
      BY LenProperties DEF TypeOK
    <3>2. lost \in [1 .. Len(lost) -> Packets']
      BY <2>1, <3>1
    <3>3. QED
      BY <1>1, <3>1, <3>2
  <2>5. QED
    BY <1>1, <2>1, <2>3, <2>4 DEF TypeOK
<1>15. Spread(packet, parts)
  <2>1. PICK h, q, t, w : h = 1 /\ q = packet /\ t = parts /\ w = wire[1]
    OBVIOUS
  <2>2. /\ wire'[h] = wire[h] \o t /\ (h # Links => wire'[Links] = wire[Links])
        /\ h \in 1 .. Links /\ t \in Seq(Part) /\ aWhat' = aWhat
    BY <1>1, <1>4, <1>5, <2>1, LinksAre DEF TypeOK
  <2>3. Arriving' = IF h = Links THEN Arriving \cup Elems(t) ELSE Arriving
    BY <2>2, ArrivingIs
  <2>4. /\ InFlight' \subseteq InFlight \cup Elems(t) /\ InFlight \subseteq InFlight'
        /\ Elems(t) \subseteq InFlight'
    BY <1>11, <2>1 DEF InFlight, Grown
  <2>5. /\ h # Links => levels' = levels
        /\ h = Links => levels' = levels \cup {<<q.pkt, c, t[1].FCoefficient>> :
                                      c \in LevelsFor(q.pkt) \cup {t[1].FCoefficient}}
    BY <1>5, <2>1
  <2>6. /\ t \in Seq(Part) /\ Len(t) \in Nat \ {0} /\ Divided(q, t)
        /\ \A x \in Elems(t) : IsPartOf(cut', x, q)
    BY <1>5, <2>1
  <2>7. ASSUME h = Links, NEW r \in Arriving, NEW x \in Elems(t) PROVE Precedes(cut', r, x)
    <3>1. PICK g \in Rows : r \in Elems(Lines[g])
      BY LinksAre, LinesAre DEF Arriving
    <3>2. QED
      BY <1>9, <2>1, <2>7, <3>1 DEF AllPrecede
  <2>8. Spread(q, t)
    BY <2>3, <2>4, <2>5, <2>6, <2>7 DEF Spread
  <2>9. QED
    BY <2>1, <2>8
<1>16. QED
  BY <1>5, <1>12, <1>13, <1>14, <1>15 DEF k, packet

(* The head of a link goes.                                                *)
LEMMA HeadGoes ==
  ASSUME TypeOK, Flow, NEW h \in 1 .. Links, wire[h] # <<>>,
         NEW M, Replaced(Lines, M, h, Tail(wire[h]))
  PROVE  LET q == Head(wire[h])
         IN /\ q \in Part /\ q \in InFlight /\ Tail(wire[h]) \in Seq(Part)
            /\ Ordered(cut, M) /\ InRows(M) \subseteq InFlight
            /\ Grown(InRows(M), InFlight, {q})
            /\ \A g \in Rows : g <= h => \A r \in Elems(M[g]) : Precedes(cut, q, r)
            /\ \A g \in Rows : g > h => \A r \in Elems(M[g]) : Precedes(cut, r, q)
<1> DEFINE q == Head(wire[h])
           u == Tail(wire[h])
           t == <<q>>
<1>1. Lines \in [Rows -> Seq(Part)] /\ h \in Rows /\ Lines[h] = wire[h] /\ wire[h] \in Seq(Part)
  BY LinesAre DEF TypeOK
<1>2. Ordered(cut, Lines) /\ InOrder(cut, wire[h])
  BY <1>1 DEF Flow, Ordered
<1>3. /\ u \in Seq(Part) /\ q \in Elems(wire[h]) /\ q \in Part
      /\ Elems(u) \subseteq Elems(wire[h]) /\ InOrder(cut, u)
      /\ Elems(wire[h]) = Elems(u) \cup {q}
      /\ \A r \in Elems(u) : Precedes(cut, q, r)
  BY <1>1, <1>2, HeadInOrder
<1> HIDE DEF u, q
<1>4. Elems(t) = {q}
  <2>1. Len(t) = 1 /\ t[1] = q
    OBVIOUS
  <2>2. QED
    BY <2>1 DEF Elems
<1> HIDE DEF t
<1>5. /\ Elems(t) \subseteq Elems(Lines[h]) /\ Elems(u) \subseteq Elems(Lines[h])
      /\ AllPrecede(cut, t, u) /\ Replaced(Lines, M, h, u)
  BY <1>1, <1>3, <1>4 DEF AllPrecede, u
<1>6. /\ Ordered(cut, M) /\ InRows(M) \subseteq InRows(Lines)
      /\ \A g \in Rows : g <= h => AllPrecede(cut, t, M[g])
      /\ \A g \in Rows : g > h => AllPrecede(cut, M[g], t)
  BY <1>1, <1>2, <1>3, <1>5, FrontIsFirst
<1>7. q \in InFlight
  BY <1>1, <1>3 DEF InFlight, InRows
<1>8. Grown(InRows(M), InFlight, {q})
  <2>1. PICK S : S = {q}
    OBVIOUS
  <2>2. M[h] = u /\ \A g \in Rows : g # h => Lines[g] = M[g]
    BY <1>5 DEF Replaced
  <2>3. Grown(Elems(M[h]), Elems(Lines[h]), S)
    BY <1>1, <1>3, <2>1, <2>2 DEF Grown
  <2>4. Grown(InRows(M), InRows(Lines), S)
    BY <1>1, <2>2, <2>3, RowsGrow
  <2>5. QED
    BY <2>1, <2>4 DEF InFlight
<1>9. QED
  BY <1>3, <1>4, <1>6, <1>7, <1>8 DEF AllPrecede, InFlight, q, u

LEMMA LoseMoves ==
  ASSUME TypeOK, Flow, \A q \in InFlight : q.pkt \in Packets, NEW h \in 1 .. Links, Lose(h)
  PROVE  /\ TypeOK' /\ Flow' /\ Moved
         /\ Head(wire[h]) \in InFlight /\ Dropped({Head(wire[h])})
         /\ \A r \in InFlight' : Precedes(cut, Head(wire[h]), r) \/ Precedes(cut, r, Head(wire[h]))
<1>1. /\ wire[h] # <<>> /\ lost' = Append(lost, Head(wire[h]).pkt)
      /\ wire' = [wire EXCEPT ![h] = Tail(wire[h])]
      /\ UNCHANGED <<sizeOf, aWhat, FMergeOp, arrived, levels, cut>>
  BY DEF Lose
<1>2. Replaced(Lines, Lines', h, Tail(wire[h]))
  BY <1>1, LinkChanges
<1>3. /\ Head(wire[h]) \in InFlight /\ Tail(wire[h]) \in Seq(Part)
      /\ Ordered(cut, Lines') /\ InRows(Lines') \subseteq InFlight
      /\ Grown(InRows(Lines'), InFlight, {Head(wire[h])})
      /\ \A g \in Rows : g <= h => \A r \in Elems(Lines'[g]) : Precedes(cut, Head(wire[h]), r)
      /\ \A g \in Rows : g > h => \A r \in Elems(Lines'[g]) : Precedes(cut, r, Head(wire[h]))
  BY <1>1, <1>2, HeadGoes
<1>4. Moved /\ Flow'
  <2>1. InFlight' \subseteq InFlight /\ cut' = cut
    BY <1>1, <1>3 DEF InFlight
  <2>2. \A x \in InFlight' : x \in InFlight /\ Counted(cut, x) /\ IsPartOf(cut', x, x)
    BY <2>1, StaysPart, PartsInFlight DEF Flow
  <2>3. QED
    BY <1>3, <2>1, <2>2 DEF Moved, Flow
<1>5. TypeOK'
  <2>1. Packets' = Packets /\ Head(wire[h]).pkt \in Packets
    BY <1>1, <1>3 DEF Packets
  <2>2. lost' \in Seq(Packets)
    BY <1>1, <2>1, AppendProperties DEF TypeOK
  <2>3. wire' \in [1 .. Links -> Seq(Part)]
    BY <1>1, <1>3 DEF TypeOK
  <2>4. QED
    BY <1>1, <2>1, <2>2, <2>3 DEF TypeOK
<1>6. Dropped({Head(wire[h])})
  <2>1. Elems(wire'[Links]) \subseteq Elems(wire[Links])
    <3>1. CASE h = Links
      <4>1. PICK s : s = wire[h]
        OBVIOUS
      <4>2. s \in Seq(Part) /\ s # <<>> /\ InOrder(cut, s)
        BY <1>1, <4>1, LinesAre DEF TypeOK, Flow, Ordered
      <4>3. Elems(Tail(s)) \subseteq Elems(s)
        BY <4>2, HeadInOrder
      <4>4. wire'[Links] = Tail(s)
        BY <1>1, <3>1, <4>1 DEF TypeOK
      <4>5. QED
        BY <3>1, <4>1, <4>3, <4>4
    <3>2. CASE h # Links
      BY <1>1, <3>2, LinksAre DEF TypeOK
    <3>3. QED
      BY <3>1, <3>2
  <2>2. Arriving' \subseteq Arriving
    BY <1>1, <2>1 DEF Arriving
  <2>3. QED
    BY <1>1, <1>3, <2>2 DEF Dropped, InFlight, Grown
<1>7. \A r \in InFlight' : Precedes(cut, Head(wire[h]), r) \/ Precedes(cut, r, Head(wire[h]))
  <2>1. \A g \in Rows : g <= h \/ g > h
    BY DEF Rows
  <2>2. QED
    BY <1>3, <2>1 DEF InFlight, InRows
<1>8. QED
  BY <1>3, <1>4, <1>5, <1>6, <1>7

LEMMA ForwardMoves ==
  ASSUME TypeOK, Flow, NEW h \in 1 .. Links - 1, Forward(h)
  PROVE  /\ TypeOK' /\ Flow' /\ Moved /\ cut \subseteq cut'
         /\ \E q \in InFlight : \E s : Spread(q, s)
<1> DEFINE q == Head(wire[h])
           parts == SplitIfNeed(q, Limit[h + 1])
           M == [Lines EXCEPT ![h] = Tail(wire[h])]
<1>1. /\ wire[h] # <<>> /\ wire' = [wire EXCEPT ![h] = Tail(@), ![h + 1] = @ \o parts]
      /\ Note(h + 1, q, parts)
      /\ UNCHANGED <<sizeOf, aWhat, FMergeOp, lost, arrived>>
  BY DEF Forward
<1>2. /\ h \in 1 .. Links /\ h + 1 \in 1 .. Links /\ h + 1 # h /\ h \in Rows /\ h + 1 \in Rows
      /\ h # Links + 1 /\ h + 1 # Links + 1
      /\ \A g \in Rows : g # Links + 1 => g \in 1 .. Links
  BY LinksAre DEF Rows
<1>3. /\ Lines \in [Rows -> Seq(Part)] /\ Lines[h + 1] = wire[h + 1]
  BY <1>2, LinesAre
<1>4. Replaced(Lines, M, h, Tail(wire[h]))
  BY <1>2, <1>3 DEF Replaced
<1>5. /\ q \in Part /\ q \in InFlight /\ Tail(wire[h]) \in Seq(Part)
      /\ Ordered(cut, M) /\ InRows(M) \subseteq InFlight
      /\ Grown(InRows(M), InFlight, {q})
      /\ \A g \in Rows : g <= h => \A r \in Elems(M[g]) : Precedes(cut, q, r)
      /\ \A g \in Rows : g > h => \A r \in Elems(M[g]) : Precedes(cut, r, q)
  <2> HIDE DEF M
  <2>1. QED
    BY <1>1, <1>2, <1>4, HeadGoes
<1>6. Counted(cut, q)
  BY <1>5 DEF Flow
<1>7. /\ cut \subseteq cut' /\ parts \in Seq(Part) /\ InOrder(cut', parts)
      /\ \A x \in Elems(parts) : IsPartOf(cut', x, q)
  BY <1>1, <1>2, <1>5, <1>6, NotedParts
<1>8. /\ Len(parts) \in Nat \ {0} /\ Divided(q, parts)
      /\ h + 1 # Links => levels' = levels
      /\ h + 1 = Links => levels' = levels \cup {<<q.pkt, c, parts[1].FCoefficient>> :
                                    c \in LevelsFor(q.pkt) \cup {parts[1].FCoefficient}}
  <2>1. PICK g : g = h + 1
    OBVIOUS
  <2>2. g \in 1 .. Links /\ Note(g, q, SplitIfNeed(q, Limit[g])) /\ parts = SplitIfNeed(q, Limit[g])
    BY <1>1, <1>2, <2>1
  <2> HIDE DEF parts
  <2>3. /\ Len(parts) \in Nat \ {0} /\ Divided(q, parts)
        /\ g # Links => levels' = levels
        /\ g = Links => levels' = levels \cup {<<q.pkt, c, parts[1].FCoefficient>> :
                                      c \in LevelsFor(q.pkt) \cup {parts[1].FCoefficient}}
    BY <1>5, <1>6, <2>2, NotedParts
  <2>4. QED
    BY <2>1, <2>3
<1> HIDE DEF parts, q
<1>9. M \in [Rows -> Seq(Part)] /\ Replaced(M, Lines', h + 1, M[h + 1] \o parts)
  <2>1. M \in [Rows -> Seq(Part)] /\ M[h + 1] = wire[h + 1]
    BY <1>2, <1>3, <1>5
  <2>2. ASSUME NEW g \in Rows, g # h + 1 PROVE Lines'[g] = M[g]
    BY <1>1, <1>2, <2>2 DEF Lines, LinesOf, TypeOK
  <2>3. Lines'[h + 1] = wire[h + 1] \o parts
    BY <1>1, <1>2 DEF Lines, LinesOf, TypeOK
  <2>4. QED
    BY <2>1, <2>2, <2>3 DEF Replaced
<1> HIDE DEF M
<1>10. /\ \A x \in Elems(parts) : x \in Part /\ IsPartOf(cut', x, q)
       /\ \A r \in InRows(M) : r \in Part /\ Counted(cut, r)
       /\ \A g \in Rows : Elems(M[g]) \subseteq InRows(M)
  <2>1. \A x \in Elems(parts) : x \in Part
    BY <1>7, ElementOfSeq DEF Elems
  <2>2. QED
    BY <1>5, <1>7, <2>1, PartsInFlight DEF Flow, InRows
<1>11. ASSUME NEW g \in Rows, g < h + 1 PROVE AllPrecede(cut', parts, M[g])
  <2>1. g <= h
    BY <1>2, <1>11 DEF Rows
  <2> SUFFICES ASSUME NEW x \in Elems(parts), NEW r \in Elems(M[g]) PROVE Precedes(cut', x, r)
    BY DEF AllPrecede
  <2>2. Precedes(cut, q, r) /\ r \in Part /\ Counted(cut, r) /\ x \in Part /\ IsPartOf(cut', x, q)
    BY <1>5, <1>10, <2>1
  <2>3. QED
    BY <1>5, <1>6, <1>7, <2>2, PartsTakePlace
<1>12. ASSUME NEW g \in Rows, g >= h + 1 PROVE AllPrecede(cut', M[g], parts)
  <2>1. g > h
    BY <1>2, <1>12 DEF Rows
  <2> SUFFICES ASSUME NEW x \in Elems(parts), NEW r \in Elems(M[g]) PROVE Precedes(cut', r, x)
    BY DEF AllPrecede
  <2>2. Precedes(cut, r, q) /\ r \in Part /\ Counted(cut, r) /\ x \in Part /\ IsPartOf(cut', x, q)
    BY <1>5, <1>10, <2>1
  <2>3. QED
    BY <1>5, <1>6, <1>7, <2>2, PartsTakePlace
<1>13. Ordered(cut', Lines') /\ Grown(InRows(M), InRows(Lines'), Elems(parts))
  BY <1>2, <1>5, <1>7, <1>9, <1>11, <1>12, AddedInOrder
<1>14. Moved
  <2> SUFFICES ASSUME NEW x \in InFlight' PROVE \E r \in InFlight : IsPartOf(cut', x, r)
    BY DEF Moved
  <2>1. CASE x \in Elems(parts)
    BY <1>5, <1>7, <2>1
  <2>2. CASE x \in InFlight
    BY <1>7, <2>2, StaysPart, PartsInFlight DEF Flow
  <2>3. QED
    BY <1>5, <1>13, <2>1, <2>2 DEF InFlight, Grown
<1>15. Flow'
  BY <1>13, <1>14 DEF Flow, Moved, IsPartOf
<1>16. TypeOK'
  <2>1. wire[h + 1] \o parts \in Seq(Part)
    BY <1>2, <1>7, ConcatProperties DEF TypeOK
  <2>2. wire' \in [1 .. Links -> Seq(Part)]
    BY <1>1, <1>2, <1>5, <2>1 DEF TypeOK
  <2>3. Packets' = Packets
    BY <1>1 DEF Packets
  <2>4. QED
    BY <1>1, <2>2, <2>3 DEF TypeOK
<1>17. Spread(q, parts)
  <2>1. PICK g, t : g = h + 1 /\ t = parts
    OBVIOUS
  <2>2. /\ wire'[g] = wire[g] \o t /\ (g # Links => wire'[Links] = wire[Links])
        /\ g \in 1 .. Links /\ t \in Seq(Part) /\ aWhat' = aWhat
    <3>1. h # Links
      BY LinksAre
    <3>2. QED
      BY <1>1, <1>2, <1>7, <2>1, <3>1, LinksAre, SMTT(30) DEF TypeOK
  <2>3. Arriving' = IF g = Links THEN Arriving \cup Elems(t) ELSE Arriving
    BY <2>2, ArrivingIs
  <2>4. /\ InFlight' \subseteq InFlight \cup Elems(t) /\ InFlight \subseteq InFlight' \cup {q}
        /\ Elems(t) \subseteq InFlight'
    BY <1>5, <1>13, <2>1 DEF InFlight, Grown
  <2>5. /\ g # Links => levels' = levels
        /\ g = Links => levels' = levels \cup {<<q.pkt, c, t[1].FCoefficient>> :
                                      c \in LevelsFor(q.pkt) \cup {t[1].FCoefficient}}
    BY <1>8, <2>1
  <2>6. /\ t \in Seq(Part) /\ Len(t) \in Nat \ {0} /\ Divided(q, t)
        /\ \A x \in Elems(t) : IsPartOf(cut', x, q)
    BY <1>7, <1>8, <2>1
  <2>7. ASSUME g = Links, NEW r \in Arriving, NEW x \in Elems(t) PROVE Precedes(cut', r, x)
    <3>1. M[Links] = wire[Links] /\ M[Links + 1] = aWhat
      BY <1>2, <1>4, <2>1, <2>7, LinesAre, LinksAre DEF Replaced
    <3>2. PICK k \in Rows : k >= h + 1 /\ r \in Elems(M[k])
      BY <2>1, <2>7, <3>1, LinksAre DEF Arriving
    <3>3. QED
      BY <1>12, <2>1, <3>2 DEF AllPrecede
  <2>8. Spread(q, t)
    BY <2>3, <2>4, <2>5, <2>6, <2>7 DEF Spread
  <2>9. QED
    BY <2>1, <2>8
<1>18. QED
  BY <1>5, <1>7, <1>14, <1>15, <1>16, <1>17

LEMMA ReceiveMoves ==
  ASSUME TypeOK, Flow, \A q \in InFlight : q.pkt \in Packets, NEW n, Receive(n)
  PROVE  /\ TypeOK' /\ Flow' /\ Moved /\ aWhat = <<>> /\ Dropped({})
         /\ \A p \in arrived' : p \in arrived \/ \E q \in Elems(aWhat') : q.pkt = p
<1> DEFINE t == SubSeq(wire[Links], 1, n)
           u == SubSeq(wire[Links], n + 1, Len(wire[Links]))
           M == [Lines EXCEPT ![Links] = u]
<1>1. /\ aWhat = <<>> /\ n \in 1 .. Len(wire[Links]) /\ aWhat' = t
      /\ wire' = [wire EXCEPT ![Links] = u]
      /\ arrived' = arrived \cup {t[i].pkt : i \in 1 .. n}
      /\ UNCHANGED <<sizeOf, FMergeOp, lost, levels, cut>>
  BY DEF Receive
<1>2. /\ Links \in 1 .. Links /\ Links \in Rows /\ Links + 1 \in Rows /\ Links # Links + 1
      /\ \A g \in Rows : g # Links + 1 => g \in 1 .. Links
  BY LinksAre DEF Rows
<1>3. /\ Lines \in [Rows -> Seq(Part)] /\ Lines[Links] = wire[Links] /\ Lines[Links + 1] = <<>>
      /\ wire[Links] \in Seq(Part) /\ Ordered(cut, Lines) /\ InOrder(cut, wire[Links])
  BY <1>1, <1>2, LinesAre DEF TypeOK, Flow, Ordered
<1>4. Len(wire[Links]) \in Nat /\ n \in 0 .. Len(wire[Links])
  BY <1>1, <1>3, LenProperties
<1>5. /\ t \in Seq(Part) /\ u \in Seq(Part) /\ Len(t) = n
      /\ Elems(t) \subseteq Elems(wire[Links]) /\ Elems(u) \subseteq Elems(wire[Links])
      /\ Elems(wire[Links]) = Elems(u) \cup Elems(t)
      /\ InOrder(cut, t) /\ InOrder(cut, u) /\ AllPrecede(cut, t, u)
  BY <1>3, <1>4, DividedInOrder
<1> HIDE DEF t, u
<1>6. /\ M \in [Rows -> Seq(Part)] /\ Replaced(Lines, M, Links, u) /\ M[Links + 1] = <<>>
      /\ Elems(t) \subseteq Elems(Lines[Links]) /\ Elems(u) \subseteq Elems(Lines[Links])
  BY <1>2, <1>3, <1>5 DEF Replaced
<1>7. Replaced(M, Lines', Links + 1, M[Links + 1] \o t)
  <2>1. ASSUME NEW g \in Rows, g # Links + 1 PROVE Lines'[g] = M[g]
    BY <1>1, <1>2, <2>1 DEF Lines, LinesOf, TypeOK
  <2>2. Lines'[Links + 1] = t
    BY <1>1, <1>2 DEF Lines, LinesOf
  <2>3. <<>> \o t = t
    BY <1>5, ConcatEmptySeq
  <2>4. QED
    BY <1>6, <2>1, <2>2, <2>3 DEF Replaced
<1> HIDE DEF M
<1>8. /\ Ordered(cut, M) /\ InRows(M) \subseteq InRows(Lines)
      /\ \A g \in Rows : g <= Links => AllPrecede(cut, t, M[g])
      /\ \A g \in Rows : g > Links => AllPrecede(cut, M[g], t)
  BY <1>2, <1>3, <1>5, <1>6, FrontIsFirst
<1>9. /\ \A g \in Rows : g < Links + 1 => AllPrecede(cut, t, M[g])
      /\ \A g \in Rows : g >= Links + 1 => AllPrecede(cut, M[g], t)
  BY <1>8, LinksAre DEF Rows
<1>10. Ordered(cut, Lines') /\ Grown(InRows(M), InRows(Lines'), Elems(t))
  BY <1>2, <1>5, <1>6, <1>7, <1>8, <1>9, AddedInOrder
<1>11. InFlight' \subseteq InFlight /\ InFlight \subseteq InFlight'
  <2>1. \A g \in Rows : g # Links => Lines[g] = M[g]
    BY <1>6 DEF Replaced
  <2>2. Grown(Elems(M[Links]), Elems(Lines[Links]), Elems(t))
    BY <1>3, <1>5, <1>6 DEF Grown, Replaced
  <2>3. Grown(InRows(M), InRows(Lines), Elems(t))
    BY <1>2, <2>1, <2>2, RowsGrow
  <2>4. QED
    BY <1>10, <2>3 DEF InFlight, Grown
<1>12. Dropped({})
  <2>1. wire'[Links] = u
    BY <1>1, <1>2 DEF TypeOK
  <2>2. Arriving' \subseteq Arriving
    BY <1>1, <1>5, <2>1 DEF Arriving
  <2>3. QED
    BY <1>1, <1>11, <2>2 DEF Dropped
<1>13. Moved /\ Flow'
  <2>1. \A x \in InFlight' : x \in InFlight /\ Counted(cut, x) /\ IsPartOf(cut', x, x)
    BY <1>1, <1>11, StaysPart, PartsInFlight DEF Flow
  <2>2. QED
    BY <1>1, <1>10, <2>1 DEF Moved, Flow
<1>14. \A i \in 1 .. n : t[i] \in Elems(t) /\ t[i].pkt \in Packets
  <2>1. \A i \in 1 .. n : t[i] \in Elems(t)
    BY <1>5 DEF Elems
  <2>2. Elems(t) \subseteq InFlight
    BY <1>2, <1>6 DEF InFlight, InRows
  <2>3. QED
    BY <2>1, <2>2
<1>15. TypeOK'
  <2>1. Packets' = Packets /\ arrived' \subseteq Packets
    BY <1>1, <1>14 DEF Packets, TypeOK
  <2>2. wire' \in [1 .. Links -> Seq(Part)]
    BY <1>1, <1>5 DEF TypeOK
  <2>3. QED
    BY <1>1, <1>5, <2>1, <2>2 DEF TypeOK
<1>16. QED
  BY <1>1, <1>12, <1>13, <1>14, <1>15

(* The first k parts of the list are handled.                              *)
LEMMA ListShrinks ==
  ASSUME TypeOK, Flow, NEW k \in 1 .. Len(aWhat), wire' = wire, cut' = cut,
         aWhat' = SubSeq(aWhat, k + 1, Len(aWhat))
  PROVE  /\ aWhat' \in Seq(Part) /\ Flow' /\ InFlight' \subseteq InFlight
         /\ \A i \in 1 .. k : /\ aWhat[i] \in InFlight
                              /\ \A r \in InFlight' : Precedes(cut, aWhat[i], r)
         /\ \A q \in InFlight : q \in InFlight' \/ \E i \in 1 .. k : q = aWhat[i]
         /\ Arriving' \subseteq Arriving
<1> DEFINE t == SubSeq(aWhat, 1, k)
<1>1. /\ Lines[Links + 1] = aWhat /\ Links + 1 \in Rows
      /\ aWhat \in Seq(Part) /\ Ordered(cut, Lines) /\ InOrder(cut, aWhat)
  BY LinesAre, LinksAre DEF TypeOK, Flow, Ordered
<1>2. Len(aWhat) \in Nat /\ k \in 0 .. Len(aWhat)
  BY <1>1, LenProperties
<1>3. /\ t \in Seq(Part) /\ aWhat' \in Seq(Part) /\ Len(t) = k /\ \A i \in 1 .. k : t[i] = aWhat[i]
      /\ Elems(t) \subseteq Elems(aWhat) /\ Elems(aWhat') \subseteq Elems(aWhat)
      /\ Elems(aWhat) = Elems(aWhat') \cup Elems(t)
      /\ InOrder(cut, aWhat') /\ AllPrecede(cut, t, aWhat')
  BY <1>1, <1>2, DividedInOrder
<1> HIDE DEF t
<1>4. PICK u : u = aWhat'
  OBVIOUS
<1>5. Replaced(Lines, Lines', Links + 1, u)
  BY <1>4, ListChanges
<1>6. /\ Elems(t) \subseteq Elems(Lines[Links + 1]) /\ Elems(u) \subseteq Elems(Lines[Links + 1])
      /\ InOrder(cut, u) /\ AllPrecede(cut, t, u)
  BY <1>1, <1>3, <1>4
<1>7. /\ Ordered(cut, Lines') /\ InRows(Lines') \subseteq InRows(Lines)
      /\ \A g \in Rows : g <= Links + 1 => AllPrecede(cut, t, Lines'[g])
  BY <1>1, <1>5, <1>6, FrontIsFirst
<1>8. \A g \in Rows : AllPrecede(cut, t, Lines'[g])
  BY <1>7, LinksAre DEF Rows
<1>9. \A i \in 1 .. k : t[i] \in Elems(t) /\ aWhat[i] = t[i]
  BY <1>3 DEF Elems
<1>10. \A q \in Elems(t), r \in InFlight' : Precedes(cut, q, r)
  BY <1>8 DEF InFlight, InRows, AllPrecede
<1>11. Elems(t) \subseteq InFlight
  BY <1>1, <1>6 DEF InFlight, InRows
<1>12. Flow' /\ InFlight' \subseteq InFlight
  BY <1>7 DEF Flow, InFlight
<1>13. \A q \in InFlight : q \in InFlight' \/ \E i \in 1 .. k : q = aWhat[i]
  <2>1. Grown(Elems(u), Elems(aWhat), Elems(t)) /\ Lines'[Links + 1] = u
    BY <1>3, <1>4, <1>5 DEF Grown, Replaced
  <2>2. PICK L : L = Lines'
    OBVIOUS
  <2>3. /\ \A g \in Rows : g # Links + 1 => Lines[g] = L[g]
        /\ Grown(Elems(L[Links + 1]), Elems(Lines[Links + 1]), Elems(t))
    BY <1>1, <1>5, <2>1, <2>2 DEF Replaced
  <2>4. Grown(InRows(L), InRows(Lines), Elems(t))
    BY <1>1, <2>3, RowsGrow
  <2>5. InFlight \subseteq InFlight' \cup Elems(t)
    BY <2>2, <2>4 DEF Grown, InFlight
  <2>6. \A q \in Elems(t) : \E i \in 1 .. k : q = aWhat[i]
    BY <1>3 DEF Elems
  <2>7. QED
    BY <2>5, <2>6
<1>14. Arriving' \subseteq Arriving
  BY <1>3 DEF Arriving
<1>15. QED
  BY <1>3, <1>9, <1>10, <1>11, <1>12, <1>13, <1>14

(* The head of the list is the next of all.                                *)
LEMMA HeadIsFirst ==
  ASSUME TypeOK, Flow, aWhat # <<>>
  PROVE  /\ Len(aWhat) \in Nat \ {0} /\ Head(aWhat) = aWhat[1] /\ aWhat[1] \in InFlight
         /\ \A q \in InFlight : q = aWhat[1] \/ Precedes(cut, aWhat[1], q)
<1>1. /\ Lines[Links + 1] = aWhat /\ Links + 1 \in Rows
      /\ aWhat \in Seq(Part) /\ Ordered(cut, Lines) /\ InOrder(cut, aWhat)
  BY LinesAre, LinksAre DEF TypeOK, Flow, Ordered
<1>2. Len(aWhat) \in Nat \ {0} /\ Head(aWhat) = aWhat[1]
  BY <1>1, EmptySeq
<1>3. aWhat[1] \in Elems(aWhat)
  BY <1>2 DEF Elems
<1>4. ASSUME NEW g \in Rows, NEW q \in Elems(Lines[g])
      PROVE  q = aWhat[1] \/ Precedes(cut, aWhat[1], q)
  <2>1. CASE g = Links + 1
    <3>1. PICK i \in 1 .. Len(aWhat) : q = aWhat[i]
      BY <1>1, <2>1 DEF Elems
    <3>2. CASE i = 1
      BY <3>1, <3>2
    <3>3. CASE i # 1
      <4>1. 1 < i /\ 1 \in 1 .. Len(aWhat)
        BY <1>2, <3>3
      <4>2. QED
        BY <1>1, <3>1, <4>1 DEF InOrder
    <3>4. QED
      BY <3>2, <3>3
  <2>2. CASE g # Links + 1
    <3>1. g < Links + 1
      BY <2>2, LinksAre DEF Rows
    <3>2. AllPrecede(cut, Lines[Links + 1], Lines[g])
      BY <1>1, <3>1 DEF Ordered
    <3>3. QED
      BY <1>1, <1>3, <3>2 DEF AllPrecede
  <2>3. QED
    BY <2>1, <2>2
<1>5. QED
  BY <1>1, <1>2, <1>3, <1>4 DEF InFlight, InRows

(* MMerge takes the parts of one packet from the front of the list.        *)
LEMMA RunIs ==
  ASSUME NEW T, aWhat \in Seq(T), aWhat # <<>>
  PROVE  \E n \in 1 .. Len(aWhat) :
           /\ Run = SubSeq(aWhat, 1, n)
           /\ Len(Run) = n /\ \A i \in 1 .. n : Run[i] = aWhat[i] /\ aWhat[i].pkt = aWhat[1].pkt
<1> DEFINE Fits(n) == /\ \A i \in 1 .. n : aWhat[i].pkt = aWhat[1].pkt
                      /\ n < Len(aWhat) => aWhat[n + 1].pkt # aWhat[1].pkt
           Ends == {n \in 1 .. Len(aWhat) :
                      n < Len(aWhat) => aWhat[n + 1].pkt # aWhat[1].pkt}
           m == CHOOSE n \in 1 .. Len(aWhat) : Fits(n)
<1>1. Len(aWhat) \in Nat \ {0} /\ \A i \in 1 .. Len(aWhat) : aWhat[i] \in T
  BY EmptySeq, ElementOfSeq
<1>2. Ends \subseteq Nat /\ Len(aWhat) \in Ends
  BY <1>1
<1>3. PICK n \in Ends : \A y \in Ends : n <= y
  BY <1>2, LeastElement
<1>4. n \in 1 .. Len(aWhat) /\ (n < Len(aWhat) => aWhat[n + 1].pkt # aWhat[1].pkt)
  BY <1>3
<1>5. ASSUME NEW i \in 1 .. n PROVE aWhat[i].pkt = aWhat[1].pkt
  <2>1. CASE i = 1
    BY <2>1
  <2>2. CASE i # 1
    <3>1. i - 1 \in 1 .. Len(aWhat) /\ ~(n <= i - 1) /\ i - 1 < Len(aWhat) /\ (i - 1) + 1 = i
      BY <1>1, <1>4, <2>2
    <3>2. i - 1 \notin Ends
      BY <1>3, <3>1
    <3>3. QED
      BY <3>1, <3>2
  <2>3. QED
    BY <2>1, <2>2
<1>6. \E r \in 1 .. Len(aWhat) : Fits(r)
  BY <1>4, <1>5
<1> HIDE DEF Fits
<1>7. m \in 1 .. Len(aWhat) /\ Fits(m)
  BY <1>6
<1>8. Run = SubSeq(aWhat, 1, m)
  BY DEF Run, Fits
<1> HIDE DEF m
<1>9. 1 \in Int /\ m \in Int /\ \A i \in 1 .. m : i \in 1 .. Len(aWhat) /\ aWhat[i] \in T
  BY <1>1, <1>7
<1>10. /\ Len(Run) = (IF 1 <= m THEN m - 1 + 1 ELSE 0)
       /\ \A i \in 1 .. m - 1 + 1 : Run[i] = aWhat[1 + i - 1]
  BY <1>8, <1>9, SubSeqProperties
<1>11. Len(Run) = m /\ \A i \in 1 .. m : Run[i] = aWhat[i] /\ aWhat[i].pkt = aWhat[1].pkt
  BY <1>7, <1>9, <1>10 DEF Fits
<1>12. QED
  BY <1>7, <1>8, <1>11

-----------------------------------------------------------------------------
(* What becomes of a packet.                                               *)

OutType == \E T : out \in Seq(T)
OpType == FMergeOp = [pkt |-> FMergeOp.pkt, buf |-> FMergeOp.buf,
                      FSplitLevel |-> FMergeOp.FSplitLevel]

(* Packets under way are later than those given to the customer and not    *)
(* earlier than the one that is merged; the first part of a packet comes   *)
(* before anything is known of it.                                         *)
FateAhead(q) ==
  /\ q.pkt \in Packets
  /\ \A n \in 1 .. Len(out) : out[n].pkt < q.pkt
  /\ FMergeOp.pkt <= q.pkt
  /\ First(cut, q) => ~Reported(q.pkt) /\ FMergeOp.pkt # q.pkt

(* The packet that is merged has no fate yet.                              *)
MergeIsOpen ==
  (FMergeOp # NoOp /\ FMergeOp.pkt \notin cut) =>
    ~Reported(FMergeOp.pkt) /\ \A n \in 1 .. Len(out) : out[n].pkt # FMergeOp.pkt

FatesAreSent ==
  /\ \A p : Reported(p) => p \in Packets
  /\ \A n \in 1 .. Len(out) : out[n].pkt \in Packets

(* The customer is given packets in their order, and its kernel reports    *)
(* none of them.                                                           *)
FatesDiffer ==
  /\ \A i, j \in DOMAIN out : i < j => out[i].pkt < out[j].pkt
  /\ \A i \in DOMAIN out : Reported(out[i].pkt) => out[i].pkt \in cut

Fates == (\A q \in InFlight : FateAhead(q)) /\ MergeIsOpen /\ FatesAreSent /\ FatesDiffer

LEMMA OutIs == OutType => Len(out) \in Nat /\ DOMAIN out = 1 .. Len(out)
BY LenProperties DEF OutType

LEMMA Delivers ==
  ASSUME OutType, NEW o, out' = Append(out, o)
  PROVE  /\ OutType' /\ Len(out') = Len(out) + 1 /\ Len(out) \in Nat
         /\ DOMAIN out = 1 .. Len(out) /\ DOMAIN out' = 1 .. Len(out) + 1
         /\ out'[Len(out) + 1] = o /\ \A n \in 1 .. Len(out) : out'[n] = out[n]
<1>1. PICK T : out \in Seq(T)
  BY DEF OutType
<1>2. out \in [1 .. Len(out) -> T] /\ Len(out) \in Nat
  BY <1>1, LenProperties
<1>3. out \in [1 .. Len(out) -> T \cup {o}]
  BY <1>2
<1>4. out \in Seq(T \cup {o}) /\ o \in T \cup {o}
  BY <1>2, <1>3
<1> DEFINE S == T \cup {o}
<1> HIDE DEF S
<1>5. out \in Seq(S) /\ o \in S
  BY <1>4 DEF S
<1>6. /\ out' \in Seq(S) /\ Len(out') = Len(out) + 1
      /\ \A n \in 1 .. Len(out) : out'[n] = out[n]
      /\ out'[Len(out) + 1] = o
  BY <1>5, AppendProperties
<1>7. DOMAIN out' = 1 .. Len(out') /\ DOMAIN out = 1 .. Len(out)
  BY <1>5, <1>6, LenProperties
<1>8. QED
  BY <1>2, <1>6, <1>7 DEF OutType

LEMMA ReportAdds ==
  ASSUME NEW p, NEW e, reported' = reported \cup {<<p, e>>}
  PROVE  /\ \A x : Reported(x)' => Reported(x) \/ x = p
         /\ \A x : Reported(x) => Reported(x)'
         /\ e \in {"E_PACKET_LOST", "E_DATA_TOO_LARGE"} => Reported(p)'
BY DEF Reported

(* What a kernel on the way reports is none of the fails that the          *)
(* customer's kernel reports.                                              *)
LEMMA RefusalReports ==
  ASSUME reported' = reported \/ \E x : reported' = reported \cup {<<x, SendError>>}
  PROVE  \A p : \A e \in {"E_PACKET_LOST", "E_DATA_TOO_LARGE"} :
           (<<p, e>> \in reported') <=> (<<p, e>> \in reported)
BY DEF SendError

LEMMA ReportsStay ==
  ASSUME reported' = reported \/ \E x : reported' = reported \cup {<<x, SendError>>}
  PROVE  \A p : Reported(p)' = Reported(p)
BY RefusalReports DEF Reported

(* Parts that move on keep what is ahead of them.                          *)
LEMMA MoveKeepsFates ==
  ASSUME Fates, Moved, cut \subseteq cut', UNCHANGED <<out, FMergeOp, sizeOf>>,
         \A p : Reported(p)' = Reported(p)
  PROVE  Fates'
<1>1. \A p : Reported(p)' = Reported(p)
  OBVIOUS
<1>2. Packets' = Packets
  BY DEF Packets
<1>3. ASSUME NEW x \in InFlight' PROVE FateAhead(x)'
  <2>1. PICK q \in InFlight : IsPartOf(cut', x, q)
    BY DEF Moved
  <2>2. FateAhead(q) /\ x.pkt = q.pkt /\ (First(cut', x) => First(cut, q))
    BY <2>1 DEF Fates, IsPartOf, First
  <2>3. QED
    BY <1>1, <1>2, <2>2 DEF FateAhead
<1>4. MergeIsOpen'
  BY <1>1 DEF Fates, MergeIsOpen
<1>5. FatesAreSent'
  BY <1>1, <1>2 DEF Fates, FatesAreSent
<1>6. FatesDiffer'
  BY <1>1 DEF Fates, FatesDiffer
<1>7. QED
  BY <1>3, <1>4, <1>5, <1>6 DEF Fates

(* A new packet has no fate.                                               *)
LEMMA SendKeepsFates ==
  ASSUME TypeOK, OutType, Fates, Flow, NEW n \in Sizes, MSendTo(n)
  PROVE  Fates'
<1> DEFINE k == Len(sizeOf) + 1
<1>1. UNCHANGED <<out, FMergeOp, reported>> /\ sizeOf' = Append(sizeOf, n)
  BY DEF MSendTo
<1>2. \A q \in InFlight : q.pkt \in Packets
  BY DEF Fates, FateAhead
<1>3. /\ cut \subseteq cut'
      /\ \A x \in InFlight' : x \in InFlight \/ x.pkt = k
  BY <1>2, SendMoves
<1>4. \A p : Reported(p)' = Reported(p)
  BY <1>1 DEF Reported
<1>5. Len(sizeOf) \in Nat /\ Len(sizeOf') = k /\ Packets \subseteq Packets'
  <2>1. sizeOf \in Seq(Sizes) /\ Len(sizeOf) \in Nat
    BY LenProperties DEF TypeOK
  <2>2. Len(sizeOf') = Len(sizeOf) + 1
    BY <1>1, <2>1, AppendProperties
  <2>3. QED
    BY <2>1, <2>2 DEF Packets
<1>6. ASSUME NEW x \in InFlight' PROVE FateAhead(x)'
  <2>1. CASE x \in InFlight
    <3>1. FateAhead(x) /\ (First(cut', x) => First(cut, x))
      BY <1>3, <2>1 DEF Fates, First
    <3>2. QED
      BY <1>1, <1>4, <1>5, <3>1 DEF FateAhead
  <2>2. CASE x.pkt = k
    <3>1. k \in Packets' /\ \A p \in Packets : p < k
      BY <1>5 DEF Packets
    <3>2. FMergeOp.pkt < k
      <4>1. CASE FMergeOp = NoOp
        BY <1>5, <4>1 DEF NoOp
      <4>2. CASE FMergeOp # NoOp
        BY <3>1, <4>2 DEF TypeOK
      <4>3. QED
        BY <4>1, <4>2
    <3>3. FMergeOp.pkt \in Nat
      BY <1>5 DEF TypeOK, NoOp, Packets
    <3>4. k \notin Packets
      BY <1>5 DEF Packets
    <3>5. ~Reported(k)
      BY <3>4 DEF Fates, FatesAreSent
    <3>6. \A i \in 1 .. Len(out) : out[i].pkt < k
      BY <3>1 DEF Fates, FatesAreSent
    <3> HIDE DEF k
    <3>7. FMergeOp.pkt <= k /\ FMergeOp.pkt # k
      BY <1>5, <3>2, <3>3
    <3>8. QED
      BY <1>1, <1>4, <2>2, <3>1, <3>5, <3>6, <3>7 DEF FateAhead
  <2>3. QED
    BY <1>3, <2>1, <2>2
<1>7. MergeIsOpen'
  BY <1>1, <1>3, <1>4 DEF Fates, MergeIsOpen
<1>8. FatesAreSent'
  BY <1>1, <1>4, <1>5 DEF Fates, FatesAreSent
<1>9. FatesDiffer'
  BY <1>1, <1>3, <1>4 DEF Fates, FatesDiffer
<1>10. QED
  BY <1>6, <1>7, <1>8, <1>9 DEF Fates

(* The merge ends, or it is the one of another packet.                     *)
MergeAside(p) == FMergeOp' = NoOp \/ (FMergeOp' = FMergeOp /\ (FMergeOp.pkt = p => p \in cut))

LEMMA AsideIsBelow ==
  ASSUME NEW p, MergeAside(p), NEW q \in InFlight, FateAhead(q)
  PROVE  /\ FMergeOp'.pkt <= q.pkt
         /\ First(cut, q) => FMergeOp'.pkt # q.pkt
<1>1. q.pkt \in Nat /\ q.pkt > 0
  BY DEF FateAhead, Packets
<1>2. CASE FMergeOp' = NoOp
  BY <1>1, <1>2 DEF NoOp
<1>3. CASE FMergeOp' = FMergeOp
  BY <1>3 DEF FateAhead
<1>4. QED
  BY <1>2, <1>3 DEF MergeAside

LEMMA DeliverKeepsFates ==
  ASSUME OutType, Fates, InFlight' \subseteq InFlight, UNCHANGED <<cut, sizeOf, reported>>,
         NEW p \in Packets, NEW d, out' = Append(out, [pkt |-> p, data |-> d]),
         \A n \in 1 .. Len(out) : out[n].pkt < p, Reported(p) => p \in cut,
         \A r \in InFlight' : p < r.pkt, MergeAside(p)
  PROVE  OutType' /\ Fates'
<1>1. /\ OutType' /\ Len(out') = Len(out) + 1 /\ Len(out) \in Nat
      /\ DOMAIN out = 1 .. Len(out) /\ DOMAIN out' = 1 .. Len(out) + 1
      /\ out'[Len(out) + 1] = [pkt |-> p, data |-> d]
      /\ \A n \in 1 .. Len(out) : out'[n] = out[n]
  BY Delivers
<1>2. \A n \in 1 .. Len(out') : out'[n].pkt = p \/ (n \in 1 .. Len(out) /\ out'[n] = out[n])
  <2>1. \A n \in 1 .. Len(out) + 1 : n = Len(out) + 1 \/ n \in 1 .. Len(out)
    BY <1>1
  <2>2. QED
    BY <1>1, <2>1
<1>3. Packets' = Packets /\ \A x : Reported(x)' = Reported(x)
  BY DEF Packets, Reported
<1>4. ASSUME NEW q \in InFlight' PROVE FateAhead(q)'
  <2>1. FateAhead(q) /\ q \in InFlight
    BY DEF Fates
  <2>2. \A n \in 1 .. Len(out') : out'[n].pkt < q.pkt
    BY <1>2, <2>1 DEF FateAhead
  <2>3. FMergeOp'.pkt <= q.pkt /\ (First(cut, q) => FMergeOp'.pkt # q.pkt)
    BY <2>1, AsideIsBelow
  <2>4. QED
    BY <1>3, <2>1, <2>2, <2>3 DEF FateAhead
<1>5. MergeIsOpen'
  <2> SUFFICES ASSUME FMergeOp' # NoOp, FMergeOp'.pkt \notin cut PROVE MergeIsOpen'
    BY DEF MergeIsOpen
  <2>1. FMergeOp' = FMergeOp /\ FMergeOp.pkt # p
    BY DEF MergeAside
  <2>2. ~Reported(FMergeOp.pkt) /\ \A n \in 1 .. Len(out) : out[n].pkt # FMergeOp.pkt
    BY <2>1 DEF Fates, MergeIsOpen
  <2>3. QED
    BY <1>2, <2>1, <2>2 DEF MergeIsOpen, Reported
<1>6. FatesAreSent'
  BY <1>2, <1>3 DEF Fates, FatesAreSent
<1>7. FatesDiffer'
  <2>1. ASSUME NEW i \in DOMAIN out', NEW j \in DOMAIN out', i < j PROVE out'[i].pkt < out'[j].pkt
    <3>1. i \in 1 .. Len(out)
      BY <1>1, <2>1
    <3>2. CASE j = Len(out) + 1
      BY <1>1, <3>1, <3>2
    <3>3. CASE j # Len(out) + 1
      <4>1. j \in 1 .. Len(out)
        BY <1>1, <3>3
      <4>2. QED
        BY <1>1, <2>1, <3>1, <4>1 DEF Fates, FatesDiffer
    <3>4. QED
      BY <3>2, <3>3
  <2>2. \A i \in DOMAIN out' : Reported(out'[i].pkt) => out'[i].pkt \in cut
    BY <1>1, <1>2 DEF Fates, FatesDiffer
  <2>3. QED
    BY <1>3, <2>1, <2>2 DEF FatesDiffer, Reported
<1>8. QED
  BY <1>1, <1>4, <1>5, <1>6, <1>7 DEF Fates

LEMMA ReportKeepsFates ==
  ASSUME OutType, Fates, InFlight' \subseteq InFlight, UNCHANGED <<cut, sizeOf, out>>,
         NEW p \in Packets, NEW e, reported' = reported \cup {<<p, e>>},
         \A n \in 1 .. Len(out) : out[n].pkt = p => p \in cut,
         \A r \in InFlight' : First(cut, r) => r.pkt # p, MergeAside(p)
  PROVE  Fates'
<1>1. DOMAIN out = 1 .. Len(out)
  BY OutIs
<1>2. Packets' = Packets /\ \A x : Reported(x)' => Reported(x) \/ x = p
  BY ReportAdds DEF Packets
<1>3. ASSUME NEW q \in InFlight' PROVE FateAhead(q)'
  <2>1. FateAhead(q) /\ q \in InFlight
    BY DEF Fates
  <2>2. FMergeOp'.pkt <= q.pkt /\ (First(cut, q) => FMergeOp'.pkt # q.pkt)
    BY <2>1, AsideIsBelow
  <2>3. First(cut, q) => ~Reported(q.pkt)'
    BY <1>2, <2>1 DEF FateAhead
  <2>4. QED
    BY <1>2, <2>1, <2>2, <2>3 DEF FateAhead
<1>4. MergeIsOpen'
  <2> SUFFICES ASSUME FMergeOp' # NoOp, FMergeOp'.pkt \notin cut PROVE MergeIsOpen'
    BY DEF MergeIsOpen
  <2>1. FMergeOp' = FMergeOp /\ FMergeOp.pkt # p
    BY DEF MergeAside
  <2>2. ~Reported(FMergeOp.pkt) /\ \A n \in 1 .. Len(out) : out[n].pkt # FMergeOp.pkt
    BY <2>1 DEF Fates, MergeIsOpen
  <2>3. ~Reported(FMergeOp.pkt)'
    BY <1>2, <2>1, <2>2
  <2>4. QED
    BY <2>1, <2>2, <2>3 DEF MergeIsOpen
<1>5. FatesAreSent'
  BY <1>2 DEF Fates, FatesAreSent
<1>6. FatesDiffer'
  <2>1. ASSUME NEW i \in 1 .. Len(out) PROVE Reported(out[i].pkt)' => out[i].pkt \in cut
    <3>1. PICK x : x = out[i].pkt
      OBVIOUS
    <3>2. Reported(x)' => Reported(x) \/ x = p
      BY <1>2
    <3>3. Reported(x) => x \in cut
      BY <1>1, <3>1 DEF Fates, FatesDiffer
    <3>4. Reported(out[i].pkt)' => Reported(x)'
      BY <3>1 DEF Reported
    <3>5. QED
      BY <3>1, <3>2, <3>3, <3>4
  <2>2. QED
    BY <1>1, <2>1 DEF Fates, FatesDiffer
<1>7. QED
  BY <1>3, <1>4, <1>5, <1>6 DEF Fates

(* A merge goes on.                                                        *)
LEMMA MergeKeepsFates ==
  ASSUME Fates, InFlight' \subseteq InFlight, UNCHANGED <<cut, sizeOf, out, reported>>,
         NEW p \in Packets, FMergeOp'.pkt = p, p \notin cut => ~Reported(p),
         \A n \in 1 .. Len(out) : out[n].pkt < p,
         \A r \in InFlight' : p <= r.pkt /\ (First(cut, r) => p < r.pkt)
  PROVE  Fates'
<1>1. Packets' = Packets /\ \A x : Reported(x)' = Reported(x)
  BY DEF Packets, Reported
<1>2. p \in Nat /\ \A n \in 1 .. Len(out) : out[n].pkt \in Nat
  BY DEF Packets, Fates, FatesAreSent
<1>3. ASSUME NEW q \in InFlight' PROVE FateAhead(q)'
  <2>1. FateAhead(q) /\ q.pkt \in Nat
    BY DEF Fates, FateAhead, Packets
  <2>2. FMergeOp'.pkt <= q.pkt /\ (First(cut, q) => FMergeOp'.pkt # q.pkt)
    BY <1>2, <2>1
  <2>3. QED
    BY <1>1, <2>1, <2>2 DEF FateAhead
<1>4. MergeIsOpen'
  <2>1. \A n \in 1 .. Len(out) : out[n].pkt # p
    BY <1>2
  <2>2. QED
    BY <2>1 DEF MergeIsOpen, Reported
<1>5. FatesAreSent'
  BY <1>1 DEF Fates, FatesAreSent
<1>6. FatesDiffer'
  BY <1>1 DEF Fates, FatesDiffer
<1>7. QED
  BY <1>3, <1>4, <1>5, <1>6 DEF Fates

-----------------------------------------------------------------------------
(* The handling of the list.                                               *)

IInv == TypeOK /\ Flow /\ OutType /\ OpType /\ Fates

(* Something of packet p arrived and it is not forgotten.                  *)
Awaits(p) ==
  Delivered(p) \/ Reported(p) \/ FMergeOp.pkt = p \/ \E q \in Elems(aWhat) : q.pkt = p

LEMMA RestIs ==
  ASSUME NEW T, NEW s \in Seq(T), NEW k \in 1 .. Len(s), NEW q \in Elems(s)
  PROVE  (\E i \in 1 .. k : q = s[i]) \/ q \in Elems(SubSeq(s, k + 1, Len(s)))
<1> DEFINE n == Len(s)
           b == SubSeq(s, k + 1, n)
<1>1. n \in Nat /\ \A i \in 1 .. n : s[i] \in T
  BY LenProperties, ElementOfSeq
<1>2. k + 1 \in Int /\ n \in Int /\ \A i \in k + 1 .. n : s[i] \in T
  BY <1>1
<1>3. /\ Len(b) = (IF k + 1 <= n THEN n - (k + 1) + 1 ELSE 0)
      /\ \A i \in 1 .. n - (k + 1) + 1 : b[i] = s[(k + 1) + i - 1]
  BY <1>2, SubSeqProperties
<1>4. PICK i \in 1 .. n : q = s[i]
  BY DEF Elems
<1> HIDE DEF b, n
<1>5. CASE i <= k
  BY <1>1, <1>4, <1>5
<1>6. CASE i > k
  <2>1. i - k \in 1 .. n - (k + 1) + 1 /\ (k + 1) + (i - k) - 1 = i /\ k + 1 <= n
    BY <1>1, <1>6 DEF n
  <2>2. i - k \in 1 .. Len(b) /\ b[i - k] = q
    BY <1>3, <1>4, <2>1
  <2>3. q \in Elems(b)
    BY <2>2 DEF Elems
  <2>4. QED
    BY <2>3 DEF b, n
<1>7. QED
  BY <1>1, <1>5, <1>6 DEF n

LEMMA FatesStay ==
  ASSUME OutType, NEW o, NEW r, NEW e,
         out' = out \/ out' = Append(out, o),
         reported' = reported \/ reported' = reported \cup {<<r, e>>}
  PROVE  \A p : (Delivered(p) => Delivered(p)') /\ (Reported(p) => Reported(p)')
<1>1. \A p : Reported(p) => Reported(p)'
  BY DEF Reported
<1>2. CASE out' = out
  BY <1>1, <1>2 DEF Delivered
<1>3. CASE out' = Append(out, o)
  <2>1. /\ Len(out) \in Nat /\ DOMAIN out = 1 .. Len(out) /\ DOMAIN out' = 1 .. Len(out) + 1
        /\ \A n \in 1 .. Len(out) : out'[n] = out[n]
    BY <1>3, Delivers
  <2>2. \A n \in DOMAIN out : n \in DOMAIN out' /\ out'[n] = out[n]
    BY <2>1
  <2>3. QED
    BY <1>1, <2>2 DEF Delivered
<1>4. QED
  BY <1>2, <1>3

LEMMA NobodyIsForgotten ==
  ASSUME \A p : (Delivered(p) => Delivered(p)') /\ (Reported(p) => Reported(p)'),
         NEW x, Delivered(x)' \/ Reported(x)' \/ FMergeOp'.pkt = x,
         \A q \in Elems(aWhat) : q.pkt = x \/ q \in Elems(aWhat'),
         FMergeOp.pkt \in {0, x} \/ FMergeOp'.pkt = FMergeOp.pkt
  PROVE  \A p \in Packets : Awaits(p) => Awaits(p)'
<1> SUFFICES ASSUME NEW p \in Packets, Awaits(p) PROVE Awaits(p)'
  OBVIOUS
<1>1. p # 0
  BY DEF Packets
<1>2. Awaits(x)'
  BY DEF Awaits
<1>3. CASE p = x
  BY <1>2, <1>3
<1>4. CASE p # x
  BY <1>1, <1>4 DEF Awaits
<1>5. QED
  BY <1>3, <1>4

LEMMA IsDelivered ==
  ASSUME OutType, NEW x, NEW d, out' = Append(out, [pkt |-> x, data |-> d])
  PROVE  Delivered(x)'
<1>1. PICK o : o = [pkt |-> x, data |-> d]
  OBVIOUS
<1>2. /\ DOMAIN out' = 1 .. Len(out) + 1 /\ Len(out) \in Nat /\ out'[Len(out) + 1] = o
  BY <1>1, Delivers
<1>3. Len(out) + 1 \in DOMAIN out' /\ out'[Len(out) + 1].pkt = x
  BY <1>1, <1>2
<1>4. QED
  BY <1>3 DEF Delivered

LEMMA PassKeeps ==
  ASSUME IInv, PassOrRefuse
  PROVE  IInv' /\ \A p \in Packets : Awaits(p) => Awaits(p)'
<1> DEFINE part == Head(aWhat)
           fits == CustomerMax = 0 \/ CustomerMax >= Len(part.data)
<1>1. /\ aWhat # <<>> /\ ~MIsSplited(part)
      /\ out' = IF fits THEN Append(out, [pkt |-> part.pkt, data |-> part.data]) ELSE out
      /\ reported' = IF fits THEN reported ELSE reported \cup {<<part.pkt, "E_DATA_TOO_LARGE">>}
      /\ aWhat' = Tail(aWhat)
      /\ UNCHANGED <<sizeOf, wire, FMergeOp, lost, arrived, cut>>
  BY DEF PassOrRefuse, history
<1>2. TypeOK /\ Flow /\ OutType /\ OpType /\ Fates /\ aWhat \in Seq(Part)
  BY DEF IInv, TypeOK
<1>3. Len(aWhat) \in Nat \ {0} /\ part = aWhat[1] /\ part \in InFlight
  BY <1>1, <1>2, HeadIsFirst
<1>4. PICK k \in 1 .. Len(aWhat) : k = 1
  BY <1>3
<1>5. aWhat' = SubSeq(aWhat, k + 1, Len(aWhat))
  BY <1>1, <1>2, <1>4, TailIsSubSeq
<1>6. /\ aWhat' \in Seq(Part) /\ Flow' /\ InFlight' \subseteq InFlight
      /\ \A r \in InFlight' : Precedes(cut, part, r)
  BY <1>1, <1>2, <1>3, <1>4, <1>5, ListShrinks
<1>7. /\ FateAhead(part) /\ part.pkt \in Packets /\ part.FIsLast
      /\ part.pkt \notin cut => First(cut, part)
  BY <1>1, <1>2, <1>3 DEF Fates, FateAhead, MIsSplited, First
<1>8. PICK x, d, s : x = part.pkt /\ d = part.data /\ s = part
  OBVIOUS
<1>9. /\ x \in Packets /\ x \in Nat /\ \A n \in 1 .. Len(out) : out[n].pkt < x
      /\ \A r \in InFlight' : x < r.pkt /\ r.pkt \in Nat
      /\ MergeAside(x) /\ (Reported(x) => x \in cut)
  <2>1. x \in Packets /\ x \in Nat /\ \A n \in 1 .. Len(out) : out[n].pkt < x
    BY <1>7, <1>8 DEF FateAhead, Packets
  <2>2. \A r \in InFlight' : x < r.pkt /\ r.pkt \in Nat
    BY <1>2, <1>6, <1>7, <1>8 DEF Precedes, Fates, FateAhead, Packets
  <2>3. MergeAside(x) /\ (Reported(x) => x \in cut)
    BY <1>1, <1>7, <1>8 DEF FateAhead, MergeAside
  <2>4. QED
    BY <2>1, <2>2, <2>3
<1>10. TypeOK' /\ OpType'
  BY <1>1, <1>2, <1>6 DEF TypeOK, OpType, Packets
<1>11. \A q \in Elems(aWhat) : q.pkt = x \/ q \in Elems(aWhat')
  BY <1>2, <1>3, <1>4, <1>5, <1>8, RestIs
<1>12. CASE fits
  <2>1. out' = Append(out, [pkt |-> x, data |-> d]) /\ reported' = reported
    BY <1>1, <1>8, <1>12
  <2>2. OutType' /\ Fates'
    BY <1>1, <1>2, <1>6, <1>9, <2>1, DeliverKeepsFates
  <2>3. \A p : (Delivered(p) => Delivered(p)') /\ (Reported(p) => Reported(p)')
    BY <1>2, <2>1, FatesStay
  <2>4. Delivered(x)'
    BY <1>2, <2>1, IsDelivered
  <2>5. \A p \in Packets : Awaits(p) => Awaits(p)'
    BY <1>1, <1>11, <2>3, <2>4, NobodyIsForgotten
  <2>6. QED
    BY <1>6, <1>10, <2>2, <2>5 DEF IInv
<1>13. CASE ~fits
  <2>1. PICK e \in {"E_PACKET_LOST", "E_DATA_TOO_LARGE"} :
          reported' = reported \cup {<<x, e>>} /\ out' = out
    BY <1>1, <1>8, <1>13
  <2>2. /\ \A n \in 1 .. Len(out) : out[n].pkt = x => x \in cut
        /\ \A r \in InFlight' : First(cut, r) => r.pkt # x
    BY <1>9
  <2>3. Fates'
    BY <1>1, <1>2, <1>6, <1>9, <2>1, <2>2, ReportKeepsFates
  <2>4. \A p : (Delivered(p) => Delivered(p)') /\ (Reported(p) => Reported(p)')
    BY <1>2, <2>1, FatesStay
  <2>5. Reported(x)'
    BY <2>1, ReportAdds
  <2>6. \A p \in Packets : Awaits(p) => Awaits(p)'
    BY <1>1, <1>11, <2>4, <2>5, NobodyIsForgotten
  <2>7. OutType'
    BY <1>2, <2>1 DEF OutType
  <2>8. QED
    BY <1>6, <1>10, <2>3, <2>6, <2>7 DEF IInv
<1>14. QED
  BY <1>12, <1>13

(* The merge of an earlier packet is given up.                             *)
LEMMA SupersedeKeeps ==
  ASSUME IInv, Supersede
  PROVE  IInv' /\ \A p \in Packets : Awaits(p) => Awaits(p)'
<1>1. /\ aWhat # <<>> /\ FMergeOp # NoOp /\ FMergeOp.pkt # Head(aWhat).pkt
      /\ reported' = reported \cup {<<FMergeOp.pkt, "E_PACKET_LOST">>}
      /\ FMergeOp' = NoOp
      /\ UNCHANGED <<sizeOf, wire, aWhat, out, lost, arrived, cut>>
  BY DEF Supersede, history
<1>2. TypeOK /\ Flow /\ OutType /\ OpType /\ Fates
  BY DEF IInv
<1>3. PICK x, e : x = FMergeOp.pkt /\ e = "E_PACKET_LOST"
  OBVIOUS
<1>4. x \in Packets /\ reported' = reported \cup {<<x, e>>} /\ MergeAside(x)
  BY <1>1, <1>2, <1>3 DEF TypeOK, MergeAside
<1>5. Lines' = Lines /\ InFlight' = InFlight /\ Flow'
  <2>1. Lines' = Lines
    BY <1>1 DEF Lines
  <2>2. QED
    BY <1>1, <1>2, <2>1 DEF InFlight, Flow
<1>6. \A n \in 1 .. Len(out) : out[n].pkt = x => x \in cut
  BY <1>1, <1>2, <1>3 DEF Fates, MergeIsOpen
<1>7. ASSUME NEW r \in InFlight' PROVE r.pkt # x
  <2>1. /\ Head(aWhat) = aWhat[1] /\ aWhat[1] \in InFlight
        /\ r = aWhat[1] \/ Precedes(cut, aWhat[1], r)
    BY <1>1, <1>2, <1>5, HeadIsFirst
  <2>2. PICK a : a = aWhat[1]
    OBVIOUS
  <2>3. a \in InFlight /\ x # a.pkt /\ (r = a \/ Precedes(cut, a, r))
    BY <1>1, <1>3, <2>1, <2>2
  <2>4. x <= a.pkt /\ a.pkt \in Nat /\ r.pkt \in Nat /\ x \in Nat
    BY <1>2, <1>3, <1>4, <1>5, <2>3 DEF Fates, FateAhead, Packets
  <2>5. a.pkt <= r.pkt
    BY <2>3, <2>4 DEF Precedes
  <2>6. QED
    BY <2>3, <2>4, <2>5
<1>8. Fates'
  BY <1>1, <1>2, <1>4, <1>5, <1>6, <1>7, ReportKeepsFates
<1>9. TypeOK' /\ OpType' /\ OutType'
  BY <1>1, <1>2 DEF TypeOK, OpType, OutType, NoOp, Packets
<1>10. \A p : (Delivered(p) => Delivered(p)') /\ (Reported(p) => Reported(p)')
  BY <1>1, <1>2, <1>4, FatesStay
<1>11. Reported(x)'
  BY <1>3, <1>4, ReportAdds
<1>12. \A p \in Packets : Awaits(p) => Awaits(p)'
  BY <1>1, <1>3, <1>10, <1>11, NobodyIsForgotten
<1>13. QED
  BY <1>5, <1>8, <1>9, <1>12 DEF IInv

IsOp(op) == op = [pkt |-> op.pkt, buf |-> op.buf, FSplitLevel |-> op.FSplitLevel]
IsMerged(m, op, A, B) == IsOp(m) /\ m.pkt = op.pkt /\ m.buf = A /\ m.FSplitLevel = B

LEMMA MergedIs ==
  ASSUME NEW op, IsOp(op), NEW A, NEW B
  PROVE  IsMerged([op EXCEPT !.buf = A, !.FSplitLevel = B], op, A, B)
<1>1. PICK p, a, b : op = [pkt |-> p, buf |-> a, FSplitLevel |-> b]
  BY DEF IsOp
<1> DEFINE m1 == [op EXCEPT !.buf = A]
           m2 == [m1 EXCEPT !.FSplitLevel = B]
<1>2. m1 = [pkt |-> p, buf |-> A, FSplitLevel |-> b]
  BY <1>1
<1> HIDE DEF m1
<1>3. m2 = [pkt |-> p, buf |-> A, FSplitLevel |-> B]
  BY <1>2
<1> HIDE DEF m2
<1>4. m2 = [op EXCEPT !.buf = A, !.FSplitLevel = B]
  BY DEF m1, m2
<1>5. IsMerged(m2, op, A, B)
  BY <1>1, <1>3 DEF IsOp, IsMerged
<1>6. QED
  BY <1>4, <1>5

LEMMA OpForIs ==
  ASSUME NEW q PROVE IsOp(OpFor(q)) /\ OpFor(q).pkt = q.pkt
<1>1. OpFor(q) = [pkt |-> q.pkt, buf |-> <<>>, FSplitLevel |-> <<>>]
  BY DEF OpFor, NoOp
<1>2. QED
  BY <1>1 DEF IsOp

(* MMerge reports the packet, gives it to the customer or goes on with it. *)
LEMMA MMergeIs ==
  ASSUME OpType, aWhat \in Seq(Part), MMerge
  PROVE  \E n, x, last, d :
           /\ n \in 1 .. Len(aWhat)
           /\ aWhat' = SubSeq(aWhat, n + 1, Len(aWhat))
           /\ \A i \in 1 .. n : aWhat[i].pkt = x
           /\ last = aWhat[n]
           /\ FMergeOp = NoOp \/ FMergeOp.pkt = x
           /\ \/ /\ FMergeOp' = NoOp /\ out' = out
                 /\ reported' = reported \cup {<<x, "E_PACKET_LOST">>}
              \/ /\ FMergeOp = NoOp => aWhat[1].FCounter = 1
                 /\ reported' = reported
                 /\ \/ /\ last.FIsLast /\ FMergeOp' = NoOp
                       /\ out' = Append(out, [pkt |-> x, data |-> d])
                    \/ IsOp(FMergeOp') /\ FMergeOp'.pkt = x /\ out' = out
<1> DEFINE parts == Run
           op == IF FMergeOp = NoOp THEN OpFor(parts[1]) ELSE FMergeOp
           fail == \/ FMergeOp = NoOp /\ parts[1].FCounter # 1
                   \/ ~InSequence(op, parts)
           A == op.buf \o DataOf(parts)
           B == LevelAfter(op, parts)
           merged == [op EXCEPT !.buf = A, !.FSplitLevel = B]
           done == parts[Len(parts)].FIsLast
<1>1. /\ aWhat # <<>>
      /\ FMergeOp = NoOp \/ FMergeOp.pkt = parts[1].pkt
      /\ FMergeOp' = IF fail \/ done THEN NoOp ELSE merged
      /\ out' = IF ~fail /\ done
                THEN Append(out, [pkt |-> op.pkt, data |-> merged.buf]) ELSE out
      /\ reported' = IF fail THEN reported \cup {<<op.pkt, "E_PACKET_LOST">>} ELSE reported
      /\ aWhat' = SubSeq(aWhat, Len(parts) + 1, Len(aWhat))
  BY DEF MMerge
<1>2. PICK n \in 1 .. Len(aWhat) :
         Len(parts) = n /\ \A i \in 1 .. n : parts[i] = aWhat[i] /\ aWhat[i].pkt = aWhat[1].pkt
  BY <1>1, RunIs
<1>3. Len(aWhat) \in Nat /\ 1 \in 1 .. n /\ n \in 1 .. n
  BY <1>2, LenProperties
<1>4. PICK x, last, d : x = aWhat[1].pkt /\ last = aWhat[n] /\ d = merged.buf
  OBVIOUS
<1>5. parts[1] = aWhat[1] /\ parts[Len(parts)] = last
  BY <1>2, <1>3, <1>4
<1>6. IsOp(op) /\ op.pkt = x
  <2>1. CASE FMergeOp = NoOp
    BY <1>4, <1>5, <2>1, OpForIs
  <2>2. CASE FMergeOp # NoOp
    BY <1>1, <1>4, <1>5, <2>2 DEF OpType, IsOp
  <2>3. QED
    BY <2>1, <2>2
<1> HIDE DEF op, parts, A, B
<1>7. IsOp(merged) /\ merged.pkt = x
  <2>1. IsMerged(merged, op, A, B)
    BY <1>6, MergedIs
  <2>2. QED
    BY <1>6, <2>1 DEF IsMerged
<1> HIDE DEF merged
<1>8. /\ aWhat' = SubSeq(aWhat, n + 1, Len(aWhat)) /\ (\A i \in 1 .. n : aWhat[i].pkt = x)
      /\ last = aWhat[n] /\ (FMergeOp = NoOp \/ FMergeOp.pkt = x)
  BY <1>1, <1>2, <1>4, <1>5
<1>9. CASE fail
  <2>1. FMergeOp' = NoOp /\ out' = out /\ reported' = reported \cup {<<x, "E_PACKET_LOST">>}
    BY <1>1, <1>6, <1>9
  <2>2. QED
    BY <1>8, <2>1
<1>10. CASE ~fail /\ done
  <2>1. /\ FMergeOp = NoOp => aWhat[1].FCounter = 1
        /\ reported' = reported /\ last.FIsLast /\ FMergeOp' = NoOp
        /\ out' = Append(out, [pkt |-> x, data |-> d])
    BY <1>1, <1>4, <1>5, <1>6, <1>10
  <2>2. QED
    BY <1>8, <2>1
<1>11. CASE ~fail /\ ~done
  <2>1. /\ FMergeOp = NoOp => aWhat[1].FCounter = 1
        /\ reported' = reported /\ out' = out /\ FMergeOp' = merged
    BY <1>1, <1>5, <1>11
  <2>2. QED
    BY <1>7, <1>8, <2>1
<1>12. QED
  BY <1>9, <1>10, <1>11

LEMMA MMergeKeeps ==
  ASSUME IInv, MMerge
  PROVE  IInv' /\ \A p \in Packets : Awaits(p) => Awaits(p)'
<1>1. TypeOK /\ Flow /\ OutType /\ OpType /\ Fates /\ aWhat \in Seq(Part)
  BY DEF IInv, TypeOK
<1>2. aWhat # <<>> /\ UNCHANGED <<sizeOf, wire, lost, arrived, cut>>
  BY DEF MMerge, history
<1> DEFINE Fails(x) == /\ FMergeOp' = NoOp /\ out' = out
                       /\ reported' = reported \cup {<<x, "E_PACKET_LOST">>}
           Gives(x, last, d) == /\ last.FIsLast /\ FMergeOp' = NoOp
                                /\ out' = Append(out, [pkt |-> x, data |-> d])
           GoesOn(x) == IsOp(FMergeOp') /\ FMergeOp'.pkt = x /\ out' = out
<1>3. PICK n, x, last, d :
         /\ n \in 1 .. Len(aWhat)
         /\ aWhat' = SubSeq(aWhat, n + 1, Len(aWhat))
         /\ \A i \in 1 .. n : aWhat[i].pkt = x
         /\ last = aWhat[n]
         /\ FMergeOp = NoOp \/ FMergeOp.pkt = x
         /\ \/ Fails(x)
            \/ /\ FMergeOp = NoOp => aWhat[1].FCounter = 1
               /\ reported' = reported
               /\ Gives(x, last, d) \/ GoesOn(x)
  BY <1>1, MMergeIs
<1>4. /\ aWhat' \in Seq(Part) /\ Flow' /\ InFlight' \subseteq InFlight
      /\ \A i \in 1 .. n : /\ aWhat[i] \in InFlight
                           /\ \A r \in InFlight' : Precedes(cut, aWhat[i], r)
  BY <1>1, <1>2, <1>3, ListShrinks
<1>5. Len(aWhat) \in Nat /\ 1 \in 1 .. n /\ n \in 1 .. n
  BY <1>1, <1>3, LenProperties
<1>6. PICK a : a = aWhat[1]
  OBVIOUS
<1>7. /\ a \in InFlight /\ a.pkt = x /\ last \in InFlight /\ last.pkt = x
      /\ \A r \in InFlight' : Precedes(cut, a, r) /\ Precedes(cut, last, r)
  BY <1>3, <1>4, <1>5, <1>6
<1>8. FateAhead(a) /\ x \in Packets /\ x \in Nat /\ \A r \in InFlight' : r.pkt \in Nat
  BY <1>1, <1>4, <1>7 DEF Fates, FateAhead, Packets
<1>9. /\ \A i \in 1 .. Len(out) : out[i].pkt < x /\ out[i].pkt \in Nat
      /\ \A r \in InFlight' : x <= r.pkt /\ (First(cut, r) => x < r.pkt)
      /\ last.FIsLast => \A r \in InFlight' : x < r.pkt
  BY <1>1, <1>7, <1>8 DEF FateAhead, Precedes, Fates, FatesAreSent, Packets
<1>10. (FMergeOp = NoOp => a.FCounter = 1) => (Reported(x) => x \in cut)
  <2>1. CASE FMergeOp = NoOp
    BY <1>7, <1>8, <2>1 DEF FateAhead, First
  <2>2. CASE FMergeOp # NoOp
    BY <1>1, <1>3, <2>2 DEF Fates, MergeIsOpen
  <2>3. QED
    BY <2>1, <2>2
<1>11. \A q \in Elems(aWhat) : q.pkt = x \/ q \in Elems(aWhat')
  BY <1>1, <1>3, RestIs
<1>12. FMergeOp.pkt \in {0, x}
  BY <1>3 DEF NoOp
<1>13. Packets' = Packets
  BY <1>2 DEF Packets
<1>14. CASE Fails(x)
  <2>1. PICK e \in {"E_PACKET_LOST", "E_DATA_TOO_LARGE"} :
          reported' = reported \cup {<<x, e>>} /\ out' = out /\ FMergeOp' = NoOp
    BY <1>14
  <2>2. /\ \A i \in 1 .. Len(out) : out[i].pkt = x => x \in cut
        /\ \A r \in InFlight' : First(cut, r) => r.pkt # x
        /\ MergeAside(x)
    BY <1>8, <1>9, <2>1 DEF MergeAside
  <2>3. Fates'
    BY <1>1, <1>2, <1>4, <1>8, <2>1, <2>2, ReportKeepsFates
  <2>4. \A p : (Delivered(p) => Delivered(p)') /\ (Reported(p) => Reported(p)')
    BY <1>1, <2>1, FatesStay
  <2>5. Reported(x)'
    BY <2>1, ReportAdds
  <2>6. \A p \in Packets : Awaits(p) => Awaits(p)'
    BY <1>11, <1>12, <2>4, <2>5, NobodyIsForgotten
  <2>7. OutType' /\ OpType' /\ TypeOK'
    BY <1>1, <1>2, <1>4, <1>13, <2>1 DEF OutType, OpType, TypeOK, NoOp
  <2>8. QED
    BY <1>4, <2>3, <2>6, <2>7 DEF IInv
<1>15. CASE (FMergeOp = NoOp => a.FCounter = 1) /\ reported' = reported /\ Gives(x, last, d)
  <2>1. /\ out' = Append(out, [pkt |-> x, data |-> d]) /\ FMergeOp' = NoOp
        /\ (Reported(x) => x \in cut) /\ (\A r \in InFlight' : x < r.pkt) /\ MergeAside(x)
    BY <1>9, <1>10, <1>15 DEF MergeAside
  <2>2. OutType' /\ Fates'
    BY <1>1, <1>2, <1>4, <1>8, <1>9, <1>15, <2>1, DeliverKeepsFates
  <2>3. \A p : (Delivered(p) => Delivered(p)') /\ (Reported(p) => Reported(p)')
    BY <1>1, <1>15, <2>1, FatesStay
  <2>4. Delivered(x)'
    BY <1>1, <2>1, IsDelivered
  <2>5. \A p \in Packets : Awaits(p) => Awaits(p)'
    BY <1>11, <1>12, <2>3, <2>4, NobodyIsForgotten
  <2>6. OpType' /\ TypeOK'
    BY <1>1, <1>2, <1>4, <1>13, <2>1 DEF OpType, TypeOK, NoOp
  <2>7. QED
    BY <1>4, <2>2, <2>5, <2>6 DEF IInv
<1>16. CASE (FMergeOp = NoOp => a.FCounter = 1) /\ reported' = reported /\ GoesOn(x)
  <2>1. /\ out' = out /\ reported' = reported /\ FMergeOp'.pkt = x /\ IsOp(FMergeOp')
        /\ x \notin cut => ~Reported(x)
    BY <1>10, <1>16
  <2>2. Fates'
    BY <1>1, <1>2, <1>4, <1>8, <1>9, <2>1, MergeKeepsFates
  <2>3. \A p : (Delivered(p) => Delivered(p)') /\ (Reported(p) => Reported(p)')
    BY <1>1, <2>1, FatesStay
  <2>4. \A p \in Packets : Awaits(p) => Awaits(p)'
    BY <1>11, <1>12, <2>1, <2>3, NobodyIsForgotten
  <2>5. OutType' /\ OpType' /\ TypeOK'
    BY <1>1, <1>2, <1>4, <1>8, <1>13, <2>1 DEF OutType, OpType, TypeOK, IsOp
  <2>6. QED
    BY <1>4, <2>2, <2>4, <2>5 DEF IInv
<1>17. QED
  BY <1>3, <1>6, <1>14, <1>15, <1>16

-----------------------------------------------------------------------------
(* The theorems.                                                           *)

(* Every packet of which something arrived has a fate or still awaits it.  *)
Remembered == \A p \in arrived : Awaits(p)

Inductive == IInv /\ Remembered

LEMMA InitInductive == Init => Inductive
<1> SUFFICES ASSUME Init PROVE Inductive
  OBVIOUS
<1>1. TypeOK
  BY DEF Init, TypeOK
<1>2. \A h \in Rows : Lines[h] = <<>>
  <2>1. \A h \in Rows : h = Links + 1 \/ h \in 1 .. Links
    BY LinksAre DEF Rows
  <2>2. aWhat = <<>> /\ \A h \in 1 .. Links : wire[h] = <<>>
    BY DEF Init
  <2>3. QED
    BY <1>1, <2>1, <2>2, LinesAre
<1>3. InFlight = {} /\ \A h \in Rows : Len(Lines[h]) = 0 /\ Elems(Lines[h]) = {}
  BY <1>2 DEF InFlight, InRows, Elems
<1>4. Flow
  BY <1>3 DEF Flow, Ordered, InOrder, AllPrecede
<1>5. OutType /\ OpType /\ Len(out) = 0
  BY DEF Init, OutType, OpType, NoOp
<1>6. Fates
  BY <1>3, <1>5 DEF Fates, Init, MergeIsOpen, FatesAreSent, FatesDiffer, Reported
<1>7. QED
  BY <1>1, <1>4, <1>5, <1>6 DEF Inductive, IInv, Remembered, Init

(* What only moves parts leaves all else alone.                            *)
LEMMA MovingKeeps ==
  ASSUME Inductive, TypeOK', Flow', Fates', UNCHANGED <<out, FMergeOp>>,
         \A p : Reported(p)' = Reported(p),
         \A p \in arrived' : p \in arrived \/ \E q \in Elems(aWhat') : q.pkt = p,
         aWhat = <<>> \/ aWhat' = aWhat
  PROVE  Inductive'
<1>1. OutType' /\ OpType'
  BY DEF Inductive, IInv, OutType, OpType
<1>2. ASSUME NEW p \in arrived' PROVE Awaits(p)'
  <2>1. CASE p \in arrived
    <3>1. Awaits(p)
      BY <2>1 DEF Inductive, Remembered
    <3>2. aWhat = <<>> => Elems(aWhat) = {}
      BY DEF Elems
    <3>3. QED
      BY <3>1, <3>2 DEF Awaits, Delivered
  <2>2. CASE \E q \in Elems(aWhat') : q.pkt = p
    BY <2>2 DEF Awaits
  <2>3. QED
    BY <2>1, <2>2
<1>3. QED
  BY <1>1, <1>2 DEF Inductive, IInv, Remembered

LEMMA HandlingKeeps ==
  ASSUME Inductive, IInv' /\ (\A p \in Packets : Awaits(p) => Awaits(p)'), arrived' = arrived
  PROVE  Inductive'
BY DEF Inductive, IInv, TypeOK, Remembered

LEMMA NextKeepsInductive == Inductive /\ [Next]_vars => Inductive'
<1> SUFFICES ASSUME Inductive, [Next]_vars PROVE Inductive'
  OBVIOUS
<1>1. TypeOK /\ Flow /\ OutType /\ Fates /\ IInv /\ \A q \in InFlight : q.pkt \in Packets
  BY DEF Inductive, IInv, Fates, FateAhead
<1>2. ASSUME NEW n \in Sizes, MSendTo(n) PROVE Inductive'
  <2>1. UNCHANGED <<aWhat, FMergeOp, out, reported, arrived>>
    BY <1>2 DEF MSendTo
  <2>2. TypeOK' /\ Flow'
    BY <1>1, <1>2, SendMoves
  <2>3. Fates'
    BY <1>1, <1>2, SendKeepsFates
  <2>4. \A p : Reported(p)' = Reported(p)
    BY <2>1, ReportsStay
  <2>5. QED
    BY <2>1, <2>2, <2>3, <2>4, MovingKeeps
<1>3. ASSUME NEW h \in 1 .. Links - 1, Forward(h) PROVE Inductive'
  <2>1. UNCHANGED <<sizeOf, aWhat, FMergeOp, out, reported, arrived>>
    BY <1>3 DEF Forward
  <2>2. TypeOK' /\ Flow' /\ Moved /\ cut \subseteq cut'
    BY <1>1, <1>3, ForwardMoves
  <2>3. \A p : Reported(p)' = Reported(p)
    BY <2>1, ReportsStay
  <2>4. Fates'
    BY <1>1, <2>1, <2>2, <2>3, MoveKeepsFates
  <2>5. QED
    BY <2>1, <2>2, <2>3, <2>4, MovingKeeps
<1>4. ASSUME NEW h \in 1 .. Links, Lose(h) PROVE Inductive'
  <2>1. /\ UNCHANGED <<sizeOf, aWhat, FMergeOp, out, arrived, cut>>
        /\ reported' = reported \/ \E x : reported' = reported \cup {<<x, SendError>>}
    BY <1>4 DEF Lose
  <2>2. TypeOK' /\ Flow' /\ Moved
    BY <1>1, <1>4, LoseMoves
  <2>3. \A p : Reported(p)' = Reported(p)
    BY <2>1, ReportsStay
  <2>4. Fates'
    BY <1>1, <2>1, <2>2, <2>3, MoveKeepsFates
  <2>5. QED
    BY <2>1, <2>2, <2>3, <2>4, MovingKeeps
<1>5. ASSUME NEW n \in 1 .. MaxBatch, Receive(n) PROVE Inductive'
  <2>1. UNCHANGED <<sizeOf, FMergeOp, out, reported, cut>>
    BY <1>5 DEF Receive
  <2>2. /\ TypeOK' /\ Flow' /\ Moved /\ aWhat = <<>>
        /\ \A p \in arrived' : p \in arrived \/ \E q \in Elems(aWhat') : q.pkt = p
    BY <1>1, <1>5, ReceiveMoves
  <2>3. \A p : Reported(p)' = Reported(p)
    BY <2>1, ReportsStay
  <2>4. Fates'
    BY <1>1, <2>1, <2>2, <2>3, MoveKeepsFates
  <2>5. QED
    BY <2>1, <2>2, <2>3, <2>4, MovingKeeps
<1>6. CASE PassOrRefuse
  <2>1. arrived' = arrived
    BY <1>6 DEF PassOrRefuse, history
  <2>2. QED
    BY <1>1, <1>6, <2>1, PassKeeps, HandlingKeeps
<1>7. CASE Supersede
  <2>1. arrived' = arrived
    BY <1>7 DEF Supersede, history
  <2>2. QED
    BY <1>1, <1>7, <2>1, SupersedeKeeps, HandlingKeeps
<1>8. CASE MMerge
  <2>1. arrived' = arrived
    BY <1>8 DEF MMerge, history
  <2>2. QED
    BY <1>1, <1>8, <2>1, MMergeKeeps, HandlingKeeps
<1>9. CASE UNCHANGED vars
  <2>1. UNCHANGED <<sizeOf, wire, aWhat, FMergeOp, out, reported, lost, arrived, cut>>
    BY <1>9 DEF vars
  <2>2. Lines' = Lines
    BY <2>1 DEF Lines
  <2>3. InFlight' = InFlight /\ Flow'
    BY <1>1, <2>1, <2>2 DEF InFlight, Flow
  <2>4. Moved
    BY <1>1, <2>1, <2>3, StaysPart, PartsInFlight DEF Moved, Flow
  <2>5. TypeOK'
    BY <1>1, <2>1 DEF TypeOK, Packets
  <2>6. \A p : Reported(p)' = Reported(p)
    BY <2>1, ReportsStay
  <2>7. Fates'
    BY <1>1, <2>1, <2>4, <2>6, MoveKeepsFates
  <2>8. QED
    BY <2>1, <2>3, <2>5, <2>6, <2>7, MovingKeeps
<1>10. QED
  BY <1>2, <1>3, <1>4, <1>5, <1>6, <1>7, <1>8, <1>9 DEF Next, Done

LEMMA AlwaysInductive == Spec => []Inductive
BY InitInductive, NextKeepsInductive, PTL DEF Spec

(* A call leaves nothing unhandled.                                        *)
ArrivedHasFate == aWhat = <<>> => \A p \in Packets : HasFate(p)

(* Between two calls of MSplitOrMergeIfNeed a packet of which some part    *)
(* arrived was given to the customer, or its fail is reported, or its      *)
(* merge waits for more: the first half of NothingIsForgotten, not only    *)
(* when all links are empty.                                               *)
THEOREM ArrivedHasFateHolds == Spec => []ArrivedHasFate
<1>1. Inductive => ArrivedHasFate
  <2>1. aWhat = <<>> => Elems(aWhat) = {}
    BY DEF Elems
  <2>2. QED
    BY <2>1 DEF Inductive, Remembered, Awaits, ArrivedHasFate, HasFate
<1>2. QED
  BY <1>1, AlwaysInductive, PTL

(* The assertions of the merge: the parts of one packet are joined up to   *)
(* its last one and nothing is behind that (MMerging); and as long as 16   *)
(* bits count the parts, all that is joined was split (MMerge) and a merge *)
(* does not begin with a part that is first and last                       *)
(* (merge_operation_t).                                                    *)
ChecksHold ==
  (aWhat # <<>> /\ MIsSplited(Head(aWhat))) =>
    /\ \A i \in 1 .. Len(Run) - 1 : ~Run[i].FIsLast
    /\ Head(aWhat).pkt \notin cut =>
         /\ \A i \in 1 .. Len(Run) : MIsSplited(Run[i])
         /\ ~(Head(aWhat).FCounter = 1 /\ Head(aWhat).FIsLast)

(* None of the assertions of the merge fails, whatever is lost on the way. *)
THEOREM AssertionsHold == Spec => []ChecksHold
<1>1. ASSUME Inductive PROVE ChecksHold
  <2> SUFFICES ASSUME aWhat # <<>>, MIsSplited(Head(aWhat))
               PROVE  /\ \A i \in 1 .. Len(Run) - 1 : ~Run[i].FIsLast
                      /\ Head(aWhat).pkt \notin cut =>
                           /\ \A i \in 1 .. Len(Run) : MIsSplited(Run[i])
                           /\ ~(Head(aWhat).FCounter = 1 /\ Head(aWhat).FIsLast)
    BY DEF ChecksHold
  <2>1. TypeOK /\ Flow /\ Fates /\ aWhat \in Seq(Part)
    BY <1>1 DEF Inductive, IInv, TypeOK
  <2>2. Len(aWhat) \in Nat \ {0} /\ Head(aWhat) = aWhat[1] /\ aWhat[1] \in InFlight
    BY <2>1, HeadIsFirst
  <2>3. PICK n \in 1 .. Len(aWhat) :
           Len(Run) = n /\ \A i \in 1 .. n : Run[i] = aWhat[i] /\ aWhat[i].pkt = aWhat[1].pkt
    BY <2>1, RunIs
  <2>4. InOrder(cut, aWhat)
    BY <2>1, LinesAre, LinksAre DEF Flow, Ordered
  <2>5. PICK a : a = aWhat[1]
    OBVIOUS
  <2>6. a.pkt \in Nat /\ Counted(cut, a)
    BY <2>1, <2>2, <2>5 DEF Flow, Fates, FateAhead, Packets
  <2>7. ASSUME NEW i \in 1 .. Len(Run) - 1 PROVE ~Run[i].FIsLast
    <3>1. i \in 1 .. n /\ n \in 1 .. n /\ i \in 1 .. Len(aWhat) /\ i < n
      BY <2>2, <2>3
    <3>2. aWhat[i].pkt = a.pkt /\ aWhat[n].pkt = a.pkt /\ Precedes(cut, aWhat[i], aWhat[n])
      BY <2>3, <2>4, <2>5, <3>1 DEF InOrder
    <3>3. QED
      BY <2>3, <2>6, <3>1, <3>2 DEF Precedes
  <2>8. ASSUME a.pkt \notin cut, NEW i \in 1 .. Len(Run) PROVE MIsSplited(Run[i])
    <3>1. CASE i = 1
      BY <2>2, <2>3, <2>8, <3>1
    <3>2. CASE i # 1
      <4>1. i \in 1 .. n /\ 1 \in 1 .. Len(aWhat) /\ i \in 1 .. Len(aWhat) /\ 1 < i
        BY <2>2, <2>3, <2>8, <3>2
      <4>2. aWhat[i].pkt = a.pkt /\ Precedes(cut, a, aWhat[i]) /\ Run[i] = aWhat[i]
        BY <2>3, <2>4, <2>5, <4>1 DEF InOrder
      <4>3. QED
        BY <2>6, <2>8, <4>2 DEF Precedes, First, MIsSplited
    <3>3. QED
      BY <3>1, <3>2
  <2>9. ASSUME a.pkt \notin cut PROVE ~(a.FCounter = 1 /\ a.FIsLast)
    BY <2>2, <2>5, <2>6, <2>9 DEF Counted, MIsSplited
  <2>10. QED
    BY <2>2, <2>5, <2>7, <2>8, <2>9
<1>2. QED
  BY <1>1, AlwaysInductive, PTL

-----------------------------------------------------------------------------
(* Joining: the bytes and the counters of parts that follow each other.    *)

Bytes(n) == [i \in 1 .. n |-> i]
Span(b, e) == [j \in 1 .. e - b |-> b + j]
Spans(t, b, e) == t \in Seq(Nat) /\ Len(t) = e - b /\ \A j \in 1 .. Len(t) : t[j] = b + j
Joined(s, t, u) == s \o t = u

(* The parts w continue e bytes without a gap.                             *)
Follows(w, e) ==
  /\ Begin(w[1]) = e
  /\ \A i \in 1 .. Len(w) - 1 : Begin(w[i + 1]) = End(w[i])

LEMMA RowsAdjoin ==
  ASSUME NEW e \in Nat, NEW b \in Nat, NEW c \in Nat, e <= b, b <= c, NEW t, Spans(t, b, c)
  PROVE  Joined(Span(e, b), t, Span(e, c))
<1> DEFINE s == Span(e, b)
           u == s \o t
           v == Span(e, c)
           T == Nat
<1>1. s \in Seq(Nat) /\ Len(s) = b - e /\ \A j \in 1 .. b - e : s[j] = e + j
  BY DEF Span
<1> HIDE DEF s, T
<1>2. s \in Seq(T) /\ t \in Seq(T)
      /\ Len(t) = c - b /\ \A j \in 1 .. Len(t) : t[j] = b + j
  BY <1>1 DEF T, Spans
<1>3. /\ u \in Seq(T) /\ Len(u) = Len(s) + Len(t)
      /\ \A j \in 1 .. Len(s) + Len(t) : u[j] = IF j <= Len(s) THEN s[j] ELSE t[j - Len(s)]
  BY <1>2, ConcatProperties
<1> HIDE DEF u
<1>4. /\ u \in Seq(T) /\ Len(u) = (b - e) + (c - b)
      /\ \A j \in 1 .. (b - e) + (c - b) : u[j] = IF j <= b - e THEN s[j] ELSE t[j - (b - e)]
  BY <1>1, <1>2, <1>3
<1>5. v \in Seq(T) /\ Len(v) = c - e /\ \A j \in 1 .. c - e : v[j] = e + j
  BY DEF Span, T
<1> HIDE DEF v
<1>6. Len(u) = c - e /\ (b - e) + (c - b) = c - e /\ c - e \in Nat /\ b - e \in Nat
  BY <1>4
<1>7. ASSUME NEW j \in 1 .. c - e PROVE u[j] = v[j]
  <2>1. CASE j <= b - e
    <3>1. j \in 1 .. b - e
      BY <1>6, <2>1
    <3>2. QED
      BY <1>1, <1>4, <1>5, <1>6, <2>1, <3>1
  <2>2. CASE ~(j <= b - e)
    <3>1. j - (b - e) \in 1 .. Len(t) /\ b + (j - (b - e)) = e + j
      BY <1>2, <1>6, <2>2
    <3>2. QED
      BY <1>2, <1>4, <1>5, <1>6, <2>2, <3>1
  <2>3. QED
    BY <2>1, <2>2
<1>8. u = v
  BY <1>4, <1>5, <1>6, <1>7, SeqEqual
<1>9. QED
  BY <1>8 DEF s, u, v, Joined

(* MMergePacket, part by part, joins their bytes.                          *)
LEMMA DataOfIs ==
  ASSUME NEW w \in Seq(Part), Len(w) \in Nat \ {0}, \A i \in 1 .. Len(w) : Slice(w[i]),
         NEW e \in Nat, Follows(w, e)
  PROVE  /\ End(w[Len(w)]) \in Nat /\ e <= End(w[Len(w)])
         /\ DataOf(w) = Span(e, End(w[Len(w)]))
<1> DEFINE n == Len(w)
           G(i) == IF i = 0 THEN <<>> ELSE Span(e, End(w[i]))
           Body(f) == [i \in 0 .. n |-> IF i = 0 THEN <<>> ELSE f[i - 1] \o w[i].data]
           g == [i \in 0 .. n |-> G(i)]
           F == CHOOSE f : f = Body(f)
<1>1. \A i \in 1 .. n : /\ w[i] \in Part /\ w[i].data \in Seq(Nat) /\ Len(w[i].data) \in Nat
                        /\ Len(w[i].data) >= 1 /\ Begin(w[i]) \in Nat
                        /\ End(w[i]) = Begin(w[i]) + Len(w[i].data)
                        /\ \A j \in 1 .. Len(w[i].data) : w[i].data[j] = Begin(w[i]) + j
  <2> SUFFICES ASSUME NEW i \in 1 .. n
               PROVE  /\ w[i] \in Part /\ w[i].data \in Seq(Nat) /\ Len(w[i].data) \in Nat
                      /\ Len(w[i].data) >= 1 /\ Begin(w[i]) \in Nat
                      /\ End(w[i]) = Begin(w[i]) + Len(w[i].data)
                      /\ \A j \in 1 .. Len(w[i].data) : w[i].data[j] = Begin(w[i]) + j
    OBVIOUS
  <2>1. w[i] \in Part /\ Slice(w[i])
    BY ElementOfSeq
  <2>2. w[i].data \in Seq(Nat)
    BY <2>1 DEF Part
  <2>3. Len(w[i].data) \in Nat
    BY <2>2, LenProperties
  <2>4. QED
    BY <2>1, <2>2, <2>3 DEF Slice, End
<1>2. \A i \in 1 .. n : e <= Begin(w[i])
  <2> DEFINE S == {i \in Nat : i + 1 \in 1 .. n => e <= Begin(w[i + 1])}
  <2>1. 0 \in S
    BY <1>1 DEF Follows
  <2>2. ASSUME NEW i \in Nat, i \in S PROVE i + 1 \in S
    <3> SUFFICES ASSUME (i + 1) + 1 \in 1 .. n PROVE e <= Begin(w[(i + 1) + 1])
      OBVIOUS
    <3>1. i + 1 \in 1 .. n /\ i + 1 \in 1 .. n - 1
      OBVIOUS
    <3>2. e <= Begin(w[i + 1]) /\ Begin(w[(i + 1) + 1]) = End(w[i + 1])
      BY <2>2, <3>1 DEF Follows
    <3>3. QED
      BY <1>1, <3>1, <3>2
  <2> HIDE DEF S
  <2>3. \A i \in Nat : i \in S
    BY <2>1, <2>2, InductionOverNat
  <2>4. ASSUME NEW i \in 1 .. n PROVE e <= Begin(w[i])
    <3>1. i - 1 \in Nat /\ (i - 1) + 1 = i
      OBVIOUS
    <3>2. i - 1 \in S
      BY <2>3, <3>1
    <3>3. QED
      BY <3>1, <3>2 DEF S
  <2>5. QED
    BY <2>4
<1>3. \A i \in 1 .. n : End(w[i]) \in Nat /\ e <= End(w[i])
  BY <1>1, <1>2
<1>4. ASSUME NEW i \in 1 .. n PROVE G(i) = G(i - 1) \o w[i].data
  <2>1. PICK b, c, s, t : /\ b = Begin(w[i]) /\ c = End(w[i])
                          /\ s = Span(e, b) /\ t = w[i].data
    OBVIOUS
  <2>2. b \in Nat /\ c \in Nat /\ e <= b /\ b <= c /\ Spans(t, b, c)
    BY <1>1, <1>2, <1>3, <2>1 DEF Spans
  <2>3. s \o t = Span(e, c)
    <3>1. Joined(Span(e, b), t, Span(e, c))
      BY <2>2, RowsAdjoin
    <3>2. QED
      BY <2>1, <3>1 DEF Joined
  <2>4. G(i - 1) = s
    <3>1. CASE i = 1
      <4>1. b = e
        BY <2>1, <3>1 DEF Follows
      <4>2. 1 .. b - e = {}
        BY <4>1
      <4>3. s = <<>>
        BY <2>1, <4>2 DEF Span
      <4>4. QED
        BY <3>1, <4>3
    <3>2. CASE i # 1
      <4>1. i - 1 \in 1 .. n - 1 /\ (i - 1) + 1 = i /\ i - 1 # 0
        BY <3>2
      <4>2. b = End(w[i - 1])
        BY <2>1, <4>1 DEF Follows
      <4>3. QED
        BY <2>1, <4>1, <4>2
    <3>3. QED
      BY <3>1, <3>2
  <2>5. G(i) = Span(e, c)
    BY <2>1
  <2>6. QED
    BY <2>1, <2>3, <2>4, <2>5
<1> HIDE DEF G
<1>5. g = Body(g)
  <2>1. ASSUME NEW i \in 0 .. n PROVE g[i] = IF i = 0 THEN <<>> ELSE g[i - 1] \o w[i].data
    <3>1. CASE i = 0
      BY <3>1 DEF G
    <3>2. CASE i # 0
      <4>1. i \in 1 .. n /\ i - 1 \in 0 .. n
        BY <3>2
      <4>2. QED
        BY <1>4, <3>2, <4>1
    <3>3. QED
      BY <3>1, <3>2
  <2>2. QED
    BY <2>1
<1> HIDE DEF g
<1>6. F = Body(F)
  BY <1>5
<1>7. DataOf(w) = F[n]
  BY DEF DataOf
<1> HIDE DEF F
<1>8. \A i \in 0 .. n : F[i] = IF i = 0 THEN <<>> ELSE F[i - 1] \o w[i].data
  BY <1>6
<1>9. F[n] = G(n)
  <2> DEFINE S == {i \in Nat : i \in 0 .. n => F[i] = G(i)}
  <2>1. 0 \in S
    BY <1>8 DEF G
  <2>2. ASSUME NEW i \in Nat, i \in S PROVE i + 1 \in S
    <3> SUFFICES ASSUME i + 1 \in 0 .. n PROVE F[i + 1] = G(i + 1)
      OBVIOUS
    <3>1. PICK k : k = i + 1
      OBVIOUS
    <3>2. k \in 1 .. n /\ k \in 0 .. n /\ k # 0 /\ k - 1 = i /\ i \in 0 .. n
      BY <3>1
    <3>3. F[i] = G(i)
      BY <2>2, <3>2
    <3>4. F[k] = F[k - 1] \o w[k].data
      BY <1>8, <3>2
    <3>5. G(k) = G(k - 1) \o w[k].data
      BY <1>4, <3>2
    <3>6. QED
      BY <3>1, <3>2, <3>3, <3>4, <3>5
  <2> HIDE DEF S
  <2>3. \A i \in Nat : i \in S
    BY <2>1, <2>2, InductionOverNat
  <2>4. n \in S /\ n \in 0 .. n
    BY <2>3
  <2>5. QED
    BY <2>4 DEF S
<1>10. n \in 1 .. n /\ n # 0
  OBVIOUS
<1>11. G(n) = Span(e, End(w[n]))
  BY <1>10 DEF G
<1>12. QED
  BY <1>3, <1>7, <1>9, <1>10, <1>11

LEMMA RunJoins ==
  ASSUME NEW w \in Seq(Part), Len(w) \in Nat \ {0}, \A i \in 1 .. Len(w) : Slice(w[i]),
         NEW e \in Nat, Follows(w, e)
  PROVE  Joined(Bytes(e), DataOf(w), Bytes(End(w[Len(w)])))
<1>1. PICK z, c, t : z = 0 /\ c = End(w[Len(w)]) /\ t = DataOf(w)
  OBVIOUS
<1>2. c \in Nat /\ e <= c /\ t = Span(e, c)
  BY <1>1, DataOfIs
<1>3. Spans(t, e, c)
  BY <1>2 DEF Span, Spans
<1>4. z \in Nat /\ z <= e /\ Bytes(e) = Span(z, e) /\ Bytes(c) = Span(z, c)
  BY <1>1, <1>2 DEF Bytes, Span
<1>5. Joined(Span(z, e), t, Span(z, c))
  BY <1>2, <1>3, <1>4, RowsAdjoin
<1>6. QED
  BY <1>1, <1>4, <1>5

(* FSplitLevel has the counter of the last part.                           *)
LEMMA LevelAfterIs ==
  ASSUME NEW w, Len(w) \in Nat \ {0}, DOMAIN w = 1 .. Len(w), NEW op
  PROVE  /\ DOMAIN LevelAfter(op, w)
              = {w[i].FCoefficient : i \in 1 .. Len(w)} \cup DOMAIN op.FSplitLevel
         /\ LevelAfter(op, w)[w[Len(w)].FCoefficient] = w[Len(w)].FCounter
<1> DEFINE n == Len(w)
           coefs == {w[i].FCoefficient : i \in DOMAIN w}
           Ends(c, k) == /\ w[k].FCoefficient = c
                         /\ \A j \in k + 1 .. Len(w) : w[j].FCoefficient # c
           Last(c) == CHOOSE k \in DOMAIN w : Ends(c, k)
           f == [c \in coefs \cup DOMAIN op.FSplitLevel |->
                   IF c \in coefs THEN w[Last(c)].FCounter ELSE op.FSplitLevel[c]]
<1>1. LevelAfter(op, w) = f
  BY DEF LevelAfter
<1>2. PICK c : c = w[n].FCoefficient
  OBVIOUS
<1>3. n \in DOMAIN w /\ Ends(c, n) /\ c \in coefs
  BY <1>2
<1>4. \A k \in DOMAIN w : Ends(c, k) => k = n
  <2> SUFFICES ASSUME NEW k \in DOMAIN w, Ends(c, k), k # n PROVE FALSE
    OBVIOUS
  <2>1. n \in k + 1 .. Len(w)
    OBVIOUS
  <2>2. QED
    BY <1>2, <2>1
<1> HIDE DEF Ends
<1>5. Last(c) = n
  BY <1>3, <1>4
<1> HIDE DEF Last
<1>6. f[c] = w[n].FCounter
  BY <1>3, <1>5
<1>7. DOMAIN f = {w[i].FCoefficient : i \in 1 .. Len(w)} \cup DOMAIN op.FSplitLevel
  OBVIOUS
<1>8. QED
  BY <1>1, <1>2, <1>6, <1>7

LEMMA GreatestElement ==
  ASSUME NEW n \in Nat, NEW S, S \subseteq 1 .. n, S # {}
  PROVE  \E k \in S : \A j \in S : j <= k
<1> DEFINE T == {n - j : j \in S}
<1>1. T \subseteq Nat /\ T # {}
  <2>1. \A j \in S : n - j \in Nat /\ n - j \in T
    OBVIOUS
  <2>2. PICK j : j \in S
    OBVIOUS
  <2>3. QED
    BY <2>1, <2>2
<1>2. PICK t \in T : \A y \in T : t <= y
  BY <1>1, LeastElement
<1>3. PICK k \in S : t = n - k
  BY <1>2
<1>4. ASSUME NEW j \in S PROVE j <= k
  <2>1. n - j \in T /\ j \in 1 .. n /\ k \in 1 .. n
    OBVIOUS
  <2>2. n - k <= n - j
    BY <1>2, <1>3, <2>1
  <2>3. QED
    BY <2>1, <2>2
<1>5. QED
  BY <1>4

(* MCheckingSequence compares a part with the one before it that has the   *)
(* same coefficient.                                                       *)
Alike(w, i) == {j \in 1 .. i - 1 : w[j].FCoefficient = w[i].FCoefficient}

LEMMA SequenceIs ==
  ASSUME NEW w, Len(w) \in Nat \ {0}, DOMAIN w = 1 .. Len(w), NEW op
  PROVE  InSequence(op, w) <=>
           \A i \in 1 .. Len(w) :
             /\ \A k \in Alike(w, i) :
                  (\A j \in Alike(w, i) : j <= k) => w[i].FCounter = w[k].FCounter + 1
             /\ (Alike(w, i) = {} /\ w[i].FCoefficient \in DOMAIN op.FSplitLevel) =>
                  w[i].FCounter = op.FSplitLevel[w[i].FCoefficient] + 1
<1> DEFINE top(i) == CHOOSE k \in Alike(w, i) : \A j \in Alike(w, i) : j <= k
           Fits(i) == IF Alike(w, i) # {} THEN w[i].FCounter = w[top(i)].FCounter + 1
                      ELSE w[i].FCoefficient \in DOMAIN op.FSplitLevel =>
                             w[i].FCounter = op.FSplitLevel[w[i].FCoefficient] + 1
           Goes(i) == /\ \A k \in Alike(w, i) :
                           (\A j \in Alike(w, i) : j <= k) => w[i].FCounter = w[k].FCounter + 1
                      /\ (Alike(w, i) = {} /\ w[i].FCoefficient \in DOMAIN op.FSplitLevel) =>
                           w[i].FCounter = op.FSplitLevel[w[i].FCoefficient] + 1
<1>1. InSequence(op, w) <=> \A i \in 1 .. Len(w) : Fits(i)
  BY DEF InSequence, Alike
<1>2. ASSUME NEW i \in 1 .. Len(w) PROVE Fits(i) <=> Goes(i)
  <2>1. CASE Alike(w, i) = {}
    BY <2>1
  <2>2. CASE Alike(w, i) # {}
    <3>1. PICK n : n = i - 1
      OBVIOUS
    <3>2. n \in Nat /\ Alike(w, i) \subseteq 1 .. n
      BY <3>1 DEF Alike
    <3>3. PICK S : S = Alike(w, i)
      OBVIOUS
    <3>4. \E k \in S : \A j \in S : j <= k
      BY <2>2, <3>2, <3>3, GreatestElement
    <3>5. top(i) \in S /\ \A j \in S : j <= top(i)
      BY <3>3, <3>4
    <3>6. ASSUME NEW k \in S, \A j \in S : j <= k PROVE k = top(i)
      <4>1. k \in 1 .. n /\ top(i) \in 1 .. n /\ k <= top(i) /\ top(i) <= k
        BY <3>2, <3>3, <3>5, <3>6
      <4>2. QED
        BY <3>2, <4>1
    <3> HIDE DEF top
    <3>7. QED
      BY <2>2, <3>3, <3>5, <3>6
  <2>3. QED
    BY <2>1, <2>2
<1> HIDE DEF Fits
<1>3. QED
  BY <1>1, <1>2

-----------------------------------------------------------------------------
(* What is known of the bytes of a packet on their way.                    *)

Sound(p) == p \notin cut /\ ~Lossy(p)
Blamed(p) == <<p, "E_PACKET_LOST">> \in reported

(* The last part has the last byte.                                        *)
EndsMatch == \A q \in InFlight : q.FIsLast => End(q) = sizeOf[q.pkt]

(* levels has the coefficients of parts that arrive one after the other.   *)
Noted ==
  \A q, r \in Arriving :
    (q.pkt = r.pkt /\ q.pkt \notin cut /\ (q = r \/ End(q) <= Begin(r))) =>
      <<q.pkt, q.FCoefficient, r.FCoefficient>> \in levels

(* What precedes a part is under way, or was merged, if nothing was lost.  *)
Linked(q) ==
  \/ Begin(q) = 0
  \/ \E r \in InFlight : r.pkt = q.pkt /\ End(r) = Begin(q)
  \/ FMergeOp.pkt = q.pkt /\ Len(FMergeOp.buf) = Begin(q)
  \/ Blamed(q.pkt)
Chained == \A q \in InFlight : Sound(q.pkt) => Linked(q)

HasLast(p) == (\E q \in InFlight : q.pkt = p /\ q.FIsLast) \/ Delivered(p) \/ Reported(p)
Lasts == \A p \in Packets : Sound(p) => HasLast(p)

NotBlamed == \A p : (Sound(p) /\ ~Recurs(p)) => ~Blamed(p)

(* The merge under way came to E bytes with part K of C.                   *)
MergeAt(K, C, E) ==
  /\ K \in Nat /\ C \in Nat \ {0} /\ E \in Nat
  /\ C \in DOMAIN FMergeOp.FSplitLevel /\ FMergeOp.FSplitLevel[C] = K
  /\ \A q \in InFlight : q.pkt = FMergeOp.pkt =>
       Before(K, C, E, q.FCounter - 1, q.FCoefficient, Begin(q))
  /\ \A c \in DOMAIN FMergeOp.FSplitLevel :
       /\ <<FMergeOp.pkt, c, C>> \in levels /\ <<FMergeOp.pkt, c, c>> \in levels
       /\ \A q \in Arriving : q.pkt = FMergeOp.pkt =>
            <<FMergeOp.pkt, c, q.FCoefficient>> \in levels
  /\ (Lossy(FMergeOp.pkt) /\ Uneven(FMergeOp.pkt)) \/ FMergeOp.buf = Bytes(E)
MergeFollows ==
  (FMergeOp # NoOp /\ FMergeOp.pkt \notin cut) => \E K, C, E : MergeAt(K, C, E)

Entirety ==
  EndsMatch /\ Noted /\ Chained /\ Lasts /\ NotBlamed /\ MergeFollows /\ EntireUnlessUneven

(* The history grows.                                                      *)
Later ==
  cut \subseteq cut' /\ levels \subseteq levels' /\ \A p : Lossy(p) => Lossy(p)'

LEMMA LaterIs ==
  ASSUME Later
  PROVE  \A p : /\ Sound(p)' => Sound(p)
                /\ Uneven(p) => Uneven(p)'
                /\ Recurs(p) => Recurs(p)'
<1> SUFFICES ASSUME NEW p
             PROVE  /\ Sound(p)' => Sound(p)
                    /\ Uneven(p) => Uneven(p)'
                    /\ Recurs(p) => Recurs(p)'
  OBVIOUS
<1>1. cut \subseteq cut' /\ levels \subseteq levels' /\ (Lossy(p) => Lossy(p)')
  BY DEF Later
<1>2. QED
  BY <1>1 DEF Sound, Uneven, Recurs

(* What was given to the customer stays as it is, and what is added is as  *)
(* good.                                                                   *)
Entry(o) == IsEntire(o) \/ (Lossy(o.pkt) /\ Uneven(o.pkt)) \/ o.pkt \in cut

LEMMA EntriesStay ==
  ASSUME EntireUnlessUneven, Later, OutType, FatesAreSent,
         \A p \in Packets : sizeOf'[p] = sizeOf[p],
         out' = out \/ \E o : out' = Append(out, o) /\ Entry(o)'
  PROVE  EntireUnlessUneven'
<1>1. ASSUME NEW i \in DOMAIN out PROVE \E o : o = out[i] /\ Entry(o)'
  <2>1. PICK o, p : o = out[i] /\ p = o.pkt
    OBVIOUS
  <2>2. p \in Packets /\ sizeOf'[p] = sizeOf[p]
    BY <2>1, OutIs DEF FatesAreSent
  <2>3. IsEntire(o) \/ (Lossy(p) /\ Uneven(p)) \/ p \in cut
    BY <2>1 DEF EntireUnlessUneven
  <2>4. IsEntire(o) => IsEntire(o)'
    BY <2>1, <2>2 DEF IsEntire
  <2>5. (Lossy(p) => Lossy(p)') /\ (Uneven(p) => Uneven(p)') /\ cut \subseteq cut'
    BY LaterIs DEF Later
  <2>6. Entry(o)'
    BY <2>1, <2>3, <2>4, <2>5 DEF Entry
  <2>7. QED
    BY <2>1, <2>6
<1>2. ASSUME NEW i \in DOMAIN out' PROVE \E o : o = out'[i] /\ Entry(o)'
  <2>1. CASE out' = out
    BY <1>1, <2>1
  <2>2. CASE \E o : out' = Append(out, o) /\ Entry(o)'
    <3>1. PICK o : out' = Append(out, o) /\ Entry(o)'
      BY <2>2
    <3>2. /\ Len(out) \in Nat /\ DOMAIN out = 1 .. Len(out) /\ DOMAIN out' = 1 .. Len(out) + 1
          /\ out'[Len(out) + 1] = o /\ \A n \in 1 .. Len(out) : out'[n] = out[n]
      BY <3>1, Delivers
    <3>3. i = Len(out) + 1 \/ i \in DOMAIN out
      BY <3>2
    <3>4. QED
      BY <1>1, <3>1, <3>2, <3>3
  <2>3. QED
    BY <2>1, <2>2
<1>3. QED
  BY <1>2 DEF EntireUnlessUneven, Entry, IsEntire, Lossy, Uneven

LEMMA SizesStay ==
  ASSUME TypeOK, NEW n, sizeOf' = sizeOf \/ sizeOf' = Append(sizeOf, n)
  PROVE  /\ \A p \in Packets : sizeOf'[p] = sizeOf[p]
         /\ sizeOf' = Append(sizeOf, n) =>
              /\ \A p \in Packets' : p \in Packets \/ p = Len(sizeOf) + 1
              /\ sizeOf'[Len(sizeOf) + 1] = n
<1>1. Len(sizeOf) \in Nat /\ sizeOf \in Seq(Sizes) /\ sizeOf \in [1 .. Len(sizeOf) -> Sizes]
  BY LenProperties DEF TypeOK
<1>2. CASE sizeOf' = Append(sizeOf, n)
  <2>1. PICK s, T : s = sizeOf /\ T = Sizes \cup {n}
    OBVIOUS
  <2>2. s \in [1 .. Len(s) -> T] /\ Len(s) \in Nat /\ n \in T
    BY <1>1, <2>1
  <2>3. s \in Seq(T)
    BY <2>2
  <2>4. /\ Len(Append(s, n)) = Len(s) + 1 /\ Append(s, n)[Len(s) + 1] = n
        /\ \A i \in 1 .. Len(s) : Append(s, n)[i] = s[i]
    BY <2>2, <2>3, AppendProperties
  <2>5. /\ Len(sizeOf') = Len(sizeOf) + 1 /\ sizeOf'[Len(sizeOf) + 1] = n
        /\ \A i \in 1 .. Len(sizeOf) : sizeOf'[i] = sizeOf[i]
    BY <1>2, <2>1, <2>4
  <2>6. \A p \in Packets' : p \in Packets \/ p = Len(sizeOf) + 1
    BY <1>1, <2>5 DEF Packets
  <2>7. QED
    BY <2>5, <2>6 DEF Packets
<1>3. QED
  BY <1>2

LEMMA ArrivingInFlight == Arriving \subseteq InFlight /\ Arriving' \subseteq InFlight'
<1>1. Links \in Rows /\ Links + 1 \in Rows /\ Links # Links + 1
  BY LinksAre
<1>2. aWhat = Lines[Links + 1] /\ wire[Links] = Lines[Links]
  BY <1>1 DEF Lines, LinesOf
<1>3. aWhat' = Lines'[Links + 1] /\ wire'[Links] = Lines'[Links]
  BY <1>1 DEF Lines, LinesOf
<1>4. QED
  BY <1>1, <1>2, <1>3 DEF Arriving, InFlight, InRows

LEMMA NumbersInFlight ==
  ASSUME TypeOK, Flow, NEW q \in InFlight
  PROVE  /\ q \in Part /\ Counted(cut, q) /\ Slice(q)
         /\ Begin(q) \in Nat /\ End(q) \in Nat /\ Begin(q) < End(q)
         /\ q.FCounter \in Nat /\ q.FCoefficient \in Nat
         /\ q.pkt \notin cut => q.FCounter - 1 \in Nat /\ q.FCoefficient \in Nat \ {0}
<1>1. q \in Part /\ Counted(cut, q)
  BY PartsInFlight DEF Flow
<1>2. Slice(q)
  BY <1>1 DEF Counted
<1>3. QED
  BY <1>1, <1>2, NumbersOfPart

(* A place before a part is before the parts of it.                        *)
LEMMA BeforeItsParts ==
  ASSUME NEW K \in Nat, NEW C \in Nat \ {0}, NEW E \in Nat, NEW c, NEW d, c \subseteq d,
         NEW q \in Part, NEW x \in Part, Counted(c, q), IsPartOf(d, x, q), x.pkt \notin d,
         Before(K, C, E, q.FCounter - 1, q.FCoefficient, Begin(q))
  PROVE  Before(K, C, E, x.FCounter - 1, x.FCoefficient, Begin(x))
<1>1. x.pkt = q.pkt /\ Counted(d, x) /\ Within(x, q) /\ q.pkt \notin c
  BY DEF IsPartOf
<1>2. PICK qn, qd, qb, xn, xd, xb :
         /\ qn = q.FCounter - 1 /\ qd = q.FCoefficient /\ qb = Begin(q)
         /\ xn = x.FCounter - 1 /\ xd = x.FCoefficient /\ xb = Begin(x)
  OBVIOUS
<1>3. qn \in Nat /\ qd \in Nat \ {0} /\ qb \in Nat
  BY <1>1, <1>2, NumbersOfPart
<1>4. xn \in Nat /\ xd \in Nat \ {0} /\ xb \in Nat
  BY <1>1, <1>2, NumbersOfPart
<1>5. Before(K, C, E, qn, qd, qb) /\ Before(qn, qd, qb, xn, xd, xb)
  BY <1>1, <1>2 DEF Within
<1>6. Before(K, C, E, xn, xd, xb)
  BY <1>3, <1>4, <1>5, BeforeIsTransitive
<1>7. QED
  BY <1>2, <1>6

LEMMA SpreadNotes ==
  ASSUME TypeOK, Flow, TypeOK', Flow', Noted, NEW q, NEW s, Spread(q, s), cut \subseteq cut'
  PROVE  /\ Noted' /\ levels \subseteq levels'
         /\ \A p, c : <<p, c, c>> \in levels =>
              \A x \in Arriving' : x \in Arriving \/ x.pkt # p \/ <<p, c, x.FCoefficient>> \in levels'
<1>1. CASE Arriving' = Arriving /\ levels' = levels
  <2>1. ASSUME NEW a \in Arriving', NEW b \in Arriving', a.pkt = b.pkt, a.pkt \notin cut',
               a = b \/ End(a) <= Begin(b)
        PROVE  <<a.pkt, a.FCoefficient, b.FCoefficient>> \in levels'
    <3>1. a \in Arriving /\ b \in Arriving /\ a.pkt \notin cut
      BY <1>1, <2>1
    <3>2. QED
      BY <1>1, <2>1, <3>1 DEF Noted
  <2>2. Noted'
    BY <2>1 DEF Noted
  <2>3. QED
    BY <1>1, <2>2
<1>2. CASE /\ Arriving' = Arriving \cup Elems(s)
           /\ \A r \in Arriving, x \in Elems(s) : Precedes(cut', r, x)
           /\ levels' = levels \cup {<<q.pkt, c, s[1].FCoefficient>> :
                                      c \in LevelsFor(q.pkt) \cup {s[1].FCoefficient}}
  <2>1. PICK p, d : p = q.pkt /\ d = s[1].FCoefficient
    OBVIOUS
  <2>2. /\ levels \subseteq levels' /\ <<p, d, d>> \in levels'
        /\ \A c \in LevelsFor(p) : <<p, c, d>> \in levels'
    BY <1>2, <2>1
  <2>3. \A c : <<p, c, c>> \in levels => c \in LevelsFor(p)
    <3> SUFFICES ASSUME NEW c, <<p, c, c>> \in levels PROVE c \in LevelsFor(p)
      OBVIOUS
    <3>1. PICK l : l = <<p, c, c>>
      OBVIOUS
    <3>2. l \in levels /\ l[1] = p /\ l[3] = c
      BY <3>1
    <3>3. QED
      BY <3>2 DEF LevelsFor
  <2>4. \A x \in Elems(s) : x.pkt = p /\ x.FCoefficient = d
    BY <2>1 DEF Spread, Divided, Elems
  <2>5. ASSUME NEW a \in Arriving', NEW b \in Arriving', a.pkt = b.pkt, a.pkt \notin cut',
               a = b \/ End(a) <= Begin(b)
        PROVE  <<a.pkt, a.FCoefficient, b.FCoefficient>> \in levels'
    <3>1. CASE a \in Arriving /\ b \in Arriving
      BY <2>2, <2>5, <3>1 DEF Noted
    <3>2. CASE a \in Arriving /\ b \in Elems(s)
      <4>1. <<a.pkt, a.FCoefficient, a.FCoefficient>> \in levels
        BY <2>5, <3>2 DEF Noted
      <4>2. QED
        BY <2>2, <2>3, <2>4, <2>5, <3>2, <4>1
    <3>3. CASE a \in Elems(s) /\ b \in Elems(s)
      BY <2>2, <2>4, <2>5, <3>3
    <3>4. CASE a \in Elems(s) /\ b \in Arriving /\ b \notin Elems(s)
      <4>1. a # b /\ End(a) <= Begin(b)
        BY <2>5, <3>4
      <4>2. End(b) <= Begin(a)
        BY <1>2, <2>5, <3>4 DEF Precedes, Ahead, Before
      <4>3. a \in Part /\ IsPartOf(cut', a, q) /\ b \in InFlight
        BY <3>4, ArrivingInFlight, ElementOfSeq DEF Spread, Elems
      <4>4. Begin(b) \in Nat /\ End(b) \in Nat /\ Begin(b) < End(b)
        BY <4>3, NumbersInFlight
      <4>5. PICK d1 : d1 = cut'
        OBVIOUS
      <4>6. Counted(d1, a)
        BY <4>3, <4>5 DEF IsPartOf
      <4>7. Begin(a) \in Nat /\ End(a) \in Nat /\ Begin(a) < End(a)
        BY <4>3, <4>6, NumbersOfPart
      <4>8. QED
        BY <4>1, <4>2, <4>4, <4>7
    <3>5. QED
      BY <1>2, <3>1, <3>2, <3>3, <3>4
  <2>6. Noted'
    BY <2>5 DEF Noted
  <2>7. QED
    BY <1>2, <2>2, <2>3, <2>4, <2>6
<1>3. QED
  BY <1>1, <1>2 DEF Spread

(* A part, or a new packet, goes on as its parts.                          *)
LEMMA SpreadKeeps ==
  ASSUME Inductive, Inductive', Entirety, NEW q \in Part, Counted(cut, q), NEW s, Spread(q, s),
         q \in InFlight \/ (Begin(q) = 0 /\ q.pkt \notin Packets),
         q.FIsLast => End(q) = sizeOf'[q.pkt],
         cut \subseteq cut', UNCHANGED <<FMergeOp, out, reported, lost>>,
         \A p \in Packets : sizeOf'[p] = sizeOf[p],
         \A p \in Packets' : p \in Packets \/ (p = q.pkt /\ q.FIsLast)
  PROVE  Entirety'
<1>1. /\ TypeOK /\ Flow /\ TypeOK' /\ Flow' /\ Fates
      /\ EndsMatch /\ Noted /\ Chained /\ Lasts /\ NotBlamed /\ MergeFollows /\ EntireUnlessUneven
  BY DEF Inductive, IInv, Entirety
<1>2. /\ Noted' /\ levels \subseteq levels'
      /\ \A p, c : <<p, c, c>> \in levels =>
           \A x \in Arriving' : x \in Arriving \/ x.pkt # p \/ <<p, c, x.FCoefficient>> \in levels'
  BY <1>1, SpreadNotes
<1>3. Later
  BY <1>2 DEF Later, Lossy
<1>4. \A p : (Sound(p)' => Sound(p)) /\ (Uneven(p) => Uneven(p)') /\ (Recurs(p) => Recurs(p)')
  BY <1>3, LaterIs
<1>5. /\ s \in Seq(Part) /\ Len(s) \in Nat \ {0} /\ Divided(q, s)
      /\ \A x \in Elems(s) : x \in Part /\ IsPartOf(cut', x, q) /\ x.pkt = q.pkt
      /\ InFlight' \subseteq InFlight \cup Elems(s)
      /\ Elems(s) \subseteq InFlight' /\ InFlight \subseteq InFlight' \cup {q}
  BY ElementOfSeq DEF Spread, Elems, IsPartOf
<1>6. PICK z : z = s[Len(s)]
  OBVIOUS
<1>7. z \in InFlight' /\ z.pkt = q.pkt /\ End(z) = End(q) /\ (q.FIsLast => z.FIsLast)
  BY <1>5, <1>6 DEF Divided, Elems
<1>8. \A x \in InFlight : x.pkt \in Packets
  BY <1>1 DEF Fates, FateAhead
<1>9. EndsMatch'
  <2>1. ASSUME NEW x \in InFlight', x.FIsLast PROVE End(x) = sizeOf'[x.pkt]
    <3>1. CASE x \in InFlight
      BY <1>1, <1>8, <2>1, <3>1 DEF EndsMatch
    <3>2. CASE x \in Elems(s)
      BY <1>5, <2>1, <3>2 DEF IsPartOf
    <3>3. QED
      BY <1>5, <3>1, <3>2
  <2>2. QED
    BY <2>1 DEF EndsMatch
<1>10. \A p : Blamed(p)' = Blamed(p) /\ Delivered(p)' = Delivered(p) /\ Reported(p)' = Reported(p)
  BY DEF Blamed, Delivered, Reported
<1>11. ASSUME NEW x, NEW y, x.pkt = y.pkt, Begin(x) = Begin(y), Linked(y) PROVE Linked(x)'
  <2>1. CASE \E r \in InFlight : r.pkt = y.pkt /\ End(r) = Begin(y)
    <3>1. PICK r \in InFlight : r.pkt = x.pkt /\ End(r) = Begin(x)
      BY <1>11, <2>1
    <3>2. CASE r \in InFlight'
      BY <3>1, <3>2 DEF Linked
    <3>3. CASE r = q
      BY <1>7, <3>1, <3>3 DEF Linked
    <3>4. QED
      BY <1>5, <3>2, <3>3
  <2>2. CASE ~(\E r \in InFlight : r.pkt = y.pkt /\ End(r) = Begin(y))
    <3>1. \/ Begin(x) = 0 \/ (FMergeOp'.pkt = x.pkt /\ Len(FMergeOp'.buf) = Begin(x))
          \/ Blamed(x.pkt)
      BY <1>11, <2>2 DEF Linked
    <3>2. Blamed(x.pkt) => Blamed(x.pkt)'
      BY DEF Blamed
    <3>3. QED
      BY <3>1, <3>2 DEF Linked
  <2>3. QED
    BY <2>1, <2>2
<1>12. Chained'
  <2>1. ASSUME NEW x \in InFlight', Sound(x.pkt)' PROVE Linked(x)'
    <3>1. PICK p : p = x.pkt
      OBVIOUS
    <3>2. Sound(p)
      BY <1>4, <2>1, <3>1
    <3>3. CASE x \in InFlight
      BY <1>1, <1>11, <3>1, <3>2, <3>3 DEF Chained
    <3>4. CASE x \in Elems(s)
      <4>1. PICK i \in 1 .. Len(s) : x = s[i]
        BY <3>4 DEF Elems
      <4>2. CASE i = 1
        <5>1. Begin(x) = Begin(q) /\ x.pkt = q.pkt
          BY <1>5, <3>4, <4>1, <4>2 DEF Divided
        <5>2. CASE q \in InFlight
          <6>1. Linked(q)
            BY <1>1, <3>1, <3>2, <5>1, <5>2 DEF Chained
          <6>2. QED
            BY <1>11, <5>1, <6>1
        <5>3. CASE Begin(q) = 0
          BY <5>1, <5>3 DEF Linked
        <5>4. QED
          BY <5>2, <5>3
      <4>3. CASE i # 1
        <5>1. PICK j : j = i - 1
          OBVIOUS
        <5>2. j \in 1 .. Len(s) /\ j \in 1 .. Len(s) - 1 /\ j + 1 = i
          BY <1>5, <4>3, <5>1
        <5>3. s[j] \in Elems(s) /\ s[j] \in InFlight' /\ End(s[j]) = Begin(x)
          BY <1>5, <4>1, <5>2 DEF Divided, Elems
        <5>4. s[j].pkt = x.pkt
          BY <1>5, <3>4, <5>3
        <5>5. QED
          BY <5>3, <5>4 DEF Linked
      <4>4. QED
        BY <4>2, <4>3
    <3>5. QED
      BY <1>5, <3>3, <3>4
  <2>2. QED
    BY <2>1 DEF Chained
<1>13. Lasts'
  <2>1. ASSUME NEW p \in Packets', Sound(p)' PROVE HasLast(p)'
    <3>1. CASE p \in Packets
      <4>1. HasLast(p)
        BY <1>1, <1>4, <2>1, <3>1 DEF Lasts
      <4>2. CASE \E r \in InFlight : r.pkt = p /\ r.FIsLast
        <5>1. PICK r \in InFlight : r.pkt = p /\ r.FIsLast
          BY <4>2
        <5>2. r \in InFlight' \/ r = q
          BY <1>5
        <5>3. QED
          BY <1>7, <5>1, <5>2 DEF HasLast
      <4>3. QED
        BY <1>10, <4>1, <4>2 DEF HasLast
    <3>2. CASE p = q.pkt /\ q.FIsLast
      BY <1>7, <3>2 DEF HasLast
    <3>3. QED
      BY <3>1, <3>2
  <2>2. QED
    BY <2>1 DEF Lasts
<1>14. NotBlamed'
  BY <1>1, <1>4, <1>10 DEF NotBlamed
<1>15. MergeFollows'
  <2> SUFFICES ASSUME FMergeOp # NoOp, FMergeOp.pkt \notin cut' PROVE \E K, C, E : MergeAt(K, C, E)'
    BY DEF MergeFollows
  <2>1. PICK K, C, E : MergeAt(K, C, E)
    BY <1>1 DEF MergeFollows
  <2>2. PICK p : p = FMergeOp.pkt /\ p \in Packets
    BY <1>1 DEF TypeOK
  <2>3. /\ K \in Nat /\ C \in Nat \ {0} /\ E \in Nat
        /\ C \in DOMAIN FMergeOp.FSplitLevel /\ FMergeOp.FSplitLevel[C] = K
        /\ \A x \in InFlight : x.pkt = p =>
             Before(K, C, E, x.FCounter - 1, x.FCoefficient, Begin(x))
        /\ (Lossy(p) /\ Uneven(p)) \/ FMergeOp.buf = Bytes(E)
    BY <2>1, <2>2 DEF MergeAt
  <2>4. \A c \in DOMAIN FMergeOp.FSplitLevel :
          /\ <<p, c, C>> \in levels /\ <<p, c, c>> \in levels
          /\ \A x \in Arriving : x.pkt = p => <<p, c, x.FCoefficient>> \in levels
    BY <2>1, <2>2 DEF MergeAt
  <2>5. ASSUME NEW x \in InFlight', x.pkt = p
        PROVE  Before(K, C, E, x.FCounter - 1, x.FCoefficient, Begin(x))
    <3>1. CASE x \in InFlight
      BY <2>3, <2>5, <3>1
    <3>2. CASE x \in Elems(s)
      <4>1. q \in InFlight /\ q.pkt = p /\ x \in Part
        BY <1>5, <2>2, <2>5, <3>2
      <4>2. Before(K, C, E, q.FCounter - 1, q.FCoefficient, Begin(q))
        BY <2>3, <4>1
      <4>3. PICK d : d = cut'
        OBVIOUS
      <4>4. IsPartOf(d, x, q) /\ x.pkt \notin d /\ cut \subseteq d
        BY <1>5, <2>2, <2>5, <3>2, <4>3
      <4>5. QED
        BY <2>3, <4>1, <4>2, <4>4, BeforeItsParts
    <3>3. QED
      BY <1>5, <3>1, <3>2
  <2>6. ASSUME NEW c \in DOMAIN FMergeOp.FSplitLevel
        PROVE  /\ <<p, c, C>> \in levels' /\ <<p, c, c>> \in levels'
               /\ \A x \in Arriving' : x.pkt = p => <<p, c, x.FCoefficient>> \in levels'
    BY <1>2, <2>4
  <2>7. (Lossy(p)' /\ Uneven(p)') \/ FMergeOp.buf = Bytes(E)
    BY <1>3, <1>4, <2>3 DEF Later
  <2>8. FMergeOp' = FMergeOp
    OBVIOUS
  <2>9. MergeAt(K, C, E)'
    BY <2>2, <2>3, <2>5, <2>6, <2>7, <2>8 DEF MergeAt
  <2>10. QED
    BY <2>9
<1>16. EntireUnlessUneven'
  BY <1>1, <1>3, EntriesStay DEF Fates, Inductive, IInv
<1>17. QED
  BY <1>2, <1>9, <1>12, <1>13, <1>14, <1>15, <1>16 DEF Entirety

(* Parts are handled or lost; what it means for the packets that are not   *)
(* in X.                                                                   *)
LEMMA OthersKeep ==
  ASSUME Inductive, Entirety, NEW S, Dropped(S), Later, UNCHANGED <<cut, sizeOf>>,
         NEW X, \A y \in S : y.pkt \in X \/ Lossy(y.pkt)',
         \A p : p \in X \/ /\ Blamed(p)' = Blamed(p)
                           /\ Delivered(p) => Delivered(p)'
                           /\ Reported(p) => Reported(p)',
         FMergeOp' = FMergeOp \/ FMergeOp.pkt \in X \cup {0}
  PROVE  /\ EndsMatch' /\ Noted'
         /\ \A q \in InFlight' : q.pkt \in X \/ (Sound(q.pkt)' => Linked(q)')
         /\ \A p \in Packets' : p \in X \/ (Sound(p)' => HasLast(p)')
         /\ \A p : p \in X \/ (Sound(p)' /\ ~Recurs(p)' => ~Blamed(p)')
         /\ FMergeOp' = FMergeOp => MergeFollows'
<1>1. /\ TypeOK /\ Flow /\ Fates
      /\ EndsMatch /\ Noted /\ Chained /\ Lasts /\ NotBlamed /\ MergeFollows
  BY DEF Inductive, IInv, Entirety
<1>2. /\ InFlight' \subseteq InFlight /\ InFlight \subseteq InFlight' \cup S
      /\ Arriving' \subseteq Arriving /\ levels' = levels
  BY DEF Dropped
<1>3. \A p : (Sound(p)' => Sound(p)) /\ (Uneven(p) => Uneven(p)') /\ (Recurs(p) => Recurs(p)')
  BY LaterIs
<1>4. EndsMatch'
  BY <1>1, <1>2 DEF EndsMatch
<1>5. Noted'
  BY <1>1, <1>2 DEF Noted
<1>6. \A p : \A r \in InFlight : (r.pkt = p /\ p \notin X /\ Sound(p)') => r \in InFlight'
  BY <1>2 DEF Sound
<1>7. ASSUME NEW q \in InFlight', q.pkt \notin X, Sound(q.pkt)' PROVE Linked(q)'
  <2>1. PICK p : p = q.pkt
    OBVIOUS
  <2>2. Sound(p)' /\ Sound(p) /\ p \notin X /\ q \in InFlight /\ p # 0
    BY <1>1, <1>2, <1>3, <1>7, <2>1 DEF Fates, FateAhead, Packets
  <2>3. Linked(q) /\ (Blamed(p) => Blamed(p)')
    BY <1>1, <2>1, <2>2 DEF Chained
  <2>4. CASE \E r \in InFlight : r.pkt = q.pkt /\ End(r) = Begin(q)
    BY <1>6, <2>1, <2>2, <2>4 DEF Linked
  <2>5. CASE FMergeOp.pkt = q.pkt /\ Len(FMergeOp.buf) = Begin(q)
    <3>1. FMergeOp' = FMergeOp
      BY <2>1, <2>2, <2>5
    <3>2. QED
      BY <2>5, <3>1 DEF Linked
  <2>6. CASE Begin(q) = 0 \/ Blamed(q.pkt)
    <3>1. Begin(q) = 0 \/ Blamed(p)'
      BY <2>1, <2>3, <2>6
    <3>2. QED
      BY <2>1, <3>1 DEF Linked
  <2>7. QED
    BY <2>3, <2>4, <2>5, <2>6 DEF Linked
<1>8. ASSUME NEW p \in Packets', p \notin X, Sound(p)' PROVE HasLast(p)'
  <2>1. HasLast(p)
    BY <1>1, <1>3, <1>8 DEF Lasts, Packets
  <2>2. QED
    BY <1>6, <1>8, <2>1 DEF HasLast
<1>9. ASSUME NEW p, p \notin X, Sound(p)', ~Recurs(p)' PROVE ~Blamed(p)'
  BY <1>1, <1>3, <1>9 DEF NotBlamed
<1>10. ASSUME FMergeOp' = FMergeOp PROVE MergeFollows'
  <2> SUFFICES ASSUME FMergeOp # NoOp, FMergeOp.pkt \notin cut PROVE \E K, C, E : MergeAt(K, C, E)'
    BY <1>10 DEF MergeFollows
  <2>1. PICK K, C, E : MergeAt(K, C, E)
    BY <1>1 DEF MergeFollows
  <2>2. PICK p : p = FMergeOp.pkt
    OBVIOUS
  <2>3. (Lossy(p) /\ Uneven(p)) => (Lossy(p)' /\ Uneven(p)')
    BY <1>3 DEF Later
  <2>4. MergeAt(K, C, E)'
    BY <1>2, <1>10, <2>1, <2>2, <2>3 DEF MergeAt
  <2>5. QED
    BY <2>4
<1>11. QED
  BY <1>4, <1>5, <1>7, <1>8, <1>9, <1>10

(* Parts are lost, or come to the customer's kernel.                       *)
LEMMA DropKeeps ==
  ASSUME Inductive, Entirety, NEW S, Dropped(S), Later, \A y \in S : Lossy(y.pkt)',
         UNCHANGED <<cut, sizeOf, out, FMergeOp>>,
         reported' = reported \/ \E x : reported' = reported \cup {<<x, SendError>>}
  PROVE  Entirety'
<1>1. PICK X : X = {}
  OBVIOUS
<1>2. \A p : Blamed(p)' = Blamed(p) /\ Delivered(p)' = Delivered(p) /\ Reported(p)' = Reported(p)
  <2>1. \A p : Blamed(p)' = Blamed(p)
    <3>1. "E_PACKET_LOST" # SendError
      BY DEF SendError
    <3>2. QED
      BY <3>1 DEF Blamed
  <2>2. \A p : Reported(p)' = Reported(p)
    BY ReportsStay
  <2>3. QED
    BY <2>1, <2>2 DEF Delivered
<1>3. \A p : p \in X \/ /\ Blamed(p)' = Blamed(p)
                        /\ Delivered(p) => Delivered(p)'
                        /\ Reported(p) => Reported(p)'
  BY <1>2
<1>4. \A y \in S : y.pkt \in X \/ Lossy(y.pkt)'
  OBVIOUS
<1>5. /\ EndsMatch' /\ Noted'
      /\ \A q \in InFlight' : q.pkt \in X \/ (Sound(q.pkt)' => Linked(q)')
      /\ \A p \in Packets' : p \in X \/ (Sound(p)' => HasLast(p)')
      /\ \A p : p \in X \/ (Sound(p)' /\ ~Recurs(p)' => ~Blamed(p)')
      /\ MergeFollows'
  BY <1>3, <1>4, OthersKeep
<1>6. Chained' /\ Lasts' /\ NotBlamed'
  BY <1>1, <1>5 DEF Chained, Lasts, NotBlamed
<1>7. EntireUnlessUneven'
  BY EntriesStay DEF Inductive, IInv, Fates, Entirety
<1>8. QED
  BY <1>5, <1>6, <1>7 DEF Entirety

(* The parts w of one packet are taken from the front of the list.         *)
Taken(w) ==
  /\ w \in Seq(Part) /\ Len(w) \in Nat \ {0}
  /\ \A i \in 1 .. Len(w) : w[i] \in InFlight /\ w[i] \in Arriving /\ w[i].pkt = w[1].pkt
  /\ \A i, j \in 1 .. Len(w) : i < j => Precedes(cut, w[i], w[j])
  /\ \A i \in 1 .. Len(w) : \A r \in InFlight' : Precedes(cut, w[i], r)

LEMMA TakenIs ==
  ASSUME TypeOK, Flow, NEW k \in 1 .. Len(aWhat), UNCHANGED <<wire, cut, levels>>,
         aWhat' = SubSeq(aWhat, k + 1, Len(aWhat)), NEW w \in Seq(Part), Len(w) = k,
         \A i \in 1 .. k : w[i] = aWhat[i] /\ aWhat[i].pkt = aWhat[1].pkt
  PROVE  Taken(w) /\ Dropped(Elems(w))
<1>1. /\ InFlight' \subseteq InFlight
      /\ \A i \in 1 .. k : /\ aWhat[i] \in InFlight
                           /\ \A r \in InFlight' : Precedes(cut, aWhat[i], r)
      /\ \A q \in InFlight : q \in InFlight' \/ \E i \in 1 .. k : q = aWhat[i]
      /\ Arriving' \subseteq Arriving
  BY ListShrinks
<1>2. Len(aWhat) \in Nat /\ k \in Nat \ {0} /\ 1 \in 1 .. k /\ 1 .. k \subseteq 1 .. Len(aWhat)
  BY LenProperties DEF TypeOK
<1>3. InOrder(cut, aWhat)
  BY LinesAre, LinksAre DEF Flow, Ordered
<1>4. \A i \in 1 .. k : aWhat[i] \in Arriving
  BY <1>2 DEF Arriving, Elems
<1>5. \A i, j \in 1 .. k : i < j => Precedes(cut, w[i], w[j])
  BY <1>2, <1>3 DEF InOrder
<1>6. Taken(w)
  BY <1>1, <1>2, <1>4, <1>5 DEF Taken
<1>7. Dropped(Elems(w))
  BY <1>1 DEF Dropped, Elems
<1>8. QED
  BY <1>6, <1>7

(* A part that is first and last is the packet.                            *)
LEMMA WholeIsEntire ==
  ASSUME TypeOK, Flow, EndsMatch, NEW q \in InFlight, q.pkt \notin cut, q.FCounter = 1, q.FIsLast
  PROVE  q.data = Bytes(sizeOf[q.pkt])
<1>1. q \in Part /\ Counted(cut, q) /\ Slice(q)
  BY NumbersInFlight
<1>2. Begin(q) = 0 /\ End(q) = sizeOf[q.pkt]
  BY <1>1 DEF Counted, EndsMatch
<1>3. q.data \in Seq(Nat)
  BY <1>1 DEF Part
<1>4. Len(q.data) \in Nat /\ DOMAIN q.data = 1 .. Len(q.data)
  BY <1>3, LenProperties
<1>5. Len(q.data) = sizeOf[q.pkt] /\ \A i \in 1 .. Len(q.data) : q.data[i] = i
  BY <1>1, <1>2, <1>4 DEF End, Slice
<1>6. q.data = [i \in 1 .. Len(q.data) |-> q.data[i]]
  BY <1>3, <1>4
<1>7. QED
  BY <1>5, <1>6 DEF Bytes

(* A packet that was not split is given to the customer or refused.        *)
LEMMA PassEntire ==
  ASSUME Inductive, Entirety, PassOrRefuse
  PROVE  Entirety'
<1> DEFINE part == Head(aWhat)
           fits == CustomerMax = 0 \/ CustomerMax >= Len(part.data)
<1>1. /\ aWhat # <<>> /\ ~MIsSplited(part)
      /\ out' = IF fits THEN Append(out, [pkt |-> part.pkt, data |-> part.data]) ELSE out
      /\ reported' = IF fits THEN reported ELSE reported \cup {<<part.pkt, "E_DATA_TOO_LARGE">>}
      /\ aWhat' = Tail(aWhat)
      /\ UNCHANGED <<sizeOf, wire, FMergeOp, lost, levels, cut>>
  BY DEF PassOrRefuse, history
<1>2. TypeOK /\ Flow /\ OutType /\ Fates /\ aWhat \in Seq(Part) /\ EndsMatch
  BY DEF Inductive, IInv, TypeOK, Entirety
<1>3. Len(aWhat) \in Nat \ {0} /\ part = aWhat[1] /\ part \in InFlight
  BY <1>1, <1>2, HeadIsFirst
<1>4. PICK k \in 1 .. Len(aWhat) : k = 1
  BY <1>3
<1>5. aWhat' = SubSeq(aWhat, k + 1, Len(aWhat))
  BY <1>1, <1>2, <1>4, TailIsSubSeq
<1>6. PICK a, w, x : a = part /\ w = <<a>> /\ x = a.pkt
  OBVIOUS
<1>7. a \in Part /\ a \in InFlight /\ a = aWhat[1] /\ x \in Packets
  BY <1>2, <1>3, <1>6, PartsInFlight DEF Fates, FateAhead
<1>8. /\ w \in Seq(Part) /\ Len(w) = k /\ w[1] = a
      /\ \A i \in 1 .. k : w[i] = aWhat[i] /\ aWhat[i].pkt = aWhat[1].pkt
  BY <1>4, <1>6, <1>7
<1>9. Taken(w) /\ Dropped(Elems(w))
  BY <1>1, <1>2, <1>5, <1>8, TakenIs
<1>10. /\ a.FIsLast /\ a.FCounter = 1 /\ Elems(w) = {a}
       /\ \A r \in InFlight' : r.pkt # x
  <2>1. a.FIsLast /\ a.FCounter = 1
    BY <1>1, <1>6 DEF MIsSplited
  <2>2. Elems(w) = {a}
    BY <1>6 DEF Elems
  <2>3. ASSUME NEW r \in InFlight' PROVE r.pkt # x
    <3>1. r \in InFlight /\ Precedes(cut, a, r)
      BY <1>4, <1>8, <1>9 DEF Taken, Dropped
    <3>2. r.pkt \in Nat /\ x \in Nat
      BY <1>2, <1>7, <3>1 DEF Fates, FateAhead, Packets
    <3>3. QED
      BY <1>6, <2>1, <3>1, <3>2 DEF Precedes
  <2>4. QED
    BY <2>1, <2>2, <2>3
<1>11. Later
  BY <1>1 DEF Later, Lossy
<1>12. /\ out' = out \/ out' = Append(out, [pkt |-> x, data |-> a.data])
       /\ reported' = reported \/ reported' = reported \cup {<<x, "E_DATA_TOO_LARGE">>}
       /\ out' = Append(out, [pkt |-> x, data |-> a.data]) \/ <<x, "E_DATA_TOO_LARGE">> \in reported'
  BY <1>1, <1>6
<1>13. \A p : (Delivered(p) => Delivered(p)') /\ (Reported(p) => Reported(p)')
  <2>1. PICK o, e : o = [pkt |-> x, data |-> a.data] /\ e = "E_DATA_TOO_LARGE"
    OBVIOUS
  <2>2. /\ out' = out \/ out' = Append(out, o)
        /\ reported' = reported \/ reported' = reported \cup {<<x, e>>}
    BY <1>12, <2>1
  <2>3. QED
    BY <1>2, <2>2, FatesStay
<1>14. \A p : Blamed(p)' = Blamed(p)
  <2>1. "E_PACKET_LOST" # "E_DATA_TOO_LARGE"
    OBVIOUS
  <2>2. QED
    BY <1>12, <2>1 DEF Blamed
<1>15. PICK X, S : X = {x} /\ S = Elems(w)
  OBVIOUS
<1>16. /\ \A y \in S : y.pkt \in X \/ Lossy(y.pkt)'
       /\ \A p : p \in X \/ /\ Blamed(p)' = Blamed(p)
                            /\ Delivered(p) => Delivered(p)'
                            /\ Reported(p) => Reported(p)'
  BY <1>6, <1>10, <1>13, <1>14, <1>15
<1>17. /\ EndsMatch' /\ Noted'
       /\ \A q \in InFlight' : q.pkt \in X \/ (Sound(q.pkt)' => Linked(q)')
       /\ \A p \in Packets' : p \in X \/ (Sound(p)' => HasLast(p)')
       /\ MergeFollows'
  BY <1>1, <1>9, <1>11, <1>15, <1>16, OthersKeep
<1>18. Delivered(x)' \/ Reported(x)'
  BY <1>2, <1>12, IsDelivered DEF Reported
<1>19. Chained' /\ Lasts'
  BY <1>10, <1>15, <1>17, <1>18 DEF Chained, Lasts, HasLast
<1>20. NotBlamed'
  <2>1. \A p : (Sound(p)' => Sound(p)) /\ (Recurs(p) => Recurs(p)')
    BY <1>11, LaterIs
  <2>2. QED
    BY <1>14, <2>1 DEF NotBlamed, Entirety
<1>21. EntireUnlessUneven'
  <2>1. PICK o : o = [pkt |-> x, data |-> a.data]
    OBVIOUS
  <2>2. o.pkt = x /\ o.data = a.data
    BY <2>1
  <2>3. x \in cut \/ a.data = Bytes(sizeOf[x])
    BY <1>2, <1>6, <1>7, <1>10, WholeIsEntire
  <2>4. Entry(o)'
    BY <1>1, <2>2, <2>3 DEF Entry, IsEntire, Bytes
  <2>5. out' = out \/ out' = Append(out, o)
    BY <1>12, <2>1
  <2>6. QED
    BY <1>1, <1>2, <1>11, <2>4, <2>5, EntriesStay DEF Fates, Entirety
<1>22. QED
  BY <1>17, <1>19, <1>20, <1>21 DEF Entirety

(* The merge of an earlier packet is given up.                             *)
LEMMA SupersedeEntire ==
  ASSUME Inductive, Entirety, Supersede
  PROVE  Entirety'
<1>1. /\ aWhat # <<>> /\ FMergeOp # NoOp /\ FMergeOp.pkt # Head(aWhat).pkt
      /\ reported' = reported \cup {<<FMergeOp.pkt, "E_PACKET_LOST">>}
      /\ FMergeOp' = NoOp
      /\ UNCHANGED <<sizeOf, wire, aWhat, out, lost, levels, cut>>
  BY DEF Supersede, history
<1>2. TypeOK /\ Flow /\ OutType /\ Fates
  BY DEF Inductive, IInv
<1>3. PICK x, e, S, X : x = FMergeOp.pkt /\ e = "E_PACKET_LOST" /\ S = {} /\ X = {x}
  OBVIOUS
<1>4. Lines' = Lines /\ InFlight' = InFlight /\ Arriving' = Arriving
  BY <1>1 DEF Lines, InFlight, Arriving
<1>5. Dropped(S) /\ Later
  BY <1>1, <1>4 DEF Dropped, Later, Lossy
<1>6. ASSUME NEW r \in InFlight PROVE r.pkt # x
  <2>1. /\ Head(aWhat) = aWhat[1] /\ aWhat[1] \in InFlight
        /\ r = aWhat[1] \/ Precedes(cut, aWhat[1], r)
    BY <1>1, <1>2, HeadIsFirst
  <2>2. PICK a : a = aWhat[1]
    OBVIOUS
  <2>3. a \in InFlight /\ x # a.pkt /\ (r = a \/ Precedes(cut, a, r))
    BY <1>1, <1>3, <2>1, <2>2
  <2>4. x <= a.pkt /\ a.pkt \in Nat /\ r.pkt \in Nat /\ x \in Nat
    BY <1>1, <1>2, <1>3, <2>3 DEF Fates, FateAhead, Packets, TypeOK
  <2>5. a.pkt <= r.pkt
    BY <2>3, <2>4 DEF Precedes
  <2>6. QED
    BY <2>3, <2>4, <2>5
<1>7. \A p : (Delivered(p) => Delivered(p)') /\ (Reported(p) => Reported(p)')
  BY <1>1 DEF Delivered, Reported
<1>8. \A p : p # x => Blamed(p)' = Blamed(p)
  BY <1>1, <1>3 DEF Blamed
<1>9. /\ EndsMatch' /\ Noted'
      /\ \A q \in InFlight' : q.pkt \in X \/ (Sound(q.pkt)' => Linked(q)')
      /\ \A p \in Packets' : p \in X \/ (Sound(p)' => HasLast(p)')
      /\ \A p : p \in X \/ (Sound(p)' /\ ~Recurs(p)' => ~Blamed(p)')
  <2>1. /\ \A y \in S : y.pkt \in X \/ Lossy(y.pkt)'
        /\ \A p : p \in X \/ /\ Blamed(p)' = Blamed(p)
                             /\ Delivered(p) => Delivered(p)'
                             /\ Reported(p) => Reported(p)'
        /\ FMergeOp.pkt \in X \cup {0}
    BY <1>3, <1>7, <1>8
  <2>2. QED
    BY <1>1, <1>5, <2>1, OthersKeep
<1>10. Reported(x)'
  BY <1>1, <1>3 DEF Reported
<1>11. Chained' /\ Lasts'
  BY <1>3, <1>4, <1>6, <1>9, <1>10 DEF Chained, Lasts, HasLast
<1>12. ~Sound(x)
  <2> SUFFICES ASSUME Sound(x) PROVE FALSE
    OBVIOUS
  <2>1. x \in Packets /\ x \notin cut
    BY <1>1, <1>2, <1>3 DEF TypeOK, Sound
  <2>2. HasLast(x)
    BY <2>1 DEF Entirety, Lasts
  <2>3. Delivered(x) \/ Reported(x)
    BY <1>6, <2>2 DEF HasLast
  <2>4. ~Reported(x) /\ \A n \in 1 .. Len(out) : out[n].pkt # x
    BY <1>1, <1>2, <1>3, <2>1 DEF Fates, MergeIsOpen
  <2>5. QED
    BY <1>2, <2>3, <2>4, OutIs DEF Delivered
<1>13. NotBlamed'
  <2>1. Sound(x)' => Sound(x)
    BY <1>5, LaterIs
  <2>2. QED
    BY <1>3, <1>9, <1>12, <2>1 DEF NotBlamed
<1>14. MergeFollows' /\ EntireUnlessUneven'
  BY <1>1, <1>2, <1>5, EntriesStay DEF MergeFollows, Fates, Entirety
<1>15. QED
  BY <1>9, <1>11, <1>13, <1>14 DEF Entirety

-----------------------------------------------------------------------------
(* The merge.                                                              *)

(* MMerge handles the parts w, op being the merge under way or a new one.  *)
Fails(w, op) == (FMergeOp = NoOp /\ w[1].FCounter # 1) \/ ~InSequence(op, w)
Merges(w, op) ==
  /\ Taken(w) /\ Dropped(Elems(w))
  /\ op = IF FMergeOp = NoOp THEN OpFor(w[1]) ELSE FMergeOp
  /\ op.pkt = w[1].pkt
  /\ \/ /\ Fails(w, op) /\ FMergeOp' = NoOp /\ out' = out
        /\ reported' = reported \cup {<<op.pkt, "E_PACKET_LOST">>}
     \/ /\ ~Fails(w, op) /\ w[Len(w)].FIsLast /\ FMergeOp' = NoOp /\ reported' = reported
        /\ out' = Append(out, [pkt |-> op.pkt, data |-> op.buf \o DataOf(w)])
     \/ /\ ~Fails(w, op) /\ ~w[Len(w)].FIsLast /\ out' = out /\ reported' = reported
        /\ FMergeOp'.pkt = op.pkt /\ FMergeOp'.buf = op.buf \o DataOf(w)
        /\ FMergeOp'.FSplitLevel = LevelAfter(op, w)

LEMMA MMergeDoes ==
  ASSUME IInv, MMerge
  PROVE  /\ \E w, op : Merges(w, op)
         /\ UNCHANGED <<sizeOf, lost, levels, cut>>
<1> DEFINE w == Run
           op == IF FMergeOp = NoOp THEN OpFor(w[1]) ELSE FMergeOp
           fail == \/ FMergeOp = NoOp /\ w[1].FCounter # 1
                   \/ ~InSequence(op, w)
           A == op.buf \o DataOf(w)
           B == LevelAfter(op, w)
           merged == [op EXCEPT !.buf = A, !.FSplitLevel = B]
           done == w[Len(w)].FIsLast
<1>1. /\ aWhat # <<>>
      /\ FMergeOp = NoOp \/ FMergeOp.pkt = w[1].pkt
      /\ FMergeOp' = IF fail \/ done THEN NoOp ELSE merged
      /\ out' = IF ~fail /\ done
                THEN Append(out, [pkt |-> op.pkt, data |-> merged.buf]) ELSE out
      /\ reported' = IF fail THEN reported \cup {<<op.pkt, "E_PACKET_LOST">>} ELSE reported
      /\ aWhat' = SubSeq(aWhat, Len(w) + 1, Len(aWhat))
      /\ UNCHANGED <<sizeOf, wire, lost, levels, cut>>
  BY DEF MMerge, history
<1>2. TypeOK /\ Flow /\ OpType /\ aWhat \in Seq(Part)
  BY DEF IInv, TypeOK
<1>3. PICK n \in 1 .. Len(aWhat) :
         /\ w = SubSeq(aWhat, 1, n)
         /\ Len(w) = n /\ \A i \in 1 .. n : w[i] = aWhat[i] /\ aWhat[i].pkt = aWhat[1].pkt
  BY <1>1, <1>2, RunIs
<1>4. Len(aWhat) \in Nat /\ n \in 0 .. Len(aWhat)
  BY <1>2, <1>3, LenProperties
<1>5. w \in Seq(Part)
  <2>1. 1 \in Int /\ n \in Int /\ \A i \in 1 .. n : aWhat[i] \in Part
    BY <1>2, <1>3, <1>4, ElementOfSeq
  <2>2. QED
    BY <1>3, <2>1, SubSeqProperties
<1> HIDE DEF w
<1>6. Taken(w) /\ Dropped(Elems(w))
  BY <1>1, <1>2, <1>3, <1>5, TakenIs
<1>7. IsOp(op) /\ op.pkt = w[1].pkt
  <2>1. CASE FMergeOp = NoOp
    BY <2>1, OpForIs
  <2>2. CASE FMergeOp # NoOp
    BY <1>1, <1>2, <2>2 DEF OpType, IsOp
  <2>3. QED
    BY <2>1, <2>2
<1>8. op = IF FMergeOp = NoOp THEN OpFor(w[1]) ELSE FMergeOp
  OBVIOUS
<1> HIDE DEF op, A, B
<1>9. merged.pkt = op.pkt /\ merged.buf = A /\ merged.FSplitLevel = B
  <2>1. IsMerged(merged, op, A, B)
    BY <1>7, MergedIs
  <2>2. QED
    BY <2>1 DEF IsMerged
<1> HIDE DEF merged
<1>10. Fails(w, op) <=> fail
  BY DEF Fails
<1>11. CASE fail
  <2>1. /\ Fails(w, op) /\ FMergeOp' = NoOp /\ out' = out
        /\ reported' = reported \cup {<<op.pkt, "E_PACKET_LOST">>}
    BY <1>1, <1>10, <1>11
  <2>2. Merges(w, op)
    BY <1>6, <1>7, <1>8, <2>1 DEF Merges
  <2>3. QED
    BY <1>1, <2>2
<1>12. CASE ~fail /\ done
  <2>1. /\ ~Fails(w, op) /\ w[Len(w)].FIsLast /\ FMergeOp' = NoOp /\ reported' = reported
        /\ out' = Append(out, [pkt |-> op.pkt, data |-> op.buf \o DataOf(w)])
    BY <1>1, <1>9, <1>10, <1>12 DEF A
  <2>2. Merges(w, op)
    BY <1>6, <1>7, <1>8, <2>1 DEF Merges
  <2>3. QED
    BY <1>1, <2>2
<1>13. CASE ~fail /\ ~done
  <2>1. /\ ~Fails(w, op) /\ ~w[Len(w)].FIsLast /\ out' = out /\ reported' = reported
        /\ FMergeOp'.pkt = op.pkt /\ FMergeOp'.buf = op.buf \o DataOf(w)
        /\ FMergeOp'.FSplitLevel = LevelAfter(op, w)
    BY <1>1, <1>9, <1>10, <1>13 DEF A, B
  <2>2. Merges(w, op)
    BY <1>6, <1>7, <1>8, <2>1 DEF Merges
  <2>3. QED
    BY <1>1, <2>2
<1>14. QED
  BY <1>11, <1>12, <1>13

(* Where the parts of a run are.                                           *)
LEMMA TakenPlaces ==
  ASSUME TypeOK, Flow, NEW w, Taken(w), w[1].pkt \notin cut
  PROVE  /\ \A i \in 1 .. Len(w) :
              /\ Slice(w[i]) /\ Begin(w[i]) \in Nat /\ End(w[i]) \in Nat /\ Begin(w[i]) < End(w[i])
              /\ w[i].FCounter \in Nat /\ w[i].FCounter - 1 \in Nat
              /\ w[i].FCoefficient \in Nat \ {0}
              /\ (w[i].FCounter = 1) <=> (Begin(w[i]) = 0)
         /\ \A i, j \in 1 .. Len(w) : i < j => Ahead(w[i], w[j]) /\ End(w[i]) <= Begin(w[j])
         /\ \A i \in 1 .. Len(w) : \A r \in InFlight' :
              r.pkt = w[1].pkt => Ahead(w[i], r) /\ End(w[i]) <= Begin(r)
<1>1. \A q, r : Ahead(q, r) => End(q) <= Begin(r)
  BY DEF Ahead, Before
<1>2. ASSUME NEW i \in 1 .. Len(w)
      PROVE  /\ Slice(w[i]) /\ Begin(w[i]) \in Nat /\ End(w[i]) \in Nat /\ Begin(w[i]) < End(w[i])
             /\ w[i].FCounter \in Nat /\ w[i].FCounter - 1 \in Nat
             /\ w[i].FCoefficient \in Nat \ {0}
             /\ (w[i].FCounter = 1) <=> (Begin(w[i]) = 0)
  <2>1. PICK q \in InFlight : q = w[i] /\ q.pkt \notin cut
    BY DEF Taken
  <2>2. /\ Slice(q) /\ Begin(q) \in Nat /\ End(q) \in Nat /\ Begin(q) < End(q)
        /\ q.FCounter \in Nat /\ q.FCounter - 1 \in Nat /\ q.FCoefficient \in Nat \ {0}
        /\ Counted(cut, q)
    BY <2>1, NumbersInFlight
  <2>3. (q.FCounter = 1) <=> (Begin(q) = 0)
    BY <2>1, <2>2 DEF Counted
  <2>4. QED
    BY <2>1, <2>2, <2>3
<1>3. \A i, j \in 1 .. Len(w) : i < j => Ahead(w[i], w[j])
  BY DEF Taken, Precedes
<1>4. ASSUME NEW i \in 1 .. Len(w), NEW r \in InFlight', r.pkt = w[1].pkt PROVE Ahead(w[i], r)
  BY <1>4 DEF Taken, Precedes
<1>5. QED
  BY <1>1, <1>2, <1>3, <1>4

(* What ends where a part of the run begins is the part before it; and     *)
(* what ends where one behind the run begins is behind it or ends it.      *)
LEMMA PartBefore ==
  ASSUME TypeOK, Flow, NEW w, Taken(w), Dropped(Elems(w)), w[1].pkt \notin cut,
         NEW r \in InFlight, r.pkt = w[1].pkt
  PROVE  /\ \A i \in 1 .. Len(w) : End(r) = Begin(w[i]) => i # 1 /\ End(w[i - 1]) = Begin(w[i])
         /\ \A q \in InFlight' : (q.pkt = w[1].pkt /\ End(r) = Begin(q)) =>
              r \in InFlight' \/ End(w[Len(w)]) = Begin(q)
<1> DEFINE n == Len(w)
<1>1. /\ \A i \in 1 .. n : Begin(w[i]) \in Nat /\ End(w[i]) \in Nat /\ Begin(w[i]) < End(w[i])
      /\ \A i, j \in 1 .. n : i < j => End(w[i]) <= Begin(w[j])
      /\ \A i \in 1 .. n : \A q \in InFlight' : q.pkt = w[1].pkt => End(w[i]) <= Begin(q)
  BY TakenPlaces
<1>2. n \in Nat \ {0}
  BY DEF Taken
<1>3. Begin(r) \in Nat /\ End(r) \in Nat /\ Begin(r) < End(r)
  BY NumbersInFlight
<1>4. r \in InFlight' \/ \E j \in 1 .. n : r = w[j]
  BY DEF Dropped, Elems
<1>5. ASSUME NEW i \in 1 .. n, End(r) = Begin(w[i]) PROVE i # 1 /\ End(w[i - 1]) = Begin(w[i])
  <2>1. CASE r \in InFlight'
    <3>1. End(w[i]) <= Begin(r)
      BY <1>1, <2>1
    <3>2. QED
      BY <1>1, <1>3, <1>5, <3>1
  <2>2. CASE \E j \in 1 .. n : r = w[j]
    <3>1. PICK j \in 1 .. n : r = w[j]
      BY <2>2
    <3>2. CASE i <= j
      <4>1. i < j => End(w[i]) <= Begin(r)
        BY <1>1, <3>1
      <4>2. i = j => Begin(r) = Begin(w[i])
        BY <3>1
      <4>3. QED
        BY <1>1, <1>3, <1>5, <3>2, <4>1, <4>2
    <3>3. CASE j < i
      <4>1. i # 1 /\ i - 1 \in 1 .. n /\ i - 1 < i
        BY <3>3
      <4>2. End(w[i - 1]) <= Begin(w[i]) /\ End(w[i - 1]) \in Nat /\ Begin(w[i - 1]) < End(w[i - 1])
            /\ Begin(w[i - 1]) \in Nat
        BY <1>1, <4>1
      <4>3. CASE j = i - 1
        BY <1>5, <3>1, <4>1, <4>3
      <4>4. CASE j < i - 1
        <5>1. End(r) <= Begin(w[i - 1])
          BY <1>1, <3>1, <4>1, <4>4
        <5>2. QED
          BY <1>1, <1>3, <1>5, <4>2, <5>1
      <4>5. QED
        BY <3>3, <4>3, <4>4
    <3>4. QED
      BY <3>2, <3>3
  <2>3. QED
    BY <1>4, <2>1, <2>2
<1>6. ASSUME NEW q \in InFlight', q.pkt = w[1].pkt, End(r) = Begin(q), r \notin InFlight'
      PROVE  End(w[n]) = Begin(q)
  <2>1. PICK j \in 1 .. n : r = w[j]
    BY <1>4, <1>6
  <2>2. n \in 1 .. n /\ End(w[n]) <= Begin(q)
    BY <1>1, <1>2, <1>6
  <2>3. CASE j = n
    BY <1>6, <2>1, <2>3
  <2>4. CASE j # n
    <3>1. End(r) <= Begin(w[n])
      BY <1>1, <1>2, <2>1, <2>2, <2>4
    <3>2. QED
      BY <1>1, <1>3, <1>6, <2>2, <3>1, SMTT(30)
  <2>5. QED
    BY <2>3, <2>4
<1>7. QED
  BY <1>5, <1>6

(* Nothing is missing in a run of a packet that lost nothing.              *)
LEMMA SoundFollows ==
  ASSUME TypeOK, Flow, Chained, NEW w, Taken(w), Dropped(Elems(w)), NEW x, x = w[1].pkt, x # 0,
         Sound(x), ~Blamed(x), NEW e \in Nat, e <= Begin(w[1]),
         FMergeOp = NoOp => e = 0, FMergeOp.pkt = x => Len(FMergeOp.buf) = e
  PROVE  Follows(w, e)
<1> DEFINE n == Len(w)
<1>1. n \in Nat \ {0} /\ x \notin cut /\ \A i \in 1 .. n : w[i] \in InFlight /\ w[i].pkt = x
  BY DEF Taken, Sound
<1>2. /\ \A i \in 1 .. n : Begin(w[i]) \in Nat /\ End(w[i]) \in Nat /\ Begin(w[i]) < End(w[i])
      /\ \A i, j \in 1 .. n : i < j => End(w[i]) <= Begin(w[j])
  BY <1>1, TakenPlaces
<1>3. ASSUME NEW i \in 1 .. n
      PROVE  Begin(w[i]) = 0 \/ (i # 1 /\ End(w[i - 1]) = Begin(w[i])) \/ e = Begin(w[i])
  <2>1. Linked(w[i])
    BY <1>1 DEF Chained
  <2>2. \A r \in InFlight : (r.pkt = x /\ End(r) = Begin(w[i])) =>
          i # 1 /\ End(w[i - 1]) = Begin(w[i])
    BY <1>1, PartBefore
  <2>3. QED
    BY <1>1, <2>1, <2>2 DEF Linked
<1>4. 1 \in 1 .. n /\ Begin(w[1]) = e
  <2>1. 1 \in 1 .. n
    BY <1>1
  <2>2. Begin(w[1]) = 0 \/ e = Begin(w[1])
    BY <1>3, <2>1
  <2>3. QED
    BY <1>2, <2>1, <2>2
<1>5. ASSUME NEW i \in 1 .. n - 1 PROVE Begin(w[i + 1]) = End(w[i])
  <2>1. PICK j : j = i + 1
    OBVIOUS
  <2>2. i \in 1 .. n /\ j \in 1 .. n /\ i < j /\ j - 1 = i /\ 1 < j
    BY <1>1, <2>1
  <2>3. End(w[i]) <= Begin(w[j]) /\ End(w[1]) <= Begin(w[j])
    BY <1>2, <1>4, <2>2
  <2>4. Begin(w[j]) # 0 /\ e # Begin(w[j])
    BY <1>2, <1>4, <2>2, <2>3, SMTT(30)
  <2>5. End(w[j - 1]) = Begin(w[j])
    BY <1>3, <2>2, <2>4
  <2>6. QED
    BY <2>1, <2>2, <2>5
<1>6. QED
  BY <1>4, <1>5 DEF Follows

LEMMA LevelsTell ==
  ASSUME NEW x, NEW a, NEW b, <<x, a, b>> \in levels, a # b
  PROVE  Uneven(x) /\ (<<x, b, a>> \in levels => Recurs(x))
<1>1. PICK l : l = <<x, a, b>>
  OBVIOUS
<1>2. l \in levels /\ l[1] = x /\ l[2] = a /\ l[3] = b
  BY <1>1
<1>3. QED
  BY <1>2 DEF Uneven, Recurs

(* With one coefficient, the counters tell that nothing is missing.        *)
LEMMA EvenFollows ==
  ASSUME TypeOK, Flow, NEW w, Taken(w), w[1].pkt \notin cut, NEW op, InSequence(op, w),
         \A i \in 1 .. Len(w) : w[i].FCoefficient = w[1].FCoefficient
  PROVE  /\ \A i \in 1 .. Len(w) - 1 : Begin(w[i + 1]) = End(w[i])
         /\ w[1].FCoefficient \in DOMAIN op.FSplitLevel =>
              w[1].FCounter = op.FSplitLevel[w[1].FCoefficient] + 1
<1> DEFINE n == Len(w)
<1>1. n \in Nat \ {0} /\ DOMAIN w = 1 .. n
  BY LenProperties DEF Taken
<1>2. \A i \in 1 .. n :
        /\ \A k \in Alike(w, i) :
             (\A j \in Alike(w, i) : j <= k) => w[i].FCounter = w[k].FCounter + 1
        /\ (Alike(w, i) = {} /\ w[i].FCoefficient \in DOMAIN op.FSplitLevel) =>
             w[i].FCounter = op.FSplitLevel[w[i].FCoefficient] + 1
  BY <1>1, SequenceIs, SMTT(30)
<1>3. ASSUME NEW i \in 1 .. n - 1 PROVE Begin(w[i + 1]) = End(w[i])
  <2>1. PICK j : j = i + 1
    OBVIOUS
  <2>2. i \in 1 .. n /\ j \in 1 .. n /\ i < j /\ i \in 1 .. j - 1 /\ \A m \in 1 .. j - 1 : m <= i
    BY <1>1, <2>1
  <2>3. i \in Alike(w, j) /\ \A m \in Alike(w, j) : m <= i
    BY <2>2 DEF Alike
  <2>4. w[j].FCounter = w[i].FCounter + 1
    BY <1>2, <2>2, <2>3
  <2>5. PICK k, c : k = w[i].FCounter /\ c = w[i].FCoefficient
    OBVIOUS
  <2>6. k \in Nat /\ c \in Nat /\ Ahead(w[i], w[j]) /\ w[j].FCoefficient = c
    BY <2>2, <2>5, TakenPlaces
  <2>7. k * c \in Nat /\ w[j].FCounter - 1 = k
    BY <2>4, <2>5, <2>6, SMTT(30)
  <2>8. End(w[i]) = Begin(w[j])
    BY <2>5, <2>6, <2>7 DEF Ahead, Before
  <2>9. QED
    BY <2>1, <2>8
<1>4. 1 \in 1 .. n /\ Alike(w, 1) = {}
  BY <1>1 DEF Alike
<1>5. QED
  BY <1>2, <1>3, <1>4

LEMMA NewOpIs ==
  ASSUME NEW q PROVE OpFor(q).buf = Bytes(0) /\ DOMAIN OpFor(q).FSplitLevel = {}
<1>1. OpFor(q) = [pkt |-> q.pkt, buf |-> <<>>, FSplitLevel |-> <<>>]
  BY DEF OpFor, NoOp
<1>2. 1 .. 0 = {}
  OBVIOUS
<1>3. Bytes(0) = <<>>
  BY <1>2 DEF Bytes
<1>4. DOMAIN <<>> = {}
  OBVIOUS
<1>5. QED
  BY <1>1, <1>3, <1>4

(* What was merged so far.                                                 *)
LEMMA MergeStarts ==
  ASSUME Inductive, Entirety, NEW w, NEW op, Merges(w, op), NEW x, x = w[1].pkt, x \notin cut,
         ~(Lossy(x) /\ Uneven(x))
  PROVE  \E e \in Nat :
           /\ op.buf = Bytes(e) /\ e <= Begin(w[1]) /\ x # 0
           /\ FMergeOp = NoOp => e = 0
           /\ FMergeOp # NoOp => \E K, C : MergeAt(K, C, e)
           /\ FMergeOp.pkt = x => Len(FMergeOp.buf) = e
<1>1. TypeOK /\ Flow /\ Fates /\ MergeFollows
  BY DEF Inductive, IInv, Entirety
<1>2. /\ Taken(w) /\ op = (IF FMergeOp = NoOp THEN OpFor(w[1]) ELSE FMergeOp)
      /\ op.pkt = x
  BY DEF Merges
<1>3. 1 \in 1 .. Len(w) /\ w[1] \in InFlight /\ Begin(w[1]) \in Nat
  <2>1. 1 \in 1 .. Len(w)
    BY <1>2 DEF Taken
  <2>2. QED
    BY <1>1, <1>2, <2>1, TakenPlaces DEF Taken
<1>4. x # 0
  BY <1>1, <1>3 DEF Fates, FateAhead, Packets
<1>5. CASE FMergeOp = NoOp
  <2>1. PICK e : e = 0
    OBVIOUS
  <2>2. op.buf = Bytes(e) /\ e \in Nat /\ e <= Begin(w[1])
    BY <1>2, <1>3, <1>5, <2>1, NewOpIs
  <2>3. FMergeOp.pkt # x
    BY <1>4, <1>5 DEF NoOp
  <2>4. QED
    BY <1>4, <1>5, <2>1, <2>2, <2>3
<1>6. CASE FMergeOp # NoOp
  <2>1. op = FMergeOp /\ FMergeOp.pkt = x
    BY <1>2, <1>6
  <2>2. PICK K, C, E : MergeAt(K, C, E)
    BY <1>1, <1>6, <2>1 DEF MergeFollows
  <2>3. /\ E \in Nat /\ FMergeOp.buf = Bytes(E)
        /\ Before(K, C, E, w[1].FCounter - 1, w[1].FCoefficient, Begin(w[1]))
    BY <1>3, <2>1, <2>2 DEF MergeAt
  <2>4. E <= Begin(w[1])
    BY <2>3 DEF Before
  <2>5. Len(Bytes(E)) = E
    BY <2>3 DEF Bytes
  <2>6. QED
    BY <1>4, <1>6, <2>1, <2>2, <2>3, <2>4, <2>5
<1>7. QED
  BY <1>5, <1>6

(* What MMerge joins continues what was merged without a gap, unless the   *)
(* packet was split unevenly and a part is lost.                           *)
LEMMA MergeIsFollowed ==
  ASSUME Inductive, Entirety, NEW w, NEW op, Merges(w, op), ~Fails(w, op),
         NEW x, x = w[1].pkt, x \notin cut, ~(Lossy(x) /\ Uneven(x))
  PROVE  \E e \in Nat :
           /\ op.buf = Bytes(e) /\ Follows(w, e)
           /\ FMergeOp = NoOp => e = 0
           /\ FMergeOp.pkt = x => Len(FMergeOp.buf) = e
<1>1. TypeOK /\ Flow /\ Fates /\ Chained /\ Noted
  BY DEF Inductive, IInv, Entirety
<1>2. /\ Taken(w) /\ Dropped(Elems(w)) /\ w \in Seq(Part) /\ Len(w) \in Nat \ {0}
      /\ op = (IF FMergeOp = NoOp THEN OpFor(w[1]) ELSE FMergeOp)
      /\ op.pkt = x
  BY DEF Merges, Taken
<1>3. 1 \in 1 .. Len(w) /\ w[1] \in InFlight
  BY <1>2 DEF Taken
<1>4. /\ InSequence(op, w)
      /\ FMergeOp = NoOp => w[1].FCounter = 1
  BY DEF Fails
<1>5. PICK e \in Nat :
         /\ op.buf = Bytes(e) /\ e <= Begin(w[1]) /\ x # 0
         /\ FMergeOp = NoOp => e = 0
         /\ FMergeOp # NoOp => \E K, C : MergeAt(K, C, e)
         /\ FMergeOp.pkt = x => Len(FMergeOp.buf) = e
  BY MergeStarts
<1>6. /\ \A i \in 1 .. Len(w) : Slice(w[i])
      /\ w[1].FCounter = 1 => Begin(w[1]) = 0
  BY <1>1, <1>2, <1>3, TakenPlaces
<1>7. ~Blamed(x)
  <2>1. ~Reported(x)
    <3>1. CASE FMergeOp = NoOp
      BY <1>1, <1>3, <1>4, <3>1 DEF Fates, FateAhead, First
    <3>2. CASE FMergeOp # NoOp
      BY <1>1, <1>2, <3>2 DEF Fates, MergeIsOpen
    <3>3. QED
      BY <3>1, <3>2
  <2>2. QED
    BY <2>1 DEF Blamed, Reported
<1>8. Follows(w, e)
  <2>1. CASE ~Lossy(x)
    <3>1. Sound(x)
      BY <2>1 DEF Sound
    <3>2. QED
      BY <1>1, <1>2, <1>5, <1>7, <3>1, SoundFollows
  <2>2. CASE ~Uneven(x)
    <3>1. ASSUME NEW i \in 1 .. Len(w) PROVE w[i].FCoefficient = w[1].FCoefficient
      <4>1. w[1] \in Arriving /\ w[i] \in Arriving /\ w[i].pkt = x /\ (1 = i \/ 1 < i)
        BY <1>2, <1>3 DEF Taken
      <4>2. w[1] = w[i] \/ End(w[1]) <= Begin(w[i])
        BY <1>1, <1>2, <1>3, <4>1, TakenPlaces
      <4>3. <<x, w[1].FCoefficient, w[i].FCoefficient>> \in levels
        BY <1>1, <4>1, <4>2 DEF Noted
      <4>4. QED
        BY <2>2, <4>3, LevelsTell
    <3>2. /\ \A i \in 1 .. Len(w) - 1 : Begin(w[i + 1]) = End(w[i])
          /\ w[1].FCoefficient \in DOMAIN op.FSplitLevel =>
               w[1].FCounter = op.FSplitLevel[w[1].FCoefficient] + 1
      BY <1>1, <1>2, <1>4, <3>1, EvenFollows
    <3>3. Begin(w[1]) = e
      <4>1. CASE FMergeOp = NoOp
        BY <1>4, <1>5, <1>6, <4>1
      <4>2. CASE FMergeOp # NoOp
        <5>1. PICK K, C : MergeAt(K, C, e)
          BY <1>5, <4>2
        <5>2. op = FMergeOp /\ FMergeOp.pkt = x /\ w[1] \in Arriving
          BY <1>2, <1>3, <4>2 DEF Taken
        <5>3. /\ K \in Nat /\ C \in Nat \ {0}
              /\ C \in DOMAIN FMergeOp.FSplitLevel /\ FMergeOp.FSplitLevel[C] = K
              /\ Before(K, C, e, w[1].FCounter - 1, w[1].FCoefficient, Begin(w[1]))
              /\ <<x, C, w[1].FCoefficient>> \in levels
          BY <1>3, <5>1, <5>2 DEF MergeAt
        <5>4. w[1].FCoefficient = C
          BY <2>2, <5>3, LevelsTell
        <5>5. w[1].FCounter - 1 = K /\ K * C \in Nat
          BY <3>2, <5>2, <5>3, <5>4
        <5>6. QED
          BY <5>3, <5>4, <5>5 DEF Before
      <4>3. QED
        BY <4>1, <4>2
    <3>4. QED
      BY <3>2, <3>3 DEF Follows
  <2>3. QED
    BY <2>1, <2>2
<1>9. QED
  BY <1>5, <1>8

(* What MMerge joins is the packet up to the last part.                    *)
LEMMA MergeJoins ==
  ASSUME Inductive, Entirety, NEW w, NEW op, Merges(w, op), ~Fails(w, op),
         NEW x, x = w[1].pkt, x \notin cut
  PROVE  (Lossy(x) /\ Uneven(x)) \/ op.buf \o DataOf(w) = Bytes(End(w[Len(w)]))
<1> SUFFICES ASSUME ~(Lossy(x) /\ Uneven(x)) PROVE op.buf \o DataOf(w) = Bytes(End(w[Len(w)]))
  OBVIOUS
<1>1. TypeOK /\ Flow /\ Taken(w) /\ w \in Seq(Part) /\ Len(w) \in Nat \ {0}
  BY DEF Inductive, IInv, Merges, Taken
<1>2. PICK e \in Nat : op.buf = Bytes(e) /\ Follows(w, e)
  BY MergeIsFollowed
<1>3. \A i \in 1 .. Len(w) : Slice(w[i])
  BY <1>1, TakenPlaces
<1>4. Joined(Bytes(e), DataOf(w), Bytes(End(w[Len(w)])))
  BY <1>1, <1>2, <1>3, RunJoins
<1>5. QED
  BY <1>2, <1>4 DEF Joined

(* The counters of parts that meet.                                        *)
LEMMA CountersMeet ==
  ASSUME NEW k \in Nat, NEW c \in Nat \ {0}, NEW m \in Nat, NEW b \in Nat, Before(k, c, b, m, c, b)
  PROVE  m = k
<1>1. k * c = m * c
  BY DEF Before
<1>2. QED
  BY <1>1, ProductsCancel

(* MCheckingSequence finds nothing in a packet that lost nothing, unless a *)
(* coefficient recurs.                                                     *)
LEMMA SoundIsInSequence ==
  ASSUME Inductive, Entirety, NEW w, NEW op, Merges(w, op),
         NEW x, x = w[1].pkt, Sound(x), ~Recurs(x)
  PROVE  ~Fails(w, op)
<1> DEFINE n == Len(w)
<1>1. TypeOK /\ Flow /\ Fates /\ Chained /\ Noted /\ NotBlamed
  BY DEF Inductive, IInv, Entirety
<1>2. /\ Taken(w) /\ Dropped(Elems(w)) /\ w \in Seq(Part) /\ n \in Nat \ {0}
      /\ op = (IF FMergeOp = NoOp THEN OpFor(w[1]) ELSE FMergeOp)
      /\ op.pkt = x /\ x \notin cut /\ ~Lossy(x) /\ ~Blamed(x)
  BY <1>1 DEF Merges, Taken, Sound, NotBlamed
<1>3. /\ 1 \in 1 .. n /\ DOMAIN w = 1 .. n
      /\ \A i \in 1 .. n : w[i] \in InFlight /\ w[i] \in Arriving /\ w[i].pkt = x
  BY <1>2, LenProperties DEF Taken
<1>4. PICK e \in Nat :
         /\ e <= Begin(w[1]) /\ x # 0
         /\ FMergeOp = NoOp => e = 0
         /\ FMergeOp # NoOp => \E K, C : MergeAt(K, C, e)
         /\ FMergeOp.pkt = x => Len(FMergeOp.buf) = e
  BY <1>2, MergeStarts
<1>5. Follows(w, e)
  BY <1>1, <1>2, <1>4, SoundFollows
<1>6. /\ \A i \in 1 .. n : /\ Begin(w[i]) \in Nat /\ w[i].FCounter \in Nat /\ w[i].FCounter - 1 \in Nat
                           /\ w[i].FCoefficient \in Nat \ {0}
                           /\ (w[i].FCounter = 1) <=> (Begin(w[i]) = 0)
      /\ \A i, j \in 1 .. n : i < j => Ahead(w[i], w[j]) /\ End(w[i]) <= Begin(w[j])
  BY <1>1, <1>2, TakenPlaces
<1>7. FMergeOp = NoOp => w[1].FCounter = 1
  BY <1>3, <1>4, <1>5, <1>6 DEF Follows
<1>8. ASSUME NEW i \in 1 .. n, NEW j \in 1 .. n, i < j
      PROVE  <<x, w[i].FCoefficient, w[j].FCoefficient>> \in levels
  BY <1>1, <1>2, <1>3, <1>6, <1>8 DEF Noted
<1>9. ASSUME NEW i \in 1 .. n, NEW k \in Alike(w, i), \A j \in Alike(w, i) : j <= k
      PROVE  w[i].FCounter = w[k].FCounter + 1
  <2>1. k \in 1 .. i - 1 /\ k \in 1 .. n /\ k < i /\ w[k].FCoefficient = w[i].FCoefficient
    BY DEF Alike
  <2>2. CASE k = i - 1
    <3>1. k \in 1 .. n - 1 /\ k + 1 = i
      BY <2>1, <2>2
    <3>2. End(w[k]) = Begin(w[i])
      BY <1>5, <3>1 DEF Follows
    <3>3. PICK a, c, m, b : /\ a = w[k].FCounter /\ c = w[k].FCoefficient
                            /\ m = w[i].FCounter - 1 /\ b = Begin(w[i])
      OBVIOUS
    <3>4. a \in Nat /\ c \in Nat \ {0} /\ m \in Nat /\ b \in Nat /\ w[i].FCounter \in Nat
      BY <1>6, <2>1, <3>3
    <3>5. Before(a, c, b, m, c, b)
      BY <1>6, <2>1, <3>2, <3>3 DEF Ahead
    <3>6. m = a
      BY <3>4, <3>5, CountersMeet
    <3>7. QED
      BY <3>3, <3>4, <3>6
  <2>3. CASE k # i - 1
    <3>1. PICK j : j = k + 1
      OBVIOUS
    <3>2. j \in 1 .. n /\ j \in 1 .. i - 1 /\ k < j /\ j < i /\ ~(j <= k)
      BY <2>1, <2>3, <3>1
    <3>3. j \notin Alike(w, i)
      BY <1>9, <3>2
    <3>4. w[j].FCoefficient # w[i].FCoefficient
      BY <3>2, <3>3 DEF Alike
    <3>5. /\ <<x, w[k].FCoefficient, w[j].FCoefficient>> \in levels
          /\ <<x, w[j].FCoefficient, w[i].FCoefficient>> \in levels
      BY <1>8, <2>1, <3>2
    <3>6. QED
      BY <2>1, <3>4, <3>5, LevelsTell
  <2>4. QED
    BY <2>2, <2>3
<1>10. ASSUME NEW i \in 1 .. n, Alike(w, i) = {}, w[i].FCoefficient \in DOMAIN op.FSplitLevel
       PROVE  w[i].FCounter = op.FSplitLevel[w[i].FCoefficient] + 1
  <2>1. FMergeOp # NoOp /\ op = FMergeOp
    BY <1>2, <1>10, NewOpIs
  <2>2. PICK K, C : MergeAt(K, C, e)
    BY <1>4, <2>1
  <2>3. FMergeOp.pkt = x
    BY <1>2, <2>1
  <2>4. /\ K \in Nat /\ C \in Nat \ {0}
        /\ C \in DOMAIN FMergeOp.FSplitLevel /\ FMergeOp.FSplitLevel[C] = K
        /\ Before(K, C, e, w[1].FCounter - 1, w[1].FCoefficient, Begin(w[1]))
    BY <1>3, <2>2, <2>3 DEF MergeAt
  <2>5. PICK c : c = w[i].FCoefficient
    OBVIOUS
  <2>6. /\ <<x, c, C>> \in levels
        /\ \A k \in 1 .. n : <<x, c, w[k].FCoefficient>> \in levels
        /\ <<x, C, w[1].FCoefficient>> \in levels
    BY <1>3, <1>10, <2>1, <2>2, <2>3, <2>4, <2>5 DEF MergeAt
  <2>7. CASE i = 1
    <3>1. c = C
      BY <2>5, <2>6, <2>7, LevelsTell
    <3>2. PICK m, b : m = w[1].FCounter - 1 /\ b = Begin(w[1])
      OBVIOUS
    <3>3. m \in Nat /\ b \in Nat /\ b = e /\ w[1].FCounter \in Nat
      BY <1>3, <1>5, <1>6, <3>2 DEF Follows
    <3>4. Before(K, C, b, m, C, b)
      BY <2>4, <2>5, <2>7, <3>1, <3>2, <3>3
    <3>5. m = K
      BY <2>4, <3>3, <3>4, CountersMeet
    <3>6. QED
      BY <2>1, <2>4, <2>5, <2>7, <3>1, <3>2, <3>3, <3>5
  <2>8. CASE i # 1
    <3>1. 1 < i /\ 1 \in 1 .. i - 1
      BY <2>8
    <3>2. w[1].FCoefficient # c
      BY <1>10, <2>5, <3>1 DEF Alike
    <3>3. <<x, w[1].FCoefficient, c>> \in levels /\ <<x, c, w[1].FCoefficient>> \in levels
      BY <1>3, <1>8, <2>5, <2>6, <3>1
    <3>4. QED
      BY <3>2, <3>3, LevelsTell
  <2>9. QED
    BY <2>7, <2>8
<1>11. InSequence(op, w)
  BY <1>2, <1>3, <1>9, <1>10, SequenceIs
<1>12. QED
  BY <1>7, <1>11 DEF Fails

(* The merge that goes on.                                                 *)
LEMMA MergeGoesOn ==
  ASSUME Inductive, Entirety, NEW w, NEW op, Merges(w, op), ~Fails(w, op),
         UNCHANGED <<lost, levels, cut>>,
         FMergeOp'.pkt = op.pkt, FMergeOp'.buf = op.buf \o DataOf(w),
         FMergeOp'.FSplitLevel = LevelAfter(op, w)
  PROVE  MergeFollows'
<1> SUFFICES ASSUME FMergeOp'.pkt \notin cut PROVE \E K, C, E : MergeAt(K, C, E)'
  BY DEF MergeFollows
<1> DEFINE n == Len(w)
<1>1. TypeOK /\ Flow /\ Noted /\ MergeFollows
  BY DEF Inductive, IInv, Entirety
<1>2. /\ Taken(w) /\ Dropped(Elems(w)) /\ w \in Seq(Part) /\ n \in Nat \ {0}
      /\ op = (IF FMergeOp = NoOp THEN OpFor(w[1]) ELSE FMergeOp)
      /\ op.pkt = w[1].pkt
  BY DEF Merges, Taken
<1>3. PICK x, K, C, E : x = w[1].pkt /\ K = w[n].FCounter /\ C = w[n].FCoefficient /\ E = End(w[n])
  OBVIOUS
<1>4. /\ n \in 1 .. n /\ DOMAIN w = 1 .. n /\ x \notin cut /\ FMergeOp'.pkt = x
      /\ \A i \in 1 .. n : w[i] \in InFlight /\ w[i] \in Arriving /\ w[i].pkt = x
  BY <1>2, <1>3, LenProperties DEF Taken
<1>5. /\ K \in Nat /\ C \in Nat \ {0} /\ E \in Nat
      /\ \A i, j \in 1 .. n : i < j => End(w[i]) <= Begin(w[j])
      /\ \A i \in 1 .. n : \A r \in InFlight' : r.pkt = x => Ahead(w[i], r) /\ End(w[i]) <= Begin(r)
  BY <1>1, <1>2, <1>3, <1>4, TakenPlaces
<1>6. /\ DOMAIN FMergeOp'.FSplitLevel = {w[i].FCoefficient : i \in 1 .. n} \cup DOMAIN op.FSplitLevel
      /\ FMergeOp'.FSplitLevel[C] = K
  BY <1>2, <1>3, <1>4, LevelAfterIs
<1>7. C \in DOMAIN FMergeOp'.FSplitLevel
  BY <1>3, <1>4, <1>6
<1>8. ASSUME NEW q \in InFlight', q.pkt = x
      PROVE  Before(K, C, E, q.FCounter - 1, q.FCoefficient, Begin(q))
  BY <1>3, <1>4, <1>5, <1>8 DEF Ahead
<1>9. Arriving' \subseteq Arriving /\ Arriving' \subseteq InFlight'
  BY <1>2, ArrivingInFlight DEF Dropped
<1>10. ASSUME NEW c \in DOMAIN FMergeOp'.FSplitLevel
       PROVE  /\ <<x, c, C>> \in levels /\ <<x, c, c>> \in levels
              /\ \A q \in Arriving' : q.pkt = x => <<x, c, q.FCoefficient>> \in levels
  <2>1. CASE \E i \in 1 .. n : c = w[i].FCoefficient
    <3>1. PICK i \in 1 .. n : c = w[i].FCoefficient
      BY <2>1
    <3>2. w[i] = w[n] \/ End(w[i]) <= Begin(w[n])
      BY <1>4, <1>5
    <3>3. <<x, c, C>> \in levels
      BY <1>1, <1>3, <1>4, <3>1, <3>2 DEF Noted
    <3>4. <<x, c, c>> \in levels
      BY <1>1, <1>4, <3>1 DEF Noted
    <3>5. ASSUME NEW q \in Arriving', q.pkt = x PROVE <<x, c, q.FCoefficient>> \in levels
      <4>1. q \in Arriving /\ End(w[i]) <= Begin(q)
        BY <1>5, <1>9, <3>5
      <4>2. QED
        BY <1>1, <1>4, <3>1, <3>5, <4>1 DEF Noted
    <3>6. QED
      BY <3>3, <3>4, <3>5
  <2>2. CASE c \in DOMAIN op.FSplitLevel
    <3>1. FMergeOp # NoOp /\ op = FMergeOp /\ FMergeOp.pkt = x
      BY <1>2, <1>3, <2>2, NewOpIs
    <3>2. PICK k, d, e : MergeAt(k, d, e)
      BY <1>1, <1>4, <3>1 DEF MergeFollows
    <3>3. /\ <<x, c, c>> \in levels
          /\ \A q \in Arriving : q.pkt = x => <<x, c, q.FCoefficient>> \in levels
      BY <2>2, <3>1, <3>2 DEF MergeAt
    <3>4. QED
      BY <1>3, <1>4, <1>9, <3>3
  <2>3. QED
    BY <1>6, <2>1, <2>2
<1>11. (Lossy(x) /\ Uneven(x)) \/ FMergeOp'.buf = Bytes(E)
  BY <1>3, <1>4, MergeJoins
<1>12. (Lossy(x) /\ Uneven(x)) => (Lossy(x)' /\ Uneven(x)')
  BY DEF Lossy, Uneven
<1>13. (Lossy(x)' /\ Uneven(x)') \/ FMergeOp'.buf = Bytes(E)
  BY <1>11, <1>12
<1>14. MergeAt(K, C, E)'
  BY <1>4, <1>5, <1>6, <1>7, <1>8, <1>10, <1>13 DEF MergeAt
<1>15. QED
  BY <1>14

LEMMA MMergeEntire ==
  ASSUME Inductive, Entirety, MMerge
  PROVE  Entirety'
<1>1. /\ TypeOK /\ Flow /\ OutType /\ Fates /\ IInv
      /\ EndsMatch /\ Chained /\ Lasts /\ NotBlamed /\ EntireUnlessUneven
  BY DEF Inductive, IInv, Entirety
<1>2. UNCHANGED <<sizeOf, lost, levels, cut>>
  BY <1>1, MMergeDoes
<1>3. PICK w, op : Merges(w, op)
  BY <1>1, MMergeDoes
<1>4. PICK x, n, z, d :
         x = w[1].pkt /\ n = Len(w) /\ z = w[Len(w)] /\ d = op.buf \o DataOf(w)
  OBVIOUS
<1> DEFINE Lost == /\ Fails(w, op) /\ FMergeOp' = NoOp /\ out' = out
                   /\ reported' = reported \cup {<<x, "E_PACKET_LOST">>}
           Gives == /\ ~Fails(w, op) /\ z.FIsLast /\ FMergeOp' = NoOp /\ reported' = reported
                    /\ out' = Append(out, [pkt |-> x, data |-> d])
           GoesOn == /\ ~Fails(w, op) /\ ~z.FIsLast /\ out' = out /\ reported' = reported
                     /\ FMergeOp'.pkt = x /\ FMergeOp'.buf = d
                     /\ FMergeOp'.FSplitLevel = LevelAfter(op, w)
<1>5. /\ Taken(w) /\ Dropped(Elems(w)) /\ n \in Nat \ {0} /\ op.pkt = x
      /\ op = (IF FMergeOp = NoOp THEN OpFor(w[1]) ELSE FMergeOp)
      /\ Lost \/ Gives \/ GoesOn
  BY <1>3, <1>4 DEF Merges, Taken
<1> HIDE DEF Lost, Gives, GoesOn
<1>6. /\ \A i \in 1 .. n : w[i] \in InFlight /\ w[i].pkt = x
      /\ 1 \in 1 .. n /\ n \in 1 .. n /\ z = w[n] /\ z \in InFlight /\ z.pkt = x
      /\ \A r \in InFlight' : Precedes(cut, z, r) /\ r \in InFlight
      /\ \A i \in 1 .. n : i # n => Precedes(cut, w[i], z)
  BY <1>4, <1>5 DEF Taken, Dropped
<1>7. x \in Packets /\ x \in Nat /\ x # 0 /\ \A r \in InFlight : r.pkt \in Nat
  BY <1>1, <1>6 DEF Fates, FateAhead, Packets
<1>8. Later /\ FMergeOp.pkt \in {0, x}
  BY <1>2, <1>5 DEF Later, Lossy, NoOp
<1>9. \A p : (Sound(p)' => Sound(p)) /\ (Recurs(p) => Recurs(p)')
  BY <1>8, LaterIs
<1>10. /\ \A p : (Delivered(p) => Delivered(p)') /\ (Reported(p) => Reported(p)')
       /\ \A p : Blamed(p) => Blamed(p)'
       /\ \A p : p # x => Blamed(p)' = Blamed(p)
  <2>1. PICK o, e : o = [pkt |-> x, data |-> d] /\ e = "E_PACKET_LOST"
    OBVIOUS
  <2>2. /\ out' = out \/ out' = Append(out, o)
        /\ reported' = reported \/ reported' = reported \cup {<<x, e>>}
    BY <1>5, <2>1 DEF Lost, Gives, GoesOn
  <2>3. \A p : (Delivered(p) => Delivered(p)') /\ (Reported(p) => Reported(p)')
    BY <1>1, <2>2, FatesStay
  <2>4. /\ \A p : Blamed(p) => Blamed(p)'
        /\ \A p : p # x => Blamed(p)' = Blamed(p)
    BY <2>2 DEF Blamed
  <2>5. QED
    BY <2>3, <2>4
<1>11. PICK X, S : X = {x} /\ S = Elems(w)
  OBVIOUS
<1>12. /\ EndsMatch' /\ Noted'
       /\ \A q \in InFlight' : q.pkt \in X \/ (Sound(q.pkt)' => Linked(q)')
       /\ \A p \in Packets' : p \in X \/ (Sound(p)' => HasLast(p)')
       /\ \A p : p \in X \/ (Sound(p)' /\ ~Recurs(p)' => ~Blamed(p)')
  <2>1. \A y \in S : y.pkt \in X \/ Lossy(y.pkt)'
    BY <1>4, <1>6, <1>11 DEF Elems
  <2>2. /\ \A p : p \in X \/ /\ Blamed(p)' = Blamed(p)
                             /\ Delivered(p) => Delivered(p)'
                             /\ Reported(p) => Reported(p)'
        /\ FMergeOp.pkt \in X \cup {0}
    BY <1>8, <1>10, <1>11
  <2>3. Dropped(S)
    BY <1>5, <1>11
  <2>4. QED
    BY <1>2, <1>8, <2>1, <2>2, <2>3, OthersKeep
<1>13. z.FIsLast => \A r \in InFlight' : r.pkt # x
  BY <1>6, <1>7 DEF Precedes
<1>14. ASSUME GoesOn, x \notin cut, Sound(x)
       PROVE  /\ Len(FMergeOp'.buf) = End(z) /\ End(z) \in Nat
              /\ FMergeOp.pkt = x => Len(FMergeOp.buf) \in Nat /\ Len(FMergeOp.buf) < End(z)
  <2>1. ~Lossy(x) /\ ~Fails(w, op) /\ FMergeOp'.buf = d
    BY <1>14 DEF Sound, GoesOn
  <2>2. d = Bytes(End(z))
    BY <1>3, <1>4, <1>14, <2>1, MergeJoins
  <2>3. /\ End(z) \in Nat /\ End(w[1]) \in Nat /\ Begin(w[1]) \in Nat /\ Begin(w[1]) < End(w[1])
        /\ Begin(z) \in Nat /\ Begin(z) < End(z) /\ (1 < n => End(w[1]) <= Begin(z))
    BY <1>1, <1>4, <1>5, <1>6, <1>14, TakenPlaces
  <2>4. Len(Bytes(End(z))) = End(z)
    BY <2>3 DEF Bytes
  <2>5. PICK e \in Nat : e <= Begin(w[1]) /\ (FMergeOp.pkt = x => Len(FMergeOp.buf) = e)
    BY <1>3, <1>4, <1>14, <2>1, MergeStarts
  <2>6. e < End(z)
    <3>1. CASE n = 1
      BY <1>6, <2>3, <2>5, <3>1
    <3>2. CASE n # 1
      BY <1>5, <2>3, <2>5, <3>2
    <3>3. QED
      BY <3>1, <3>2
  <2>7. QED
    BY <2>1, <2>2, <2>3, <2>4, <2>5, <2>6
<1>15. ASSUME NEW q \in InFlight', q.pkt = x, Sound(x)' PROVE Linked(q)'
  <2>1. CASE Lost
    <3>1. Blamed(x)'
      BY <2>1 DEF Lost, Blamed
    <3>2. QED
      BY <1>15, <3>1 DEF Linked
  <2>2. CASE Gives
    BY <1>13, <1>15, <2>2 DEF Gives
  <2>3. CASE GoesOn
    <3>1. Sound(x) /\ x \notin cut /\ q \in InFlight /\ FMergeOp'.pkt = x
      BY <1>6, <1>9, <1>15, <2>3 DEF Sound, GoesOn
    <3>2. Linked(q)
      BY <1>1, <1>15, <3>1 DEF Chained
    <3>3. /\ Len(FMergeOp'.buf) = End(z) /\ End(z) \in Nat
          /\ FMergeOp.pkt = x => Len(FMergeOp.buf) \in Nat /\ Len(FMergeOp.buf) < End(z)
      BY <1>14, <2>3, <3>1
    <3>4. CASE \E r \in InFlight : r.pkt = q.pkt /\ End(r) = Begin(q)
      <4>1. PICK r \in InFlight : r.pkt = x /\ End(r) = Begin(q)
        BY <1>15, <3>4
      <4>2. r \in InFlight' \/ End(z) = Begin(q)
        BY <1>1, <1>4, <1>5, <1>15, <3>1, <4>1, PartBefore
      <4>3. QED
        BY <1>15, <3>1, <3>3, <4>1, <4>2 DEF Linked
    <3>5. CASE FMergeOp.pkt = q.pkt /\ Len(FMergeOp.buf) = Begin(q)
      <4>1. End(z) <= Begin(q)
        BY <1>1, <1>4, <1>5, <1>6, <1>15, <3>1, TakenPlaces
      <4>2. Begin(q) \in Nat
        BY <1>1, <3>1, NumbersInFlight
      <4>3. QED
        BY <1>15, <3>3, <3>5, <4>1, <4>2
    <3>6. CASE Begin(q) = 0 \/ Blamed(q.pkt)
      <4>1. Begin(q) = 0 \/ Blamed(x)'
        BY <1>10, <1>15, <3>6
      <4>2. QED
        BY <1>15, <4>1 DEF Linked
    <3>7. QED
      BY <3>2, <3>4, <3>5, <3>6 DEF Linked
  <2>4. QED
    BY <1>5, <2>1, <2>2, <2>3
<1>16. Chained'
  BY <1>11, <1>12, <1>15 DEF Chained
<1>17. ASSUME Sound(x)' PROVE HasLast(x)'
  <2>1. CASE Lost
    <3>1. Reported(x)'
      BY <2>1 DEF Lost, Reported
    <3>2. QED
      BY <3>1 DEF HasLast
  <2>2. CASE Gives
    <3>1. Delivered(x)'
      BY <1>1, <2>2, IsDelivered DEF Gives
    <3>2. QED
      BY <3>1 DEF HasLast
  <2>3. CASE GoesOn
    <3>1. HasLast(x)
      BY <1>1, <1>7, <1>9, <1>17 DEF Lasts
    <3>2. ASSUME NEW q \in InFlight, q.pkt = x, q.FIsLast PROVE q \in InFlight'
      <4> SUFFICES ASSUME q \notin InFlight' PROVE FALSE
        OBVIOUS
      <4>1. PICK i \in 1 .. n : q = w[i]
        BY <1>4, <1>5 DEF Dropped, Elems
      <4>2. i # n
        BY <1>6, <2>3, <3>2, <4>1 DEF GoesOn
      <4>3. Precedes(cut, q, z)
        BY <1>6, <4>1, <4>2
      <4>4. QED
        BY <1>6, <1>7, <3>2, <4>3 DEF Precedes
    <3>3. QED
      BY <1>10, <3>1, <3>2 DEF HasLast
  <2>4. QED
    BY <1>5, <2>1, <2>2, <2>3
<1>18. Lasts'
  BY <1>11, <1>12, <1>17 DEF Lasts
<1>19. ASSUME Sound(x)', ~Recurs(x)' PROVE ~Blamed(x)'
  <2>1. Sound(x) /\ ~Recurs(x)
    BY <1>9, <1>19
  <2>2. ~Fails(w, op)
    BY <1>3, <1>4, <2>1, SoundIsInSequence
  <2>3. reported' = reported
    BY <1>5, <2>2 DEF Lost, Gives, GoesOn
  <2>4. QED
    BY <1>1, <2>1, <2>3 DEF NotBlamed, Blamed
<1>20. NotBlamed'
  BY <1>11, <1>12, <1>19 DEF NotBlamed
<1>21. MergeFollows'
  <2>1. CASE FMergeOp' = NoOp
    BY <2>1 DEF MergeFollows
  <2>2. CASE GoesOn
    BY <1>2, <1>3, <1>4, <1>5, <2>2, MergeGoesOn DEF GoesOn
  <2>3. QED
    BY <1>5, <2>1, <2>2 DEF Lost, Gives
<1>22. EntireUnlessUneven'
  <2>1. CASE Gives
    <3>1. PICK o : o = [pkt |-> x, data |-> d]
      OBVIOUS
    <3>2. o.pkt = x /\ o.data = d /\ out' = Append(out, o) /\ ~Fails(w, op) /\ z.FIsLast
      BY <2>1, <3>1 DEF Gives
    <3>3. End(z) = sizeOf[x]
      BY <1>1, <1>6, <3>2 DEF EndsMatch
    <3>4. x \in cut \/ (Lossy(x) /\ Uneven(x)) \/ d = Bytes(sizeOf[x])
      BY <1>3, <1>4, <3>2, <3>3, MergeJoins
    <3>5. (Lossy(x) /\ Uneven(x)) => (Lossy(x)' /\ Uneven(x)')
      BY <1>2 DEF Lossy, Uneven
    <3>6. Entry(o)'
      BY <1>2, <3>2, <3>4, <3>5 DEF Entry, IsEntire, Bytes
    <3>7. QED
      BY <1>1, <1>2, <1>8, <3>2, <3>6, EntriesStay DEF Fates
  <2>2. CASE out' = out
    BY <1>1, <1>2, <1>8, <2>2, EntriesStay DEF Fates
  <2>3. QED
    BY <1>5, <2>1, <2>2 DEF Lost, GoesOn
<1>23. QED
  BY <1>12, <1>16, <1>18, <1>20, <1>21, <1>22 DEF Entirety

-----------------------------------------------------------------------------
LEMMA InitEntirety == Init => Entirety
<1> SUFFICES ASSUME Init PROVE Entirety
  OBVIOUS
<1>1. TypeOK
  BY InitInductive DEF Inductive, IInv
<1>2. InFlight = {}
  <2>1. \A h \in Rows : h = Links + 1 \/ h \in 1 .. Links
    BY LinksAre DEF Rows
  <2>2. \A h \in Rows : Lines[h] = <<>>
    BY <1>1, <2>1, LinesAre DEF Init
  <2>3. QED
    BY <2>2 DEF InFlight, InRows, Elems
<1>3. Arriving = {} /\ Packets = {} /\ FMergeOp = NoOp /\ reported = {} /\ DOMAIN out = {}
  BY <1>2, ArrivingInFlight DEF Init, Packets
<1>4. QED
  BY <1>2, <1>3 DEF Entirety, EndsMatch, Noted, Chained, Lasts, NotBlamed, Blamed, MergeFollows,
                    EntireUnlessUneven

LEMMA NextKeepsEntirety == Inductive /\ Inductive' /\ Entirety /\ [Next]_vars => Entirety'
<1> SUFFICES ASSUME Inductive, Inductive', Entirety, [Next]_vars PROVE Entirety'
  OBVIOUS
<1>1. TypeOK /\ Flow /\ \A q \in InFlight : q.pkt \in Packets
  BY DEF Inductive, IInv, Fates, FateAhead
<1>2. ASSUME NEW n \in Sizes, MSendTo(n) PROVE Entirety'
  <2>1. UNCHANGED <<FMergeOp, out, reported, lost>> /\ sizeOf' = Append(sizeOf, n)
    BY <1>2 DEF MSendTo
  <2>2. PICK k, q : k = Len(sizeOf) + 1 /\ q = Whole(k, n)
    OBVIOUS
  <2>3. cut \subseteq cut' /\ \E s : Spread(q, s)
    BY <1>1, <1>2, <2>2, SendMoves
  <2>4. k \in Nat /\ n \in Nat \ {0} /\ k \notin Packets
    <3>1. Len(sizeOf) \in Nat
      BY <1>1, LenProperties DEF TypeOK
    <3>2. QED
      BY <2>2, <3>1, SizeAssumption DEF Packets
  <2>5. q \in Part /\ Counted(cut, q) /\ q.pkt = k /\ q.FIsLast /\ Begin(q) = 0 /\ End(q) = n
    BY <2>2, <2>4, WholeIs
  <2>6. /\ \A p \in Packets : sizeOf'[p] = sizeOf[p]
        /\ \A p \in Packets' : p \in Packets \/ p = k
        /\ sizeOf'[k] = n
    BY <1>1, <2>1, <2>2, SizesStay
  <2>7. QED
    BY <2>1, <2>3, <2>4, <2>5, <2>6, SpreadKeeps
<1>3. ASSUME NEW h \in 1 .. Links - 1, Forward(h) PROVE Entirety'
  <2>1. UNCHANGED <<sizeOf, FMergeOp, out, reported, lost>>
    BY <1>3 DEF Forward
  <2>2. cut \subseteq cut' /\ \E q \in InFlight : \E s : Spread(q, s)
    BY <1>1, <1>3, ForwardMoves
  <2>3. PICK q \in InFlight : \E s : Spread(q, s)
    BY <2>2
  <2>4. q \in Part /\ Counted(cut, q)
    BY <1>1, NumbersInFlight
  <2>5. /\ q.FIsLast => End(q) = sizeOf'[q.pkt]
        /\ Packets' = Packets
    BY <2>1 DEF Entirety, EndsMatch, Packets
  <2>6. QED
    BY <2>1, <2>2, <2>3, <2>4, <2>5, SpreadKeeps
<1>4. ASSUME NEW h \in 1 .. Links, Lose(h) PROVE Entirety'
  <2>1. /\ UNCHANGED <<cut, sizeOf, out, FMergeOp, levels>>
        /\ lost' = Append(lost, Head(wire[h]).pkt)
        /\ reported' = reported \/ \E x : reported' = reported \cup {<<x, SendError>>}
    BY <1>4 DEF Lose
  <2>2. PICK y, p, S : y = Head(wire[h]) /\ p = y.pkt /\ S = {y}
    OBVIOUS
  <2>3. y \in InFlight /\ Dropped(S)
    BY <1>1, <1>4, <2>2, LoseMoves
  <2>4. lost \in Seq(Packets) /\ p \in Packets /\ lost' = Append(lost, p)
    BY <1>1, <2>1, <2>2, <2>3 DEF TypeOK
  <2>5. /\ Len(lost) \in Nat /\ Len(lost') = Len(lost) + 1 /\ lost'[Len(lost) + 1] = p
        /\ \A i \in 1 .. Len(lost) : lost'[i] = lost[i]
    BY <2>4, LenProperties, AppendProperties
  <2>6. lost' \in Seq(Packets)
    BY <2>4, AppendProperties
  <2>7. DOMAIN lost = 1 .. Len(lost) /\ DOMAIN lost' = 1 .. Len(lost) + 1
    BY <2>4, <2>5, <2>6, LenProperties
  <2>8. Len(lost) + 1 \in DOMAIN lost' /\ \A i \in DOMAIN lost : i \in DOMAIN lost' /\ lost'[i] = lost[i]
    BY <2>5, <2>7
  <2>9. Lossy(p)' /\ \A r : Lossy(r) => Lossy(r)'
    BY <2>5, <2>8 DEF Lossy
  <2>10. Later /\ \A r \in S : Lossy(r.pkt)'
    BY <2>1, <2>2, <2>9 DEF Later
  <2>11. QED
    BY <2>1, <2>3, <2>10, DropKeeps
<1>5. ASSUME NEW n \in 1 .. MaxBatch, Receive(n) PROVE Entirety'
  <2>1. UNCHANGED <<cut, sizeOf, out, reported, FMergeOp, levels, lost>>
    BY <1>5 DEF Receive
  <2>2. PICK S : S = {}
    OBVIOUS
  <2>3. Dropped(S)
    BY <1>1, <1>5, <2>2, ReceiveMoves
  <2>4. Later
    BY <2>1 DEF Later, Lossy
  <2>5. QED
    BY <2>1, <2>2, <2>3, <2>4, DropKeeps
<1>6. CASE PassOrRefuse
  BY <1>6, PassEntire
<1>7. CASE Supersede
  BY <1>7, SupersedeEntire
<1>8. CASE MMerge
  BY <1>8, MMergeEntire
<1>9. CASE UNCHANGED vars
  <2>1. UNCHANGED <<sizeOf, wire, aWhat, FMergeOp, out, reported, lost, levels, cut>>
    BY <1>9 DEF vars
  <2>2. PICK S : S = {}
    OBVIOUS
  <2>3. Lines' = Lines
    BY <2>1 DEF Lines
  <2>4. Dropped(S) /\ Later
    BY <2>1, <2>3 DEF Dropped, InFlight, Arriving, Later, Lossy
  <2>5. QED
    BY <2>1, <2>2, <2>4, DropKeeps
<1>10. QED
  BY <1>2, <1>3, <1>4, <1>5, <1>6, <1>7, <1>8, <1>9 DEF Next, Done

LEMMA AlwaysEntirety == Spec => [](Inductive /\ Entirety)
BY InitInductive, NextKeepsInductive, InitEntirety, NextKeepsEntirety, PTL DEF Spec

-----------------------------------------------------------------------------
(* What is lost stays missing: a packet that lost a part and was not split *)
(* unevenly has a byte that nobody has any more.                           *)

Covers(q, g) == Begin(q) < g /\ g <= End(q)
Inside(x, q) == x.pkt = q.pkt /\ \A g \in Nat : Covers(x, g) => Covers(q, g)

InBounds == \A q \in InFlight :
              q.pkt \notin cut => \A g \in Nat : Covers(q, g) => g <= sizeOf[q.pkt]
RefusedIsLossy == \A p : Refused(p) => Lossy(p)

(* Byte g of packet p is neither under way nor merged nor given away.      *)
Hole(g, p) ==
  /\ g # 0 /\ g <= sizeOf[p]
  /\ \A q \in InFlight : q.pkt = p => ~Covers(q, g)
  /\ FMergeOp.pkt = p => Len(FMergeOp.buf) < g
  /\ ~Delivered(p)
Missing(p) == (p \notin cut /\ Lossy(p) /\ ~Uneven(p)) => \E g \in Nat : Hole(g, p)
Holes == InBounds /\ RefusedIsLossy /\ \A p \in Packets : Missing(p)

(* A part of a part covers no more than that.                              *)
LEMMA PartsAreInside ==
  ASSUME NEW c, NEW d, c \subseteq d, NEW q \in Part, NEW x \in Part, Counted(c, q),
         IsPartOf(d, x, q), x.pkt \notin d
  PROVE  Inside(x, q)
<1>1. x.pkt = q.pkt /\ Counted(d, x) /\ Within(x, q)
  BY DEF IsPartOf
<1>2. Begin(q) \in Nat /\ End(q) \in Nat
  BY NumbersOfPart
<1>3. Begin(x) \in Nat /\ End(x) \in Nat
  BY <1>1, NumbersOfPart
<1>4. Begin(q) <= Begin(x) /\ End(x) <= End(q)
  BY <1>1 DEF Within, Before
<1>5. QED
  BY <1>1, <1>2, <1>3, <1>4 DEF Inside, Covers

LEMMA AllInside ==
  ASSUME TypeOK, Flow, TypeOK', cut \subseteq cut', NEW q \in Part, Counted(cut, q),
         NEW x \in InFlight', IsPartOf(cut', x, q), x.pkt \notin cut'
  PROVE  Inside(x, q)
<1>1. InFlight' \subseteq Part
  <2>1. (TypeOK => InFlight \subseteq Part)'
    BY PartsInFlight, PTL
  <2>2. QED
    BY <2>1
<1>2. PICK d : d = cut'
  OBVIOUS
<1>3. QED
  BY <1>1, <1>2, PartsAreInside

(* What is under way was so before, or is a part of something that was; X  *)
(* are the packets of which more is to be said.                            *)
LEMMA HolesStay ==
  ASSUME Holes, \A q \in InFlight : q.pkt \in Packets,
         cut \subseteq cut', levels \subseteq levels', NEW X,
         \A x \in InFlight' : \/ x.pkt \in X \cup cut'
                              \/ \E q \in InFlight : Inside(x, q),
         \A p \in Packets : sizeOf'[p] = sizeOf[p],
         \A p \in Packets' : \/ p \in X
                             \/ /\ p \in Packets
                                /\ Lossy(p)' => Lossy(p)
                                /\ Delivered(p)' => Delivered(p)
                                /\ FMergeOp'.pkt = p => FMergeOp' = FMergeOp
  PROVE  /\ \A x \in InFlight' : x.pkt \in X \cup cut' \/
              \A g \in Nat : Covers(x, g) => g <= sizeOf'[x.pkt]
         /\ \A p \in Packets' : p \in X \/ Missing(p)'
<1>1. ASSUME NEW x \in InFlight', x.pkt \notin X \cup cut', NEW g \in Nat, Covers(x, g)
      PROVE  g <= sizeOf'[x.pkt]
  <2>1. PICK q \in InFlight : Inside(x, q)
    BY <1>1
  <2>2. q.pkt = x.pkt /\ Covers(q, g) /\ q.pkt \in Packets /\ q.pkt \notin cut
    BY <1>1, <2>1 DEF Inside
  <2>3. g <= sizeOf[q.pkt]
    BY <2>2 DEF Holes, InBounds
  <2>4. QED
    BY <2>2, <2>3
<1>2. ASSUME NEW p \in Packets', p \notin X PROVE Missing(p)'
  <2> SUFFICES ASSUME p \notin cut', Lossy(p)', ~Uneven(p)' PROVE \E g \in Nat : Hole(g, p)'
    BY DEF Missing
  <2>1. p \in Packets /\ p \notin cut /\ Lossy(p) /\ ~Uneven(p)
    BY <1>2 DEF Uneven
  <2>2. PICK g \in Nat : Hole(g, p)
    BY <2>1 DEF Holes, Missing
  <2>3. g # 0 /\ g <= sizeOf'[p]
    BY <2>1, <2>2 DEF Hole
  <2>4. ASSUME NEW x \in InFlight', x.pkt = p PROVE ~Covers(x, g)
    <3>1. PICK q \in InFlight : Inside(x, q)
      BY <1>2, <2>4
    <3>2. QED
      BY <2>2, <2>4, <3>1 DEF Inside, Hole
  <2>5. FMergeOp'.pkt = p => Len(FMergeOp'.buf) < g
    BY <1>2, <2>2 DEF Hole
  <2>6. ~Delivered(p)'
    BY <1>2, <2>2 DEF Hole
  <2>7. QED
    BY <2>3, <2>4, <2>5, <2>6 DEF Hole
<1>3. QED
  BY <1>1, <1>2

LEMMA StaysInside == \A x : Inside(x, x)
BY DEF Inside

(* Parts that only move.                                                   *)
LEMMA MoveKeepsHoles ==
  ASSUME Inductive, TypeOK', Moved, cut \subseteq cut', levels \subseteq levels', Holes,
         UNCHANGED <<sizeOf, FMergeOp, out, reported, lost>>
  PROVE  Holes'
<1>1. TypeOK /\ Flow /\ \A q \in InFlight : q.pkt \in Packets
  BY DEF Inductive, IInv, Fates, FateAhead
<1>2. PICK X : X = {}
  OBVIOUS
<1>3. ASSUME NEW x \in InFlight', x.pkt \notin cut' PROVE \E q \in InFlight : Inside(x, q)
  <2>1. PICK q \in InFlight : IsPartOf(cut', x, q)
    BY DEF Moved
  <2>2. q \in Part /\ Counted(cut, q)
    BY <1>1, NumbersInFlight
  <2>3. QED
    BY <1>1, <1>3, <2>1, <2>2, AllInside
<1>4. /\ \A x \in InFlight' : x.pkt \in X \cup cut' \/ \E q \in InFlight : Inside(x, q)
      /\ \A p \in Packets : sizeOf'[p] = sizeOf[p]
      /\ \A p \in Packets' : p \in X \/ /\ p \in Packets
                                        /\ Lossy(p)' => Lossy(p)
                                        /\ Delivered(p)' => Delivered(p)
                                        /\ FMergeOp'.pkt = p => FMergeOp' = FMergeOp
  BY <1>3 DEF Packets, Lossy, Delivered
<1>5. /\ \A x \in InFlight' : x.pkt \in X \cup cut' \/
           \A g \in Nat : Covers(x, g) => g <= sizeOf'[x.pkt]
      /\ \A p \in Packets' : p \in X \/ Missing(p)'
  BY <1>1, <1>4, HolesStay
<1>6. RefusedIsLossy'
  BY DEF Holes, RefusedIsLossy, Refused, Lossy
<1>7. QED
  BY <1>2, <1>5, <1>6 DEF Holes, InBounds

(* A new packet lost nothing yet.                                          *)
LEMMA SendKeepsHoles ==
  ASSUME Inductive, TypeOK', Holes, NEW n \in Sizes, MSendTo(n)
  PROVE  Holes'
<1>1. TypeOK /\ Flow /\ \A q \in InFlight : q.pkt \in Packets
  BY DEF Inductive, IInv, Fates, FateAhead
<1>2. UNCHANGED <<FMergeOp, out, reported, lost>> /\ sizeOf' = Append(sizeOf, n)
  BY DEF MSendTo
<1>3. PICK k, a, X : k = Len(sizeOf) + 1 /\ a = Whole(k, n) /\ X = {k}
  OBVIOUS
<1>4. /\ cut \subseteq cut'
      /\ \A x \in InFlight' : x \in InFlight \/ x.pkt = k
      /\ \E s : Spread(a, s)
  BY <1>1, <1>3, SendMoves
<1>5. PICK s : Spread(a, s)
  BY <1>4
<1>6. levels \subseteq levels'
  BY <1>5 DEF Spread
<1>7. k \in Nat /\ n \in Nat \ {0} /\ k \notin Packets
  <2>1. Len(sizeOf) \in Nat
    BY <1>1, LenProperties DEF TypeOK
  <2>2. QED
    BY <1>3, <2>1, SizeAssumption DEF Packets
<1>8. a \in Part /\ Counted(cut, a) /\ a.pkt = k /\ End(a) = n
  BY <1>3, <1>7, WholeIs
<1>9. /\ \A p \in Packets : sizeOf'[p] = sizeOf[p]
      /\ \A p \in Packets' : p \in Packets \/ p = k
      /\ sizeOf'[k] = n
  BY <1>1, <1>2, <1>3, SizesStay
<1>10. /\ \A x \in InFlight' : x.pkt \in X \cup cut' \/ \E q \in InFlight : Inside(x, q)
       /\ \A p \in Packets' : p \in X \/ /\ p \in Packets
                                         /\ Lossy(p)' => Lossy(p)
                                         /\ Delivered(p)' => Delivered(p)
                                         /\ FMergeOp'.pkt = p => FMergeOp' = FMergeOp
  BY <1>2, <1>3, <1>4, <1>9, StaysInside DEF Lossy, Delivered
<1>11. /\ \A x \in InFlight' : x.pkt \in X \cup cut' \/
            \A g \in Nat : Covers(x, g) => g <= sizeOf'[x.pkt]
       /\ \A p \in Packets' : p \in X \/ Missing(p)'
  BY <1>1, <1>4, <1>6, <1>9, <1>10, HolesStay
<1>12. Missing(k)'
  <2>1. ~Lossy(k)
    <3>1. lost \in Seq(Packets)
      BY <1>1 DEF TypeOK
    <3>2. QED
      BY <1>7, <3>1, LenProperties, ElementOfSeq DEF Lossy
  <2>2. QED
    BY <1>2, <2>1 DEF Missing, Lossy
<1>13. ASSUME NEW x \in InFlight', x.pkt = k, k \notin cut', NEW g \in Nat, Covers(x, g)
       PROVE  g <= n
  <2>1. x \in Elems(s)
    <3>1. x \notin InFlight
      BY <1>1, <1>7, <1>13
    <3>2. QED
      BY <1>5, <3>1 DEF Spread
  <2>2. IsPartOf(cut', x, a)
    BY <1>5, <2>1 DEF Spread
  <2>3. Inside(x, a)
    BY <1>1, <1>4, <1>8, <1>13, <2>2, AllInside
  <2>4. QED
    BY <1>8, <1>13, <2>3 DEF Inside, Covers
<1>14. InBounds'
  <2> SUFFICES ASSUME NEW x \in InFlight', x.pkt \notin cut', NEW g \in Nat, Covers(x, g)
               PROVE  g <= sizeOf'[x.pkt]
    BY DEF InBounds, Covers, Begin, End
  <2>1. CASE x.pkt = k
    BY <1>9, <1>13, <2>1
  <2>2. CASE x.pkt # k
    BY <1>3, <1>11, <2>2
  <2>3. QED
    BY <2>1, <2>2
<1>15. RefusedIsLossy'
  BY <1>2 DEF Holes, RefusedIsLossy, Refused, Lossy
<1>16. QED
  BY <1>3, <1>11, <1>12, <1>14, <1>15 DEF Holes

(* The last byte of a part that is lost is missing.                        *)
LEMMA LossIsHole ==
  ASSUME Inductive, Entirety, Holes, NEW h \in 1 .. Links, Lose(h),
         NEW y, y = Head(wire[h]), y.pkt \notin cut, ~Lossy(y.pkt)
  PROVE  End(y) \in Nat /\ Hole(End(y), y.pkt)'
<1>1. TypeOK /\ Flow /\ OutType /\ Fates /\ MergeFollows /\ \A q \in InFlight : q.pkt \in Packets
  BY DEF Inductive, IInv, Fates, FateAhead, Entirety
<1>2. UNCHANGED <<sizeOf, FMergeOp, out>>
  BY DEF Lose
<1>3. PICK g, p : g = End(y) /\ p = y.pkt
  OBVIOUS
<1>4. /\ y \in InFlight /\ Dropped({y})
      /\ \A r \in InFlight' : Precedes(cut, y, r) \/ Precedes(cut, r, y)
  BY <1>1, LoseMoves
<1>5. /\ Begin(y) \in Nat /\ g \in Nat /\ Begin(y) < g
      /\ FateAhead(y) /\ p \in Packets /\ p # 0 /\ p \in Nat
  BY <1>1, <1>3, <1>4, NumbersInFlight DEF Fates, FateAhead, Packets
<1>6. g # 0 /\ g <= sizeOf[p]
  <2>1. Covers(y, g)
    BY <1>3, <1>5 DEF Covers
  <2>2. QED
    BY <1>3, <1>4, <1>5, <2>1 DEF Holes, InBounds
<1>7. ASSUME NEW r \in InFlight', r.pkt = p PROVE ~Covers(r, g)
  <2>1. r \in InFlight
    BY <1>4 DEF Dropped
  <2>2. Begin(r) \in Nat /\ End(r) \in Nat
    BY <1>1, <2>1, NumbersInFlight
  <2>3. g <= Begin(r) \/ End(r) <= Begin(y)
    BY <1>3, <1>4, <1>7 DEF Precedes, Ahead, Before
  <2>4. QED
    BY <1>5, <2>2, <2>3 DEF Covers
<1>8. FMergeOp.pkt = p => Len(FMergeOp.buf) < g
  <2> SUFFICES ASSUME FMergeOp.pkt = p PROVE Len(FMergeOp.buf) < g
    OBVIOUS
  <2>1. FMergeOp # NoOp /\ FMergeOp.pkt \notin cut
    BY <1>3, <1>5 DEF NoOp
  <2>2. PICK K, C, E : MergeAt(K, C, E)
    BY <1>1, <2>1 DEF MergeFollows
  <2>3. /\ E \in Nat /\ FMergeOp.buf = Bytes(E)
        /\ Before(K, C, E, y.FCounter - 1, y.FCoefficient, Begin(y))
    BY <1>3, <1>4, <2>2 DEF MergeAt
  <2>4. E <= Begin(y) /\ Len(Bytes(E)) = E
    BY <2>3 DEF Before, Bytes
  <2>5. QED
    BY <1>5, <2>3, <2>4
<1>9. ~Delivered(p)
  BY <1>1, <1>3, <1>5, OutIs DEF FateAhead, Delivered
<1>10. Hole(g, p)'
  <2>1. \A r \in InFlight' : r.pkt = p => ~Covers(r, g)
    BY <1>7
  <2>2. ~Delivered(p)'
    BY <1>2, <1>9 DEF Delivered
  <2>3. QED
    BY <1>2, <1>6, <1>8, <2>1, <2>2 DEF Hole
<1>11. QED
  BY <1>3, <1>5, <1>10

LEMMA LoseKeepsHoles ==
  ASSUME Inductive, Entirety, Holes, NEW h \in 1 .. Links, Lose(h)
  PROVE  Holes'
<1>1. TypeOK /\ Flow /\ \A q \in InFlight : q.pkt \in Packets
  BY DEF Inductive, IInv, Fates, FateAhead
<1>2. PICK y, p, X : y = Head(wire[h]) /\ p = y.pkt /\ X = {p}
  OBVIOUS
<1>3. /\ UNCHANGED <<cut, sizeOf, out, FMergeOp, levels>> /\ lost' = Append(lost, p)
      /\ reported' = reported \/ reported' = reported \cup {<<p, SendError>>}
  BY <1>2 DEF Lose
<1>4. y \in InFlight /\ p \in Packets /\ InFlight' \subseteq InFlight
  BY <1>1, <1>2, LoseMoves DEF Dropped
<1>5. \A r : Lossy(r)' <=> Lossy(r) \/ r = p
  <2>1. lost \in Seq(Packets) /\ lost' \in Seq(Packets)
    BY <1>1, <1>3, <1>4, AppendProperties DEF TypeOK
  <2>2. /\ Len(lost) \in Nat /\ Len(lost') = Len(lost) + 1 /\ lost'[Len(lost) + 1] = p
        /\ \A i \in 1 .. Len(lost) : lost'[i] = lost[i]
    BY <1>3, <1>4, <2>1, LenProperties, AppendProperties
  <2>3. DOMAIN lost = 1 .. Len(lost) /\ DOMAIN lost' = 1 .. Len(lost) + 1
    BY <2>1, <2>2, LenProperties
  <2>4. \A i \in DOMAIN lost' : i = Len(lost) + 1 \/ (i \in DOMAIN lost /\ lost'[i] = lost[i])
    BY <2>2, <2>3
  <2>5. /\ Len(lost) + 1 \in DOMAIN lost'
        /\ \A i \in DOMAIN lost : i \in DOMAIN lost' /\ lost'[i] = lost[i]
    BY <2>2, <2>3
  <2>6. QED
    BY <2>2, <2>4, <2>5 DEF Lossy
<1>6. /\ \A x \in InFlight' : x.pkt \in X \cup cut' \/ \E q \in InFlight : Inside(x, q)
      /\ \A r \in Packets : sizeOf'[r] = sizeOf[r]
      /\ \A r \in Packets' : r \in X \/ /\ r \in Packets
                                        /\ Lossy(r)' => Lossy(r)
                                        /\ Delivered(r)' => Delivered(r)
                                        /\ FMergeOp'.pkt = r => FMergeOp' = FMergeOp
  BY <1>2, <1>3, <1>4, <1>5, StaysInside DEF Packets, Delivered
<1>7. \A r \in Packets' : r \in X \/ Missing(r)'
  BY <1>1, <1>3, <1>6, HolesStay
<1>8. InBounds'
  <2> SUFFICES ASSUME NEW x \in InFlight', x.pkt \notin cut', NEW g \in Nat, Covers(x, g)
               PROVE  g <= sizeOf'[x.pkt]
    BY DEF InBounds, Covers, Begin, End
  <2>1. QED
    BY <1>3, <1>4 DEF Holes, InBounds
<1>9. RefusedIsLossy'
  BY <1>3, <1>5 DEF Holes, RefusedIsLossy, Refused
<1>10. ASSUME p \notin cut', ~Uneven(p)' PROVE \E g \in Nat : Hole(g, p)'
  <2>1. p \notin cut /\ ~Uneven(p)
    BY <1>3, <1>10 DEF Uneven
  <2>2. CASE Lossy(p)
    <3>1. PICK g \in Nat : Hole(g, p)
      BY <1>4, <2>1, <2>2 DEF Holes, Missing
    <3>2. Hole(g, p)'
      BY <1>3, <1>4, <3>1 DEF Hole, Delivered, Covers, Begin, End
    <3>3. QED
      BY <3>2
  <2>3. CASE ~Lossy(p)
    <3>1. End(y) \in Nat /\ Hole(End(y), y.pkt)'
      BY <1>2, <2>1, <2>3, LossIsHole
    <3>2. PICK g : g = End(y)
      OBVIOUS
    <3>3. g \in Nat /\ Hole(g, y.pkt)'
      BY <3>1, <3>2
    <3>4. QED
      BY <1>2, <3>3
  <2>4. QED
    BY <2>2, <2>3
<1>11. QED
  BY <1>2, <1>7, <1>8, <1>9, <1>10 DEF Holes, Missing

(* A packet that was not split has all its bytes when it arrives.          *)
LEMMA PassKeepsHoles ==
  ASSUME Inductive, Entirety, Holes, PassOrRefuse
  PROVE  Holes'
<1> DEFINE part == Head(aWhat)
           fits == CustomerMax = 0 \/ CustomerMax >= Len(part.data)
<1>1. /\ aWhat # <<>> /\ ~MIsSplited(part)
      /\ out' = IF fits THEN Append(out, [pkt |-> part.pkt, data |-> part.data]) ELSE out
      /\ reported' = IF fits THEN reported ELSE reported \cup {<<part.pkt, "E_DATA_TOO_LARGE">>}
      /\ aWhat' = Tail(aWhat)
      /\ UNCHANGED <<sizeOf, wire, FMergeOp, lost, levels, cut>>
  BY DEF PassOrRefuse, history
<1>2. /\ TypeOK /\ Flow /\ OutType /\ aWhat \in Seq(Part) /\ EndsMatch
      /\ \A q \in InFlight : q.pkt \in Packets
  BY DEF Inductive, IInv, Fates, FateAhead, TypeOK, Entirety
<1>3. Len(aWhat) \in Nat \ {0} /\ part = aWhat[1] /\ part \in InFlight
  BY <1>1, <1>2, HeadIsFirst
<1>4. PICK k \in 1 .. Len(aWhat) : k = 1
  BY <1>3
<1>5. aWhat' = SubSeq(aWhat, k + 1, Len(aWhat))
  BY <1>1, <1>2, <1>4, TailIsSubSeq
<1>6. InFlight' \subseteq InFlight
  BY <1>1, <1>2, <1>4, <1>5, ListShrinks
<1>7. PICK a, p, X : a = part /\ p = a.pkt /\ X = {p}
  OBVIOUS
<1>8. a \in InFlight /\ a.FIsLast /\ a.FCounter = 1
  BY <1>1, <1>3, <1>7 DEF MIsSplited
<1>9. \A r : Delivered(r)' => Delivered(r) \/ r = p
  <2>1. CASE out' = out
    BY <2>1 DEF Delivered
  <2>2. CASE out' # out
    <3>1. PICK o : o = [pkt |-> p, data |-> a.data]
      OBVIOUS
    <3>2. out' = Append(out, o) /\ o.pkt = p
      BY <1>1, <1>7, <2>2, <3>1
    <3>3. /\ DOMAIN out = 1 .. Len(out) /\ DOMAIN out' = 1 .. Len(out) + 1 /\ Len(out) \in Nat
          /\ out'[Len(out) + 1] = o /\ \A n \in 1 .. Len(out) : out'[n] = out[n]
      BY <1>2, <3>2, Delivers
    <3>4. \A n \in DOMAIN out' : n = Len(out) + 1 \/ (n \in DOMAIN out /\ out'[n] = out[n])
      BY <3>3
    <3>5. QED
      BY <3>2, <3>3, <3>4 DEF Delivered
  <2>3. QED
    BY <2>1, <2>2
<1>10. /\ \A x \in InFlight' : x.pkt \in X \cup cut' \/ \E q \in InFlight : Inside(x, q)
       /\ \A r \in Packets : sizeOf'[r] = sizeOf[r]
       /\ \A r \in Packets' : r \in X \/ /\ r \in Packets
                                         /\ Lossy(r)' => Lossy(r)
                                         /\ Delivered(r)' => Delivered(r)
                                         /\ FMergeOp'.pkt = r => FMergeOp' = FMergeOp
  BY <1>1, <1>6, <1>7, <1>9, StaysInside DEF Packets, Lossy
<1>11. \A r \in Packets' : r \in X \/ Missing(r)'
  BY <1>1, <1>2, <1>10, HolesStay
<1>12. ASSUME p \notin cut, ~Uneven(p), Lossy(p) PROVE FALSE
  <2>1. p \in Packets
    BY <1>2, <1>7, <1>8
  <2>2. PICK g \in Nat : Hole(g, p)
    BY <1>12, <2>1 DEF Holes, Missing
  <2>3. Counted(cut, a) /\ End(a) = sizeOf[p]
    BY <1>2, <1>7, <1>8, NumbersInFlight DEF EndsMatch
  <2>4. Begin(a) = 0
    BY <1>7, <1>8, <1>12, <2>3 DEF Counted
  <2>5. Covers(a, g)
    BY <2>2, <2>3, <2>4 DEF Hole, Covers
  <2>6. QED
    BY <1>7, <1>8, <2>2, <2>5 DEF Hole
<1>13. Missing(p)'
  BY <1>1, <1>12 DEF Missing, Lossy, Uneven
<1>14. InBounds'
  <2> SUFFICES ASSUME NEW x \in InFlight', x.pkt \notin cut', NEW g \in Nat, Covers(x, g)
               PROVE  g <= sizeOf'[x.pkt]
    BY DEF InBounds, Covers, Begin, End
  <2>1. QED
    BY <1>1, <1>6 DEF Holes, InBounds
<1>15. RefusedIsLossy'
  <2>1. "E_DATA_TOO_LARGE" # SendError
    BY DEF SendError
  <2>2. \A r : Refused(r)' => Refused(r)
    BY <1>1, <2>1 DEF Refused
  <2>3. QED
    BY <1>1, <2>2 DEF Holes, RefusedIsLossy, Lossy
<1>16. QED
  BY <1>7, <1>11, <1>13, <1>14, <1>15 DEF Holes

LEMMA SupersedeKeepsHoles ==
  ASSUME Inductive, Holes, Supersede
  PROVE  Holes'
<1>1. /\ reported' = reported \cup {<<FMergeOp.pkt, "E_PACKET_LOST">>}
      /\ FMergeOp' = NoOp /\ UNCHANGED <<sizeOf, wire, aWhat, out, lost, levels, cut>>
  BY DEF Supersede, history
<1>2. \A q \in InFlight : q.pkt \in Packets
  BY DEF Inductive, IInv, Fates, FateAhead
<1>3. InFlight' = InFlight
  <2>1. Lines' = Lines
    BY <1>1 DEF Lines
  <2>2. QED
    BY <2>1 DEF InFlight
<1>4. PICK X : X = {}
  OBVIOUS
<1>5. \A r \in Packets' : FMergeOp'.pkt # r
  BY <1>1 DEF Packets, NoOp
<1>6. /\ \A x \in InFlight' : x.pkt \in X \cup cut' \/ \E q \in InFlight : Inside(x, q)
      /\ \A r \in Packets : sizeOf'[r] = sizeOf[r]
      /\ \A r \in Packets' : r \in X \/ /\ r \in Packets
                                        /\ Lossy(r)' => Lossy(r)
                                        /\ Delivered(r)' => Delivered(r)
                                        /\ FMergeOp'.pkt = r => FMergeOp' = FMergeOp
  BY <1>1, <1>3, <1>5, StaysInside DEF Packets, Lossy, Delivered
<1>7. /\ \A x \in InFlight' : x.pkt \in X \cup cut' \/
           \A g \in Nat : Covers(x, g) => g <= sizeOf'[x.pkt]
      /\ \A r \in Packets' : r \in X \/ Missing(r)'
  BY <1>1, <1>2, <1>6, HolesStay
<1>8. RefusedIsLossy'
  <2>1. "E_PACKET_LOST" # SendError
    BY DEF SendError
  <2>2. \A r : Refused(r)' => Refused(r)
    BY <1>1, <2>1 DEF Refused
  <2>3. QED
    BY <1>1, <2>2 DEF Holes, RefusedIsLossy, Lossy
<1>9. QED
  BY <1>4, <1>7, <1>8 DEF Holes, InBounds

(* Parts that follow each other cover every byte up to the end of the last *)
(* one.                                                                    *)
LEMMA NoGap ==
  ASSUME TypeOK, Flow, NEW w, Taken(w), w[1].pkt \notin cut, NEW e \in Nat, Follows(w, e),
         NEW g \in Nat, e < g, \A i \in 1 .. Len(w) : ~Covers(w[i], g)
  PROVE  End(w[Len(w)]) \in Nat /\ End(w[Len(w)]) < g
<1> DEFINE n == Len(w)
           S == {i \in 1 .. n : g <= End(w[i])}
<1>1. n \in Nat \ {0} /\ 1 \in 1 .. n /\ n \in 1 .. n
  BY DEF Taken
<1>2. \A i \in 1 .. n : Begin(w[i]) \in Nat /\ End(w[i]) \in Nat
  BY TakenPlaces
<1>3. S = {}
  <2> SUFFICES ASSUME S # {} PROVE FALSE
    OBVIOUS
  <2>1. S \subseteq Nat
    BY <1>1
  <2>2. PICK m \in S : \A j \in S : m <= j
    BY <2>1, LeastElement
  <2>3. m \in 1 .. n /\ g <= End(w[m]) /\ g <= Begin(w[m])
    <3>1. m \in 1 .. n /\ g <= End(w[m])
      BY <2>2
    <3>2. ~Covers(w[m], g) /\ Begin(w[m]) \in Nat
      BY <1>2, <3>1
    <3>3. QED
      BY <3>1, <3>2 DEF Covers
  <2>4. CASE m = 1
    BY <2>3, <2>4 DEF Follows
  <2>5. CASE m # 1
    <3>1. PICK j : j = m - 1
      OBVIOUS
    <3>2. j \in 1 .. n - 1 /\ j \in 1 .. n /\ j + 1 = m /\ ~(m <= j)
      BY <1>1, <2>3, <2>5, <3>1
    <3>3. Begin(w[m]) = End(w[j])
      BY <3>2 DEF Follows
    <3>4. j \in S
      BY <2>3, <3>2, <3>3
    <3>5. QED
      BY <2>2, <3>2, <3>4
  <2>6. QED
    BY <2>4, <2>5
<1>4. ~(g <= End(w[n])) /\ End(w[n]) \in Nat
  BY <1>1, <1>2, <1>3
<1>5. QED
  BY <1>4

(* A merge that goes on stops before the missing byte, and so is not the   *)
(* whole packet.                                                           *)
LEMMA MMergeKeepsHoles ==
  ASSUME Inductive, Entirety, Holes, MMerge
  PROVE  Holes'
<1>1. /\ TypeOK /\ Flow /\ OutType /\ IInv /\ EndsMatch
      /\ \A q \in InFlight : q.pkt \in Packets
  BY DEF Inductive, IInv, Fates, FateAhead, Entirety
<1>2. UNCHANGED <<sizeOf, lost, levels, cut>>
  BY <1>1, MMergeDoes
<1>3. PICK w, op : Merges(w, op)
  BY <1>1, MMergeDoes
<1>4. PICK x, n, z, d, X :
         x = w[1].pkt /\ n = Len(w) /\ z = w[Len(w)] /\ d = op.buf \o DataOf(w) /\ X = {x}
  OBVIOUS
<1> DEFINE Lost == /\ FMergeOp' = NoOp /\ out' = out
                   /\ reported' = reported \cup {<<x, "E_PACKET_LOST">>}
           Gives == /\ ~Fails(w, op) /\ z.FIsLast /\ FMergeOp' = NoOp /\ reported' = reported
                    /\ out' = Append(out, [pkt |-> x, data |-> d])
           GoesOn == /\ ~Fails(w, op) /\ out' = out /\ reported' = reported
                     /\ FMergeOp'.pkt = x /\ FMergeOp'.buf = d
<1>5. /\ Taken(w) /\ Dropped(Elems(w)) /\ n \in Nat \ {0} /\ op.pkt = x
      /\ op = (IF FMergeOp = NoOp THEN OpFor(w[1]) ELSE FMergeOp)
      /\ Lost \/ Gives \/ GoesOn
  BY <1>3, <1>4 DEF Merges, Taken
<1> HIDE DEF Lost, Gives, GoesOn
<1>6. /\ \A i \in 1 .. n : w[i] \in InFlight /\ w[i].pkt = x
      /\ z \in InFlight /\ z.pkt = x /\ InFlight' \subseteq InFlight
  BY <1>4, <1>5 DEF Taken, Dropped
<1>7. x \in Packets /\ x # 0 /\ Packets' = Packets /\ FMergeOp.pkt \in {0, x}
  BY <1>1, <1>2, <1>5, <1>6 DEF Packets, NoOp
<1>8. \A r : Delivered(r)' => Delivered(r) \/ r = x
  <2>1. CASE out' = out
    BY <2>1 DEF Delivered
  <2>2. CASE Gives
    <3>1. PICK o : o = [pkt |-> x, data |-> d]
      OBVIOUS
    <3>2. out' = Append(out, o) /\ o.pkt = x
      BY <2>2, <3>1 DEF Gives
    <3>3. /\ DOMAIN out = 1 .. Len(out) /\ DOMAIN out' = 1 .. Len(out) + 1 /\ Len(out) \in Nat
          /\ out'[Len(out) + 1] = o /\ \A i \in 1 .. Len(out) : out'[i] = out[i]
      BY <1>1, <3>2, Delivers
    <3>4. \A i \in DOMAIN out' : i = Len(out) + 1 \/ (i \in DOMAIN out /\ out'[i] = out[i])
      BY <3>3
    <3>5. QED
      BY <3>2, <3>3, <3>4 DEF Delivered
  <2>3. QED
    BY <1>5, <2>1, <2>2 DEF Lost, GoesOn
<1>9. FMergeOp'.pkt \in {0, x} /\ \A r \in Packets : r # 0
  BY <1>5 DEF Lost, Gives, GoesOn, NoOp, Packets
<1>10. /\ \A q \in InFlight' : q.pkt \in X \cup cut' \/ \E r \in InFlight : Inside(q, r)
       /\ \A r \in Packets : sizeOf'[r] = sizeOf[r]
       /\ \A r \in Packets' : r \in X \/ /\ r \in Packets
                                         /\ Lossy(r)' => Lossy(r)
                                         /\ Delivered(r)' => Delivered(r)
                                         /\ FMergeOp'.pkt = r => FMergeOp' = FMergeOp
  BY <1>2, <1>4, <1>6, <1>7, <1>8, <1>9, StaysInside DEF Lossy
<1>11. \A r \in Packets' : r \in X \/ Missing(r)'
  BY <1>1, <1>2, <1>10, HolesStay
<1>12. ASSUME x \notin cut, Lossy(x), ~Uneven(x) PROVE \E g \in Nat : Hole(g, x)'
  <2>1. PICK g \in Nat : Hole(g, x)
    BY <1>7, <1>12 DEF Holes, Missing
  <2>2. /\ g # 0 /\ g <= sizeOf'[x]
        /\ \A q \in InFlight' : q.pkt = x => ~Covers(q, g)
    BY <1>2, <1>6, <2>1 DEF Hole
  <2>3. CASE Lost
    <3>1. FMergeOp'.pkt # x /\ ~Delivered(x)'
      BY <1>7, <2>1, <2>3 DEF Lost, NoOp, Hole, Delivered
    <3>2. QED
      BY <2>2, <3>1 DEF Hole
  <2>4. ASSUME ~Fails(w, op)
        PROVE  End(z) \in Nat /\ End(z) < g /\ d = Bytes(End(z))
    <3>1. PICK e \in Nat : /\ op.buf = Bytes(e) /\ Follows(w, e)
                           /\ FMergeOp = NoOp => e = 0
                           /\ FMergeOp.pkt = x => Len(FMergeOp.buf) = e
      BY <1>3, <1>4, <1>12, <2>4, MergeIsFollowed
    <3>2. e < g
      <4>1. CASE FMergeOp = NoOp
        BY <2>1, <3>1, <4>1 DEF Hole
      <4>2. CASE FMergeOp # NoOp
        BY <1>5, <2>1, <3>1, <4>2 DEF Hole
      <4>3. QED
        BY <4>1, <4>2
    <3>3. \A i \in 1 .. Len(w) : ~Covers(w[i], g)
      BY <1>4, <1>6, <2>1 DEF Hole
    <3>4. End(z) \in Nat /\ End(z) < g
      BY <1>1, <1>4, <1>5, <1>12, <3>1, <3>2, <3>3, NoGap
    <3>5. d = Bytes(End(z))
      BY <1>3, <1>4, <1>12, <2>4, MergeJoins
    <3>6. QED
      BY <3>4, <3>5
  <2>5. CASE Gives
    <3>1. ~Fails(w, op) /\ End(z) = sizeOf[x]
      BY <1>1, <1>6, <2>5 DEF Gives, EndsMatch
    <3>2. FALSE
      BY <1>2, <2>2, <2>4, <3>1
    <3>3. QED
      BY <3>2
  <2>6. CASE GoesOn
    <3>1. ~Fails(w, op) /\ FMergeOp'.buf = d /\ out' = out
      BY <2>6 DEF GoesOn
    <3>2. Len(Bytes(End(z))) = End(z)
      BY <2>4, <3>1 DEF Bytes
    <3>3. Len(FMergeOp'.buf) < g /\ ~Delivered(x)'
      BY <2>1, <2>4, <3>1, <3>2 DEF Hole, Delivered
    <3>4. QED
      BY <2>2, <3>3 DEF Hole
  <2>7. QED
    BY <1>5, <2>3, <2>5, <2>6
<1>13. Missing(x)'
  BY <1>2, <1>12 DEF Missing, Lossy, Uneven
<1>14. InBounds'
  <2> SUFFICES ASSUME NEW q \in InFlight', q.pkt \notin cut', NEW g \in Nat, Covers(q, g)
               PROVE  g <= sizeOf'[q.pkt]
    BY DEF InBounds, Covers, Begin, End
  <2>1. QED
    BY <1>2, <1>6 DEF Holes, InBounds
<1>15. RefusedIsLossy'
  <2>1. "E_PACKET_LOST" # SendError
    BY DEF SendError
  <2>2. \A r : Refused(r)' => Refused(r)
    BY <1>5, <2>1 DEF Refused, Lost, Gives, GoesOn
  <2>3. QED
    BY <1>2, <2>2 DEF Holes, RefusedIsLossy, Lossy
<1>16. QED
  BY <1>4, <1>11, <1>13, <1>14, <1>15 DEF Holes

LEMMA InitHoles == Init => Holes
<1> SUFFICES ASSUME Init PROVE Holes
  OBVIOUS
<1>1. TypeOK
  BY InitInductive DEF Inductive, IInv
<1>2. InFlight = {}
  <2>1. \A h \in Rows : h = Links + 1 \/ h \in 1 .. Links
    BY LinksAre DEF Rows
  <2>2. \A h \in Rows : Lines[h] = <<>>
    BY <1>1, <2>1, LinesAre DEF Init
  <2>3. QED
    BY <2>2 DEF InFlight, InRows, Elems
<1>3. Packets = {} /\ reported = {}
  BY DEF Init, Packets
<1>4. QED
  BY <1>2, <1>3 DEF Holes, InBounds, RefusedIsLossy, Refused

LEMMA NextKeepsHoles == Inductive /\ Inductive' /\ Entirety /\ Holes /\ [Next]_vars => Holes'
<1> SUFFICES ASSUME Inductive, Inductive', Entirety, Holes, [Next]_vars PROVE Holes'
  OBVIOUS
<1>1. TypeOK /\ Flow /\ TypeOK' /\ \A q \in InFlight : q.pkt \in Packets
  BY DEF Inductive, IInv, Fates, FateAhead
<1>2. ASSUME NEW n \in Sizes, MSendTo(n) PROVE Holes'
  BY <1>1, <1>2, SendKeepsHoles
<1>3. ASSUME NEW h \in 1 .. Links - 1, Forward(h) PROVE Holes'
  <2>1. UNCHANGED <<sizeOf, FMergeOp, out, reported, lost>>
    BY <1>3 DEF Forward
  <2>2. Moved /\ cut \subseteq cut' /\ \E q \in InFlight : \E s : Spread(q, s)
    BY <1>1, <1>3, ForwardMoves
  <2>3. levels \subseteq levels'
    BY <2>2 DEF Spread
  <2>4. QED
    BY <1>1, <2>1, <2>2, <2>3, MoveKeepsHoles
<1>4. ASSUME NEW h \in 1 .. Links, Lose(h) PROVE Holes'
  BY <1>4, LoseKeepsHoles
<1>5. ASSUME NEW n \in 1 .. MaxBatch, Receive(n) PROVE Holes'
  <2>1. UNCHANGED <<sizeOf, FMergeOp, out, reported, lost, levels, cut>>
    BY <1>5 DEF Receive
  <2>2. Moved
    BY <1>1, <1>5, ReceiveMoves
  <2>3. QED
    BY <1>1, <2>1, <2>2, MoveKeepsHoles
<1>6. CASE PassOrRefuse
  BY <1>6, PassKeepsHoles
<1>7. CASE Supersede
  BY <1>7, SupersedeKeepsHoles
<1>8. CASE MMerge
  BY <1>8, MMergeKeepsHoles
<1>9. CASE UNCHANGED vars
  <2>1. UNCHANGED <<sizeOf, wire, aWhat, FMergeOp, out, reported, lost, levels, cut>>
    BY <1>9 DEF vars
  <2>2. InFlight' = InFlight
    <3>1. Lines' = Lines
      BY <2>1 DEF Lines
    <3>2. QED
      BY <3>1 DEF InFlight
  <2>3. Moved
    BY <1>1, <2>1, <2>2, StaysPart, PartsInFlight DEF Moved, Flow
  <2>4. QED
    BY <1>1, <2>1, <2>3, MoveKeepsHoles
<1>10. QED
  BY <1>2, <1>3, <1>4, <1>5, <1>6, <1>7, <1>8, <1>9 DEF Next, Done

LEMMA AlwaysHoles == Spec => [](Inductive /\ Entirety /\ Holes)
BY InitInductive, NextKeepsInductive, InitEntirety, NextKeepsEntirety, InitHoles, NextKeepsHoles,
   PTL DEF Spec

(* Whatever the chain of links, their limits and the parts that are lost:  *)
(* the customer is given packets in the order in which they were sent and  *)
(* none twice; no packet with counters of 16 bits is both given to it and  *)
(* reported to its sender by the customer's kernel as failed; and a packet *)
(* of which a kernel on the way reported a part (MNoteFailSend after       *)
(* CKernelIo::MSendTo) is given to it only if it was split unevenly.       *)
THEOREM OneFateHolds == Spec => [](TypeOK /\ OneFate)
<1>1. ASSUME Inductive, Holes PROVE TypeOK /\ OneFate
  <2>1. TypeOK /\ OutType /\ FatesDiffer /\ FatesAreSent /\ DOMAIN out = 1 .. Len(out)
    BY <1>1, OutIs DEF Inductive, IInv, Fates
  <2>2. ASSUME NEW i \in DOMAIN out, Refused(out[i].pkt)
        PROVE  out[i].pkt \in cut \/ Uneven(out[i].pkt)
    <3>1. PICK p : p = out[i].pkt
      OBVIOUS
    <3>2. p \in Packets /\ Delivered(p)
      BY <2>1, <2>2, <3>1 DEF FatesAreSent, Delivered
    <3>3. Lossy(p)
      BY <1>1, <2>2, <3>1 DEF Holes, RefusedIsLossy
    <3>4. p \in cut \/ Uneven(p)
      BY <1>1, <3>2, <3>3 DEF Holes, Missing, Hole
    <3>5. QED
      BY <3>1, <3>4
  <2>3. OneFate
    BY <2>1, <2>2 DEF OneFate, FatesDiffer
  <2>4. QED
    BY <2>1, <2>3
<1>2. QED
  BY <1>1, AlwaysHoles, PTL

-----------------------------------------------------------------------------
(* Joining undoes splitting, however often and into however many parts the *)
(* kernels of the chain split a packet; and a packet with a hole in it is  *)
(* given to the customer only if its parts arrived with different          *)
(* coefficients, which MCheckingSequence counts one by one, or if 16 bits  *)
(* do not suffice.                                                         *)
THEOREM EntireUnlessUnevenHolds == Spec => []EntireUnlessUneven
<1>1. Entirety => EntireUnlessUneven
  BY DEF Entirety
<1>2. QED
  BY <1>1, AlwaysEntirety, PTL

(* When everything is handled, a packet of which something arrived has a   *)
(* fate, and one that lost nothing was given to the customer or is too     *)
(* large for it: MCheckingSequence and the end of a merge report no loss   *)
(* that did not happen, unless a coefficient recurs or is cut off.         *)
THEOREM NothingIsForgottenHolds == Spec => []NothingIsForgotten
<1>1. ASSUME Inductive, Entirety PROVE NothingIsForgotten
  <2> SUFFICES ASSUME Handled, NEW p \in Packets
               PROVE  /\ HasFate(p)
                      /\ ~Lossy(p) /\ ~Delivered(p) =>
                           \/ <<p, "E_DATA_TOO_LARGE">> \in reported
                           \/ p \in cut
                           \/ Recurs(p)
    BY DEF NothingIsForgotten
  <2>1. TypeOK /\ aWhat = <<>> /\ \A h \in 1 .. Links : wire[h] = <<>>
    BY <1>1 DEF Inductive, IInv, Handled
  <2>2. InFlight = {}
    <3>1. \A h \in Rows : h = Links + 1 \/ h \in 1 .. Links
      BY LinksAre DEF Rows
    <3>2. \A h \in Rows : Lines[h] = <<>>
      BY <2>1, <3>1, LinesAre
    <3>3. QED
      BY <3>2 DEF InFlight, InRows, Elems
  <2>3. HasFate(p)
    <3>1. Elems(aWhat) = {}
      BY <2>1 DEF Elems
    <3>2. QED
      BY <1>1, <3>1 DEF Inductive, Remembered, Awaits, HasFate
  <2>4. ASSUME ~Lossy(p), ~Delivered(p), p \notin cut, ~Recurs(p)
        PROVE  <<p, "E_DATA_TOO_LARGE">> \in reported
    <3>1. Sound(p)
      BY <2>4 DEF Sound
    <3>2. Reported(p)
      BY <1>1, <2>2, <2>4, <3>1 DEF Entirety, Lasts, HasLast
    <3>3. ~Blamed(p)
      BY <1>1, <2>4, <3>1 DEF Entirety, NotBlamed
    <3>4. QED
      BY <3>2, <3>3 DEF Reported, Blamed
  <2>5. QED
    BY <2>3, <2>4
<1>2. QED
  BY <1>1, AlwaysEntirety, PTL
=============================================================================
