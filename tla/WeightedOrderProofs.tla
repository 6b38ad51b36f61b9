------------------------ MODULE WeightedOrderProofs ------------------------
(***************************************************************************)
(* Proofs about WeightedOrder, for any number of channels and any weights: *)
(* the load follows the weights, and the order holds every channel once.   *)
(***************************************************************************)
EXTENDS WeightedOrder, Sums, SequenceTheorems

-----------------------------------------------------------------------------
\* Running sums of positive values grow.
LEMMA FirstGrows ==
    ASSUME NEW f, NEW m \in Nat, \A i \in 1..m : f[i] \in Int /\ f[i] >= 1
    PROVE  \A b \in 0..m : /\ First(f, b) \in Int
                           /\ \A a \in 0..m : a < b => First(f, a) < First(f, b)
<1> DEFINE T == {b \in Nat : b <= m => /\ First(f, b) \in Int
                                       /\ \A a \in 0..m : a < b => First(f, a) < First(f, b)}
<1>1. 0 \in T
  BY FirstNone
<1>2. ASSUME NEW n \in Nat, n \in T PROVE n + 1 \in T
  <2> SUFFICES ASSUME n + 1 <= m
               PROVE  /\ First(f, n + 1) \in Int
                      /\ \A a \in 0..m : a < n + 1 => First(f, a) < First(f, n + 1)
    OBVIOUS
  <2>1. n < m /\ n <= m /\ n + 1 \in 1..m /\ f[n + 1] \in Int /\ f[n + 1] >= 1
    OBVIOUS
  <2>2. First(f, n) \in Int /\ \A a \in 0..m : a < n => First(f, a) < First(f, n)
    BY <1>2, <2>1
  <2>3. First(f, n + 1) \in Int /\ First(f, n + 1) = f[n + 1] + First(f, n)
    BY <2>1, FirstNext
  <2>4. First(f, n) < First(f, n + 1)
    BY <2>1, <2>2, <2>3
  <2>5. ASSUME NEW a \in 0..m, a < n + 1 PROVE First(f, a) < First(f, n + 1)
    <3>1. CASE a = n
      BY <2>4, <3>1
    <3>2. CASE a < n
      <4>1. First(f, a) < First(f, n)
        BY <2>2, <3>2
      <4>2. First(f, a) \in Int
        <5>1. a \in Nat /\ a < m
          BY <2>1, <3>2
        <5> QED BY <5>1, FirstNext
      <4> QED BY <2>2, <2>3, <2>4, <4>1, <4>2
    <3> QED BY <2>5, <3>1, <3>2
  <2> QED BY <2>3, <2>5
<1> HIDE DEF T
<1>3. \A b \in 0..m : b \in T
  BY <1>1, <1>2, NatRange
<1> QED BY <1>3 DEF T

\* Every number below the sum lies in the share of one value.
LEMMA FirstReached ==
    ASSUME NEW f, NEW m \in Nat, \A i \in 1..m : f[i] \in Int /\ f[i] >= 1,
           NEW r \in Nat, r < First(f, m)
    PROVE  \E k \in 1..m : First(f, k - 1) <= r /\ r < First(f, k)
<1> DEFINE T == {b \in Nat : b <= m => First(f, b) <= r}
<1> SUFFICES ASSUME \A k \in 1..m : First(f, k - 1) <= r => ~(r < First(f, k))
             PROVE  FALSE
  OBVIOUS
<1>0. \A b \in 0..m : First(f, b) \in Int
  BY FirstGrows
<1>1. 0 \in T
  BY FirstNone
<1>2. ASSUME NEW n \in Nat, n \in T PROVE n + 1 \in T
  <2> SUFFICES ASSUME n + 1 <= m PROVE First(f, n + 1) <= r
    OBVIOUS
  <2>1. PICK k : k = n + 1
    OBVIOUS
  <2>2. k \in 1..m /\ k - 1 = n /\ First(f, n) <= r /\ First(f, k) \in Int
    BY <1>0, <1>2, <2>1
  <2>3. ~(r < First(f, k))
    BY <2>2
  <2> QED BY <2>1, <2>2, <2>3
<1> HIDE DEF T
<1>3. m \in T
  BY <1>1, <1>2, NatRange
<1>4. First(f, m) <= r /\ First(f, m) \in Int
  BY <1>0, <1>3 DEF T
<1> QED BY <1>4

-----------------------------------------------------------------------------
\* What is left of a sequence without its element at p.
LEMMA Removed ==
    ASSUME NEW S, NEW s \in Seq(S), NEW p \in 1..Len(s)
    PROVE  /\ RemoveAt(s, p) \in Seq(S)
           /\ Len(RemoveAt(s, p)) = Len(s) - 1
           /\ \A i \in 1..Len(s) - 1 : RemoveAt(s, p)[i] = IF i < p THEN s[i] ELSE s[i + 1]
<1>1. Len(s) \in Nat /\ p \in Int /\ p - 1 \in Int /\ p + 1 \in Int /\ Len(s) \in Int
      /\ 1 <= p /\ p <= Len(s) /\ \A i \in 1..Len(s) : s[i] \in S
  OBVIOUS
<1>2. PICK a : a = SubSeq(s, 1, p - 1)
  OBVIOUS
<1>3. PICK b : b = SubSeq(s, p + 1, Len(s))
  OBVIOUS
<1>4. a \in Seq(S) /\ Len(a) = p - 1 /\ \A i \in 1..p - 1 : a[i] = s[i]
  <2>1. \A i \in 1..p - 1 : s[i] \in S
    BY <1>1
  <2>2. /\ a \in Seq(S) /\ Len(a) = IF 1 <= p - 1 THEN p - 1 - 1 + 1 ELSE 0
        /\ \A i \in 1..p - 1 - 1 + 1 : a[i] = s[1 + i - 1]
    BY <1>1, <1>2, <2>1, SubSeqProperties
  <2>3. Len(a) = p - 1 /\ p - 1 - 1 + 1 = p - 1
    BY <1>1, <2>2
  <2>4. \A i \in 1..p - 1 : 1 + i - 1 = i
    BY <1>1
  <2> QED BY <2>2, <2>3, <2>4
<1>5. b \in Seq(S) /\ Len(b) = Len(s) - p /\ \A i \in 1..Len(s) - p : b[i] = s[p + i]
  <2>1. \A i \in p + 1..Len(s) : s[i] \in S
    BY <1>1
  <2>2. /\ b \in Seq(S) /\ Len(b) = IF p + 1 <= Len(s) THEN Len(s) - (p + 1) + 1 ELSE 0
        /\ \A i \in 1..Len(s) - (p + 1) + 1 : b[i] = s[p + 1 + i - 1]
    BY <1>1, <1>3, <2>1, SubSeqProperties
  <2>3. Len(b) = Len(s) - p /\ Len(s) - (p + 1) + 1 = Len(s) - p
    BY <1>1, <2>2
  <2>4. \A i \in 1..Len(s) - p : p + 1 + i - 1 = p + i
    BY <1>1
  <2> QED BY <2>2, <2>3, <2>4
<1>6. PICK q : q = a \o b
  OBVIOUS
<1>7. /\ q \in Seq(S) /\ Len(q) = Len(a) + Len(b)
      /\ \A i \in 1..Len(a) + Len(b) : q[i] = IF i <= Len(a) THEN a[i] ELSE b[i - Len(a)]
  BY <1>4, <1>5, <1>6, ConcatProperties
<1>8. Len(q) = Len(s) - 1 /\ Len(a) + Len(b) = Len(s) - 1
  BY <1>1, <1>4, <1>5, <1>7
<1>9. ASSUME NEW i \in 1..Len(s) - 1 PROVE q[i] = IF i < p THEN s[i] ELSE s[i + 1]
  <2>1. CASE i < p
    <3>1. i <= p - 1 /\ i \in 1..p - 1
      BY <1>1, <2>1
    <3> QED BY <1>4, <1>7, <1>8, <2>1, <3>1
  <2>2. CASE ~(i < p)
    <3>1. PICK j : j = i - (p - 1)
      OBVIOUS
    <3>2. ~(i <= p - 1) /\ j \in 1..Len(s) - p /\ p + j = i + 1
      BY <1>1, <2>2, <3>1
    <3>3. q[i] = b[j]
      BY <1>4, <1>7, <1>8, <3>1, <3>2
    <3> QED BY <1>5, <2>2, <3>2, <3>3
  <2> QED BY <2>1, <2>2
<1>10. RemoveAt(s, p) = q
  BY <1>2, <1>3, <1>6 DEF RemoveAt
<1> QED BY <1>7, <1>8, <1>9, <1>10

-----------------------------------------------------------------------------
\* The numbers that select position k are those of its share of the sum.
LEMMA PickedIn ==
    ASSUME OrderTypeOK
    PROVE  /\ \A k \in DOMAIN idx : W(idx[k]) \in Int /\ W(idx[k]) >= 1
           /\ \A k \in 0..Len(idx) : Total(k) \in Int
           /\ \A k \in DOMAIN idx : Total(k - 1) \in Int /\ Total(k) = W(idx[k]) + Total(k - 1)
                                     /\ 0 <= Total(k - 1) /\ Total(k) <= Total(Len(idx))
           /\ \A r \in 0..Total(Len(idx)) - 1 :
                /\ Pick(r) \in DOMAIN idx
                /\ \A k \in DOMAIN idx : Pick(r) = k <=> Total(k - 1) <= r /\ r < Total(k)
<1>1. Len(idx) \in Nat /\ DOMAIN idx = 1..Len(idx) /\ \A k \in 1..Len(idx) : idx[k] \in 1..N
  <2>1. idx \in Seq(1..N)
    BY DEF OrderTypeOK
  <2> HIDE DEF OrderTypeOK
  <2> QED BY <2>1, LenProperties
<1>2. \A c \in 1..N : weights[c] \in Int
  BY WeightedOrderAssumption DEF OrderTypeOK
<1>3. \A c \in 1..N : W(c) \in Int /\ W(c) >= 1
  BY <1>2 DEF W
<1>4. PICK f : f = Load
  OBVIOUS
<1>5. \A k \in 1..Len(idx) : f[k] = W(idx[k])
  BY <1>1, <1>4 DEF Load
<1>6. \A k \in 1..Len(idx) : f[k] \in Int /\ f[k] >= 1
  BY <1>1, <1>3, <1>5
<1>7. \A k : Total(k) = First(f, k)
  BY <1>4 DEF Total, First
<1>8. \A b \in 0..Len(idx) : /\ Total(b) \in Int
                             /\ \A a \in 0..Len(idx) : a < b => Total(a) < Total(b)
  BY <1>1, <1>6, <1>7, FirstGrows
<1>9. ASSUME NEW k \in 1..Len(idx)
      PROVE  /\ Total(k - 1) \in Int /\ Total(k) = W(idx[k]) + Total(k - 1)
             /\ 0 <= Total(k - 1) /\ Total(k) <= Total(Len(idx))
  <2>1. k - 1 \in Nat /\ k - 1 < Len(idx) /\ k - 1 + 1 = k /\ k - 1 \in 0..Len(idx) /\ 0 \in 0..Len(idx)
        /\ k \in 0..Len(idx) /\ Len(idx) \in 0..Len(idx)
    BY <1>1
  <2>2. Total(k) = f[k] + Total(k - 1)
    BY <1>1, <1>6, <1>7, <2>1, FirstNext
  <2>3. Total(0) = 0
    BY <1>7, FirstNone
  <2>4. 0 <= Total(k - 1)
    <3>1. CASE k - 1 = 0
      BY <2>3, <3>1
    <3>2. CASE 0 < k - 1
      <4>1. Total(0) < Total(k - 1) /\ Total(k - 1) \in Int
        BY <1>8, <2>1, <3>2
      <4> QED BY <2>3, <4>1
    <3> QED BY <2>1, <3>1, <3>2
  <2>5. Total(k) <= Total(Len(idx))
    <3>1. CASE k = Len(idx)
      <4>1. Total(k) \in Int /\ Total(k) = Total(Len(idx))
        BY <1>8, <2>1, <3>1
      <4> QED BY <4>1
    <3>2. CASE k < Len(idx)
      <4>1. Total(k) < Total(Len(idx)) /\ Total(k) \in Int /\ Total(Len(idx)) \in Int
        BY <1>8, <2>1, <3>2
      <4> QED BY <4>1
    <3>3. k = Len(idx) \/ k < Len(idx)
      <4>1. PICK n : n = Len(idx)
        OBVIOUS
      <4>2. n \in Nat /\ k \in 1..n
        BY <1>1, <1>9, <4>1
      <4>3. k = n \/ k < n
        BY <4>2
      <4> QED BY <4>1, <4>3
    <3> QED BY <3>1, <3>2, <3>3
  <2> QED BY <1>5, <1>8, <2>1, <2>2, <2>4, <2>5
<1>10. ASSUME NEW r \in 0..Total(Len(idx)) - 1
       PROVE  /\ Pick(r) \in DOMAIN idx
              /\ \A k \in DOMAIN idx : Pick(r) = k <=> Total(k - 1) <= r /\ r < Total(k)
  <2> DEFINE Sel(k) == Total(k) > r /\ \A l \in 1..k - 1 : Total(l) <= r
  <2>0. r \in Nat /\ r < Total(Len(idx)) /\ Total(Len(idx)) \in Int
    <3>1. Total(Len(idx)) \in Int
      BY <1>1, <1>8
    <3> QED BY <3>1
  <2>1. \E k \in 1..Len(idx) : Total(k - 1) <= r /\ r < Total(k)
    BY <1>1, <1>6, <1>7, <2>0, FirstReached
  <2>2. ASSUME NEW k \in 1..Len(idx) PROVE Sel(k) <=> Total(k - 1) <= r /\ r < Total(k)
    <3>1. k - 1 \in 0..Len(idx) /\ k \in 0..Len(idx) /\ Total(k) \in Int /\ Total(k - 1) \in Int
      BY <1>1, <1>8
    <3>2. ASSUME Sel(k) PROVE Total(k - 1) <= r
      <4>1. CASE k = 1
        <5>1. Total(k - 1) = 0
          BY <1>7, <4>1, FirstNone
        <5> QED BY <2>0, <5>1
      <4>2. CASE k # 1
        <5>1. k - 1 \in 1..k - 1
          BY <4>2
        <5> QED BY <3>2, <5>1
      <4> QED BY <4>1, <4>2
    <3>3. ASSUME Total(k - 1) <= r, NEW l \in 1..k - 1 PROVE Total(l) <= r
      <4>1. l \in 0..Len(idx) /\ (l = k - 1 \/ l < k - 1)
        BY <1>1
      <4>2. l < k - 1 => Total(l) < Total(k - 1) /\ Total(l) \in Int
        BY <1>8, <3>1, <4>1
      <4> QED BY <2>0, <3>1, <3>3, <4>1, <4>2
    <3> QED BY <2>0, <3>1, <3>2, <3>3
  <2>3. ASSUME NEW j \in 1..Len(idx), NEW k \in 1..Len(idx), Sel(j), Sel(k) PROVE j = k
    <3>1. Total(j) \in Int /\ Total(k) \in Int
      BY <1>1, <1>8
    <3>2. ~(j < k)
      <4>1. j < k => j \in 1..k - 1
        OBVIOUS
      <4> QED BY <2>0, <2>3, <3>1, <4>1
    <3>3. ~(k < j)
      <4>1. k < j => k \in 1..j - 1
        OBVIOUS
      <4> QED BY <2>0, <2>3, <3>1, <4>1
    <3> QED BY <3>2, <3>3
  <2>4. Pick(r) = CHOOSE k \in DOMAIN idx : Sel(k)
    BY DEF Pick
  <2> HIDE DEF Sel
  <2>5. Pick(r) \in 1..Len(idx) /\ Sel(Pick(r))
    BY <1>1, <2>1, <2>2, <2>4
  <2> QED BY <1>1, <2>2, <2>3, <2>5
<1> QED BY <1>1, <1>3, <1>8, <1>9, <1>10

\* Each position has as many numbers as its weight.
LEMMA Shares ==
    ASSUME OrderTypeOK, NEW k \in DOMAIN idx
    PROVE  Cardinality({r \in 0..Total(Len(idx)) - 1 : Pick(r) = k}) = W(idx[k])
<1> DEFINE R == {r \in 0..Total(Len(idx)) - 1 : Pick(r) = k}
<1>0. PICK low : low = Total(k - 1)
  OBVIOUS
<1>1. PICK high : high = Total(k)
  OBVIOUS
<1>2. PICK all : all = Total(Len(idx))
  OBVIOUS
<1>3. /\ low \in Int /\ high \in Int /\ all \in Int /\ 0 <= low /\ high <= all
      /\ high = W(idx[k]) + low /\ W(idx[k]) \in Int /\ W(idx[k]) >= 1
  <2>1. Len(idx) \in 0..Len(idx) /\ k \in 0..Len(idx)
    BY DEF OrderTypeOK
  <2> QED BY <1>0, <1>1, <1>2, <2>1, PickedIn
<1>4. \A r \in 0..all - 1 : Pick(r) = k <=> low <= r /\ r < high
  BY <1>0, <1>1, <1>2, PickedIn
<1>5. R = low..high - 1
  <2>1. \A r \in low..high - 1 : r \in 0..all - 1 /\ low <= r /\ r < high
    BY <1>3
  <2>2. \A r \in 0..all - 1 : low <= r /\ r < high => r \in low..high - 1
    BY <1>3
  <2>3. \A r : r \in R <=> r \in 0..all - 1 /\ Pick(r) = k
    BY <1>2
  <2> HIDE DEF R
  <2>4. \A r : r \in R <=> r \in low..high - 1
    BY <1>4, <2>1, <2>2, <2>3
  <2> QED BY <2>4
<1>6. high - 1 \in Int /\ ~(low > high - 1) /\ high - 1 - low + 1 = W(idx[k])
  BY <1>3
<1>7. Cardinality(low..high - 1) = high - 1 - low + 1
  BY <1>3, <1>6, FS_Interval
<1> QED BY <1>5, <1>6, <1>7

-----------------------------------------------------------------------------
\* The inductive invariant: every channel is at one position, of those left or
\* of those drawn.
Apart(a, b) ==
    /\ \A i, j \in 1..Len(a) : a[i] = a[j] => i = j
    /\ \A i, j \in 1..Len(b) : b[i] = b[j] => i = j
    /\ \A i \in 1..Len(a), j \in 1..Len(b) : a[i] # b[j]

Covered(a, b) ==
    \A c \in 1..N : (\E i \in 1..Len(a) : a[i] = c) \/ (\E j \in 1..Len(b) : b[j] = c)

OrderInv == OrderTypeOK /\ Apart(idx, out) /\ Covered(idx, out)

LEMMA InitOrder == OrderInit => OrderInv
<1> SUFFICES ASSUME OrderInit PROVE OrderInv
  OBVIOUS
<1>1. idx = [i \in 1..N |-> i] /\ out = << >> /\ weights \in [1..N -> Weights] /\ N \in Nat
  BY WeightedOrderAssumption DEF OrderInit
<1>2. idx \in Seq(1..N) /\ Len(idx) = N /\ \A i \in 1..N : idx[i] = i
  BY <1>1
<1>3. out \in Seq(1..N) /\ Len(out) = 0
  BY <1>1
<1> QED BY <1>1, <1>2, <1>3 DEF OrderInv, OrderTypeOK, Apart, Covered

LEMMA StepOrder == OrderInv /\ [Draw]_orderVars => OrderInv'
<1> SUFFICES ASSUME OrderInv, [Draw]_orderVars PROVE OrderInv'
  OBVIOUS
<1>1. CASE UNCHANGED orderVars
  BY <1>1 DEF orderVars, OrderInv, OrderTypeOK, Apart, Covered
<1>2. CASE Draw
  <2>1. PICK r \in 0..Total(Len(idx)) - 1 : /\ out' = Append(out, idx[Pick(r)])
                                           /\ idx' = RemoveAt(idx, Pick(r))
    BY <1>2 DEF Draw
  <2>2. PICK p : p = Pick(r)
    OBVIOUS
  <2>3. p \in 1..Len(idx) /\ idx \in Seq(1..N) /\ out \in Seq(1..N) /\ idx[p] \in 1..N
    <3>1. p \in DOMAIN idx
      BY <2>1, <2>2, PickedIn DEF OrderInv
    <3>2. idx \in Seq(1..N) /\ out \in Seq(1..N)
      BY DEF OrderInv, OrderTypeOK
    <3>3. DOMAIN idx = 1..Len(idx) /\ \A i \in 1..Len(idx) : idx[i] \in 1..N
      BY <3>2, LenProperties
    <3> QED BY <3>1, <3>2, <3>3
  <2>4. PICK m \in Nat : m = Len(idx)
    BY <2>3
  <2>5. PICK n \in Nat : n = Len(out)
    BY <2>3
  <2>6. /\ idx' \in Seq(1..N) /\ Len(idx') = m - 1
        /\ \A i \in 1..m - 1 : idx'[i] = IF i < p THEN idx[i] ELSE idx[i + 1]
    BY <2>1, <2>2, <2>3, <2>4, Removed
  <2>7. /\ out' \in Seq(1..N) /\ Len(out') = n + 1 /\ out'[n + 1] = idx[p]
        /\ \A j \in 1..n : out'[j] = out[j]
    BY <2>1, <2>2, <2>3, <2>5, AppendProperties
  <2>8. p \in 1..m /\ Apart(idx, out) /\ Covered(idx, out)
    BY <2>3, <2>4 DEF OrderInv
  <2>9. PICK at : at = [i \in 1..m - 1 |-> IF i < p THEN i ELSE i + 1]
    OBVIOUS
  <2>10. /\ \A i \in 1..m - 1 : at[i] \in 1..m /\ at[i] # p
         /\ \A i, j \in 1..m - 1 : at[i] = at[j] => i = j
         /\ \A k \in 1..m : k # p => \E i \in 1..m - 1 : at[i] = k
    <3>1. \A i \in 1..m - 1 : at[i] = IF i < p THEN i ELSE i + 1
      BY <2>9
    <3>2. \A i \in 1..m - 1 : at[i] \in 1..m /\ at[i] # p
      BY <2>8, <3>1
    <3>3. \A i, j \in 1..m - 1 : at[i] = at[j] => i = j
      BY <2>8, <3>1
    <3>4. ASSUME NEW k \in 1..m, k # p PROVE \E i \in 1..m - 1 : at[i] = k
      <4>1. CASE k < p
        <5>1. k \in 1..m - 1
          BY <2>8, <4>1
        <5> QED BY <3>1, <4>1, <5>1
      <4>2. CASE ~(k < p)
        <5>1. k - 1 \in 1..m - 1 /\ ~(k - 1 < p) /\ k - 1 + 1 = k
          BY <2>8, <3>4, <4>2
        <5> QED BY <3>1, <5>1
      <4> QED BY <4>1, <4>2
    <3> QED BY <3>2, <3>3, <3>4
  <2>11. \A i \in 1..m - 1 : idx'[i] = idx[at[i]]
    BY <2>6, <2>9
  <2>12. /\ \A i, j \in 1..m : idx[i] = idx[j] => i = j
         /\ \A i, j \in 1..n : out[i] = out[j] => i = j
         /\ \A i \in 1..m, j \in 1..n : idx[i] # out[j]
         /\ \A c \in 1..N : (\E i \in 1..m : idx[i] = c) \/ (\E j \in 1..n : out[j] = c)
    BY <2>4, <2>5, <2>8 DEF Apart, Covered
  <2>13. \A j : j \in 1..n + 1 <=> j \in 1..n \/ j = n + 1
    OBVIOUS
  <2>14. n + 1 \notin 1..n
    OBVIOUS
  <2>15. /\ \A i, j \in 1..m - 1 : idx'[i] = idx'[j] => i = j
         /\ \A i, j \in 1..n + 1 : out'[i] = out'[j] => i = j
         /\ \A i \in 1..m - 1, j \in 1..n + 1 : idx'[i] # out'[j]
    <3>1. \A i, j \in 1..m - 1 : idx'[i] = idx'[j] => i = j
      BY <2>10, <2>11, <2>12
    <3>2. \A i, j \in 1..n + 1 : out'[i] = out'[j] => i = j
      BY <2>7, <2>8, <2>12, <2>13
    <3>3. ASSUME NEW i \in 1..m - 1, NEW j \in 1..n + 1 PROVE idx'[i] # out'[j]
      <4>1. idx'[i] = idx[at[i]] /\ at[i] \in 1..m /\ at[i] # p
        BY <2>10, <2>11, <3>3
      <4>2. CASE j \in 1..n
        BY <2>7, <2>12, <4>1, <4>2
      <4>3. CASE j = n + 1
        BY <2>7, <2>8, <2>12, <4>1, <4>3
      <4> QED BY <2>13, <3>3, <4>2, <4>3
    <3> QED BY <3>1, <3>2, <3>3
  <2>16. ASSUME NEW c \in 1..N
         PROVE  (\E i \in 1..m - 1 : idx'[i] = c) \/ (\E j \in 1..n + 1 : out'[j] = c)
    <3>1. CASE \E j \in 1..n : out[j] = c
      BY <2>7, <2>13, <3>1
    <3>2. CASE \E k \in 1..m : idx[k] = c
      <4>1. PICK k \in 1..m : idx[k] = c
        BY <3>2
      <4>2. k = p => out'[n + 1] = c
        BY <2>7, <4>1
      <4>3. k # p => \E i \in 1..m - 1 : idx'[i] = c
        BY <2>10, <2>11, <4>1
      <4> QED BY <2>13, <4>2, <4>3
    <3> QED BY <2>12, <3>1, <3>2
  <2>17. OrderTypeOK'
    BY <1>2, <2>6, <2>7 DEF OrderTypeOK, Draw, OrderInv
  <2>18. Len(idx') = m - 1 /\ Len(out') = n + 1
    BY <2>6, <2>7
  <2> QED BY <2>15, <2>16, <2>17, <2>18 DEF OrderInv, Apart, Covered
<1> QED BY <1>1, <1>2

LEMMA OrderHolds == OrderInv => Proportional
<1> SUFFICES ASSUME OrderInv PROVE Proportional
  OBVIOUS
<1>1. PICK q : q = idx \o out
  OBVIOUS
<1>2. PICK m \in Nat : m = Len(idx)
  BY DEF OrderInv, OrderTypeOK
<1>3. PICK n \in Nat : n = Len(out)
  BY DEF OrderInv, OrderTypeOK
<1>4. /\ q \in Seq(1..N) /\ Len(q) = m + n
      /\ \A i \in 1..m + n : q[i] = IF i <= m THEN idx[i] ELSE out[i - m]
  BY <1>1, <1>2, <1>3, ConcatProperties DEF OrderInv, OrderTypeOK
<1>5. DOMAIN q = 1..m + n /\ \A i \in 1..m + n : q[i] \in 1..N
  <2>1. DOMAIN q = 1..Len(q) /\ \A i \in 1..Len(q) : q[i] \in 1..N
    BY <1>4, LenProperties
  <2> QED BY <1>4, <2>1
<1>6. /\ \A i, j \in 1..m : idx[i] = idx[j] => i = j
      /\ \A i, j \in 1..n : out[i] = out[j] => i = j
      /\ \A i \in 1..m, j \in 1..n : idx[i] # out[j]
      /\ \A c \in 1..N : (\E i \in 1..m : idx[i] = c) \/ (\E j \in 1..n : out[j] = c)
  BY <1>2, <1>3 DEF OrderInv, Apart, Covered
<1>7. ASSUME NEW i \in 1..m + n, NEW j \in 1..m + n, q[i] = q[j] PROVE i = j
  <2>1. \A k \in 1..m + n : (k \in 1..m /\ q[k] = idx[k]) \/ (k - m \in 1..n /\ q[k] = out[k - m])
    BY <1>4
  <2>2. CASE i \in 1..m /\ q[i] = idx[i]
    <3>0. j - m \in 1..n => idx[i] # out[j - m]
      BY <1>6, <2>2
    <3>1. j \in 1..m /\ q[j] = idx[j]
      BY <1>7, <2>1, <2>2, <3>0
    <3> QED BY <1>6, <1>7, <2>2, <3>1
  <2>3. CASE i - m \in 1..n /\ q[i] = out[i - m]
    <3>0. j \in 1..m => idx[j] # out[i - m]
      BY <1>6, <2>3
    <3>1. j - m \in 1..n /\ q[j] = out[j - m]
      BY <1>7, <2>1, <2>3, <3>0
    <3>2. i - m = j - m
      BY <1>6, <1>7, <2>3, <3>1
    <3> QED BY <1>7, <3>2
  <2> QED BY <2>1, <2>2, <2>3
<1>8. ASSUME NEW c \in 1..N PROVE \E i \in 1..m + n : q[i] = c
  <2>1. CASE \E i \in 1..m : idx[i] = c
    <3>1. \A i \in 1..m : i \in 1..m + n /\ i <= m
      OBVIOUS
    <3> QED BY <1>4, <2>1, <3>1
  <2>2. CASE \E j \in 1..n : out[j] = c
    <3>1. PICK j \in 1..n : out[j] = c
      BY <2>2
    <3>2. PICK k : k = m + j
      OBVIOUS
    <3>3. k \in 1..m + n /\ ~(k <= m) /\ k - m = j
      BY <3>2
    <3> QED BY <1>4, <3>1, <3>3
  <2> QED BY <1>6, <2>1, <2>2
<1>9. IsInjective(q) /\ ToSet(q) = 1..N
  <2>1. \A c : c \in ToSet(q) <=> \E i \in 1..m + n : q[i] = c
    BY <1>5 DEF ToSet
  <2>2. PICK all : all = 1..N
    OBVIOUS
  <2>3. \A c : c \in ToSet(q) <=> c \in all
    BY <1>5, <1>8, <2>1, <2>2
  <2>4. ToSet(q) = all
    BY <2>3
  <2> QED BY <1>5, <1>7, <2>2, <2>4 DEF IsInjective
<1>10. \A k \in DOMAIN idx : Cardinality({r \in 0..Total(Len(idx)) - 1 : Pick(r) = k}) = W(idx[k])
  BY Shares DEF OrderInv
<1> QED BY <1>1, <1>9, <1>10 DEF Proportional

\* For any number of channels and any weights, below zero or not, every channel
\* of a tier is selected by as many of the random numbers as its weight, and
\* weightedOrder neither loses a channel nor draws one twice.
THEOREM LoadFollowsWeights == OrderSpec => []Proportional
<1>1. OrderSpec => []OrderInv
  BY InitOrder, StepOrder, PTL DEF OrderSpec
<1> QED BY <1>1, OrderHolds, PTL
=============================================================================
