------------------------ MODULE FunctionMemory_proofs -----------------------
(***************************************************************************)
(* Lemmas about the memories of FunctionMemory: the bytes the functions of *)
(* a sequence take, what a load does to an LRU memory, the positions of a  *)
(* ring, and what a load costs.                                            *)
(***************************************************************************)
EXTENDS FunctionMemory, DISPPenalty, MemoryStateGraph_proofs

-----------------------------------------------------------------------------
(* A function takes at least one block of the memory.                      *)
LEMMA SizePositive ==
  ASSUME NEW f \in Function
  PROVE  getFunctionMemSize(f) \in Nat \ {0}
<1> DEFINE s == FunctionSize[f]
           q == s \div BlockSize
<1>1. s \in Nat \ {0} /\ BlockSize \in Nat \ {0}
  BY FunctionAssumption
<1>2. q \in Nat /\ s % BlockSize \in Nat /\ s = BlockSize * q + (s % BlockSize)
  BY <1>1
<1>3. q * BlockSize \in Nat /\ q * BlockSize = BlockSize * q
  <2> HIDE DEF q
  <2> QED BY <1>1, <1>2
<1>4. CASE s % BlockSize = 0
  <2>1. q * BlockSize = s
    <3> HIDE DEF q, s
    <3> QED BY <1>1, <1>2, <1>3, <1>4
  <2> QED BY <1>1, <1>4, <2>1 DEF getFunctionMemSize
<1>5. CASE s % BlockSize # 0
  <2>1. getFunctionMemSize(f) = q * BlockSize + BlockSize
    BY <1>5 DEF getFunctionMemSize
  <2> HIDE DEF q, s
  <2> QED BY <1>1, <1>3, <2>1
<1> QED BY <1>4, <1>5

(* The sizes of the first functions of a sequence, added up.               *)
LEMMA UsedFacts ==
  ASSUME NEW c \in Seq(Function)
  PROVE  /\ UsedSizes(c) \in [0..Len(c) -> Nat]
         /\ UsedSizes(c)[0] = 0
         /\ \A k \in 1..Len(c) :
              UsedSizes(c)[k] = UsedSizes(c)[k - 1] + getFunctionMemSize(c[k])
<1> DEFINE n == Len(c)
           step == [p \in (1..n) \X Nat |-> p[2] + getFunctionMemSize(c[p[1]])]
           Eq(f) == f = [i \in 0..n |->
                           IF i = 0 THEN 0 ELSE f[i - 1] + getFunctionMemSize(c[i])]
           g == CHOOSE g : Eq(g)
<1>1. n \in Nat /\ \A k \in 1..n : getFunctionMemSize(c[k]) \in Nat
  BY SizePositive
<1>2. step \in [(1..n) \X Nat -> Nat]
  BY <1>1
<1>3. PICK f \in [0..n -> Nat] : IsTrace(f, 0, 0, n, step)
  <2> HIDE DEF step, n
  <2> QED BY <1>1, <1>2, FoldExists
<1>4. \A k \in 1..n : f[k] = f[k - 1] + getFunctionMemSize(c[k])
  <2> TAKE k \in 1..n
  <2>1. k - 1 \in 0..n /\ <<k, f[k - 1]>> \in (1..n) \X Nat
    <3>1. k - 1 \in 0..n
      BY <1>1
    <3> HIDE DEF n
    <3> QED BY <3>1
  <2>2. f[k] = step[<<k, f[k - 1]>>]
    <3> HIDE DEF step, n
    <3> QED BY <1>3 DEF IsTrace
  <2> HIDE DEF n
  <2> QED BY <2>1, <2>2
<1>5. Eq(f)
  BY <1>3, <1>4 DEF IsTrace
<1>6. Eq(g)
  BY <1>5
<1>7. \A k \in 0..n : g[k] = f[k]
  <2> DEFINE Same == {k \in Nat : k \in 0..n => g[k] = f[k]}
  <2> HIDE DEF g
  <2>1. 0 \in Same
    BY <1>1, <1>3, <1>6 DEF IsTrace
  <2>2. ASSUME NEW k \in Same PROVE k + 1 \in Same
    <3> SUFFICES ASSUME k + 1 \in 0..n PROVE g[k + 1] = f[k + 1]
      OBVIOUS
    <3>1. g[k] = f[k] /\ k + 1 # 0 /\ (k + 1) - 1 = k /\ k + 1 \in 1..n
      BY <1>1
    <3>2. g[k + 1] = g[k] + getFunctionMemSize(c[k + 1])
      BY <1>6, <3>1
    <3> QED BY <3>1, <3>2, <1>4
  <2>3. Same \in SUBSET Nat
    OBVIOUS
  <2>4. Same = Nat
    <3> HIDE DEF Same
    <3> QED BY <2>1, <2>2, <2>3, SetInduction
  <2> QED BY <2>4, <1>1
<1>8. UsedSizes(c) = g
  BY DEF UsedSizes
<1>9. g = f
  <2> HIDE DEF g
  <2>1. g = [i \in 0..n |-> g[i]]
    BY <1>6
  <2> QED BY <1>7, <2>1
<1>10. f[0] = 0
  BY <1>3 DEF IsTrace
<1> HIDE DEF g
<1> QED BY <1>4, <1>8, <1>9, <1>10

(* The first functions of a sequence take no more than all of them.        *)
LEMMA UsedGrows ==
  ASSUME NEW c \in Seq(Function), NEW i \in 0..Len(c), NEW j \in 0..Len(c), i <= j
  PROVE  /\ UsedSizes(c)[i] <= UsedSizes(c)[j]
         /\ i < j => UsedSizes(c)[i] + getFunctionMemSize(c[i + 1]) <= UsedSizes(c)[j]
<1> DEFINE U == UsedSizes(c)
<1>1. /\ U \in [0..Len(c) -> Nat]
      /\ \A k \in 1..Len(c) : U[k] = U[k - 1] + getFunctionMemSize(c[k])
      /\ \A k \in 1..Len(c) : getFunctionMemSize(c[k]) \in Nat
      /\ Len(c) \in Nat /\ i \in Nat /\ j \in Nat
  BY UsedFacts, SizePositive
<1> HIDE DEF U
<1>2. \A a \in 0..Len(c) : \A d \in Nat : a + d <= Len(c) => U[a] <= U[a + d]
  <2> TAKE a \in 0..Len(c)
  <2> DEFINE Grown == {d \in Nat : a + d <= Len(c) => U[a] <= U[a + d]}
  <2>1. 0 \in Grown
    BY <1>1
  <2>2. ASSUME NEW d \in Grown PROVE d + 1 \in Grown
    <3> SUFFICES ASSUME a + (d + 1) <= Len(c) PROVE U[a] <= U[a + (d + 1)]
      OBVIOUS
    <3>1. /\ a + d <= Len(c) /\ a + (d + 1) \in 1..Len(c) /\ (a + (d + 1)) - 1 = a + d
          /\ a + d \in 0..Len(c)
      BY <1>1
    <3>2. U[a + (d + 1)] = U[a + d] + getFunctionMemSize(c[a + (d + 1)])
      BY <1>1, <3>1
    <3>3. U[a] <= U[a + d] /\ U[a] \in Nat /\ U[a + d] \in Nat
      BY <1>1, <3>1
    <3> QED BY <1>1, <3>1, <3>2, <3>3
  <2>3. Grown \in SUBSET Nat
    OBVIOUS
  <2>4. Grown = Nat
    <3> HIDE DEF Grown
    <3> QED BY <2>1, <2>2, <2>3, SetInduction
  <2> QED BY <2>4
<1>3. U[i] <= U[j]
  <2> DEFINE d == j - i
  <2>1. d \in Nat /\ i + d = j
    BY <1>1
  <2> HIDE DEF d
  <2>2. i + d <= Len(c) => U[i] <= U[i + d]
    BY <1>2, <2>1
  <2>3. U[i + d] = U[j] /\ i + d <= Len(c)
    BY <1>1, <2>1
  <2> QED BY <2>2, <2>3
<1>4. ASSUME i < j PROVE U[i] + getFunctionMemSize(c[i + 1]) <= U[j]
  <2> DEFINE d == j - (i + 1)
  <2>1. /\ d \in Nat /\ (i + 1) + d = j
        /\ i + 1 \in 1..Len(c) /\ (i + 1) - 1 = i /\ i + 1 \in 0..Len(c)
    BY <1>1, <1>4
  <2>2. U[i + 1] <= U[j]
    <3> HIDE DEF d
    <3>1. i + 1 + d <= Len(c) => U[i + 1] <= U[i + 1 + d]
      BY <1>2, <2>1
    <3> QED BY <1>1, <2>1, <3>1
  <2>3. U[i + 1] = U[i] + getFunctionMemSize(c[i + 1])
    BY <1>1, <2>1
  <2> QED BY <2>2, <2>3
<1> QED BY <1>3, <1>4 DEF U

(* The n functions behind place b of d are those behind place a of c, and  *)
(* the ones before take x bytes more.                                      *)
Alike(d, b, c, a, n, x) ==
  /\ b + n <= Len(d)
  /\ a + n <= Len(c)
  /\ \A j \in 1..n : d[b + j] = c[a + j]
  /\ UsedSizes(d)[b] = UsedSizes(c)[a] + x

Shifted(d, b, c, a, n, x) ==
  \A j \in 0..n : UsedSizes(d)[b + j] = UsedSizes(c)[a + j] + x

(* Where two sequences hold the same functions, the sizes grow alike.      *)
LEMMA UsedShift ==
  ASSUME NEW c \in Seq(Function), NEW d \in Seq(Function),
         NEW a \in Nat, NEW b \in Nat, NEW n \in Nat, NEW x \in Int,
         Alike(d, b, c, a, n, x)
  PROVE  Shifted(d, b, c, a, n, x)
<1> DEFINE U == UsedSizes(c)
           V == UsedSizes(d)
           Good == {j \in Nat : j <= n => V[b + j] = U[a + j] + x}
<1>1. /\ U \in [0..Len(c) -> Nat] /\ V \in [0..Len(d) -> Nat]
      /\ \A k \in 1..Len(c) : U[k] = U[k - 1] + getFunctionMemSize(c[k])
      /\ \A k \in 1..Len(d) : V[k] = V[k - 1] + getFunctionMemSize(d[k])
      /\ \A k \in 1..Len(c) : getFunctionMemSize(c[k]) \in Nat
      /\ Len(c) \in Nat /\ Len(d) \in Nat
  BY UsedFacts, SizePositive
<1>2. /\ V[b] = U[a] + x
      /\ a + n <= Len(c) /\ b + n <= Len(d)
      /\ \A j \in 1..n : d[b + j] = c[a + j]
  BY DEF Alike
<1> HIDE DEF U, V
<1>3. 0 \in Good
  BY <1>2
<1>4. ASSUME NEW j \in Good PROVE j + 1 \in Good
  <2> SUFFICES ASSUME j + 1 <= n PROVE V[b + (j + 1)] = U[a + (j + 1)] + x
    OBVIOUS
  <2>1. /\ j <= n /\ j + 1 \in 1..n
        /\ a + (j + 1) \in 1..Len(c) /\ (a + (j + 1)) - 1 = a + j /\ a + j \in 0..Len(c)
        /\ b + (j + 1) \in 1..Len(d) /\ (b + (j + 1)) - 1 = b + j /\ b + j \in 0..Len(d)
    BY <1>1, <1>2
  <2>2. V[b + j] = U[a + j] + x
    BY <2>1
  <2>3. d[b + (j + 1)] = c[a + (j + 1)]
    BY <1>2, <2>1
  <2>4. /\ U[a + (j + 1)] = U[a + j] + getFunctionMemSize(c[a + (j + 1)])
        /\ V[b + (j + 1)] = V[b + j] + getFunctionMemSize(c[a + (j + 1)])
    BY <1>1, <2>1, <2>3
  <2>5. U[a + j] \in Nat /\ V[b + j] \in Nat /\ getFunctionMemSize(c[a + (j + 1)]) \in Nat
    BY <1>1, <2>1
  <2> QED BY <2>2, <2>4, <2>5
<1>5. Good = Nat
  <2>1. Good \in SUBSET Nat
    OBVIOUS
  <2> HIDE DEF Good
  <2> QED BY <1>3, <1>4, <2>1, SetInduction
<1> QED
  <2> SUFFICES ASSUME NEW j \in 0..n PROVE V[b + j] = U[a + j] + x
    BY DEF Shifted, U, V
  <2>1. j \in Nat /\ j <= n
    OBVIOUS
  <2>2. j \in Good
    <3> HIDE DEF Good
    <3> QED BY <1>5, <2>1
  <2> QED BY <2>1, <2>2

(* What does not fit is cut off, and no more.                              *)
LEMMA FittingFacts ==
  ASSUME NEW p, p.size \in Nat, NEW e \in Seq(Function)
  PROVE  \E n \in 0..Len(e) :
           /\ Fitting(p, e) = SubSeq(e, 1, n)
           /\ UsedSizes(e)[n] <= p.size
           /\ n = Len(e) \/ UsedSizes(e)[n + 1] > p.size
<1> DEFINE U == UsedSizes(e)
           Fits(n) == U[n] <= p.size /\ (n = Len(e) \/ U[n + 1] > p.size)
           S == {m \in Nat : m <= Len(e) /\ (m = Len(e) \/ U[m + 1] > p.size)}
<1>1. U \in [0..Len(e) -> Nat] /\ U[0] = 0 /\ Len(e) \in Nat
  BY UsedFacts
<1> HIDE DEF U
<1>2. PICK m \in S : \A k \in S : m <= k
  <2>1. S \in SUBSET Nat /\ Len(e) \in S
    BY <1>1
  <2> HIDE DEF S
  <2> QED BY <2>1, LeastNatural
<1>3. U[m] <= p.size
  <2>1. CASE m = 0
    BY <1>1, <2>1
  <2>2. CASE m # 0
    <3>1. m - 1 \in Nat /\ (m - 1) + 1 = m /\ m \in 0..Len(e) /\ ~(m <= m - 1)
      BY <1>1, <1>2, <2>2
    <3>2. m - 1 \notin S
      <4> HIDE DEF S
      <4> QED BY <1>2, <3>1
    <3>3. ~(U[(m - 1) + 1] > p.size)
      BY <1>1, <3>1, <3>2
    <3> QED BY <1>1, <3>1, <3>3
  <2> QED BY <2>1, <2>2
<1>4. m \in 0..Len(e) /\ Fits(m)
  BY <1>1, <1>2, <1>3
<1>5. (CHOOSE n \in 0..Len(e) : Fits(n)) \in 0..Len(e) /\ Fits(CHOOSE n \in 0..Len(e) : Fits(n))
  <2> HIDE DEF Fits
  <2> QED BY <1>4
<1>6. Fitting(p, e) = SubSeq(e, 1, CHOOSE n \in 0..Len(e) : Fits(n))
  BY DEF Fitting, U
<1> HIDE DEF Fits
<1>7. \E n \in 0..Len(e) : Fitting(p, e) = SubSeq(e, 1, n) /\ Fits(n)
  BY <1>5, <1>6
<1> QED BY <1>7 DEF Fits, U

(* Taking a function out of a sequence leaves the others in order.         *)
LEMMA RemoveFacts ==
  ASSUME NEW c \in Seq(Function), IsInjective(c), NEW f \in Function
  PROVE  \/ /\ \A i \in 1..Len(c) : c[i] # f
            /\ RemoveFirst(c, f) = c
         \/ \E k \in 1..Len(c) :
              /\ c[k] = f
              /\ \A i \in 1..Len(c) : c[i] = f => i = k
              /\ RemoveFirst(c, f) = SubSeq(c, 1, k - 1) \o SubSeq(c, k + 1, Len(c))
<1>1. CASE \A i \in 1..Len(c) : c[i] # f
  BY <1>1 DEF RemoveFirst
<1>2. CASE \E i \in 1..Len(c) : c[i] = f
  <2>1. PICK k \in 1..Len(c) : c[k] = f
    BY <1>2
  <2>2. \A i \in 1..Len(c) : c[i] = f => i = k
    BY <2>1 DEF IsInjective
  <2> DEFINE I == {i \in 1..Len(c) : c[i] = f}
  <2>3. I = {k}
    BY <2>1, <2>2
  <2>4. Min({k}) = k
    <3>1. \A x : (x \in {k} /\ \A y \in {k} : x <= y) <=> x = k
      BY <2>1
    <3> QED BY <3>1 DEF Min
  <2>5. RemoveFirst(c, f) = RemoveAt(c, IF I # {} THEN Min(I) ELSE 0)
    BY <1>2 DEF RemoveFirst, SelectInSeq
  <2>6. RemoveFirst(c, f) = RemoveAt(c, k)
    BY <2>3, <2>4, <2>5
  <2> QED BY <2>1, <2>2, <2>6 DEF RemoveAt
<1> QED BY <1>1, <1>2

(* What a function used puts in front of the others: they move back by one *)
(* place if they were used after it, and by none if it was not there.      *)
LEMMA MovedFront ==
  ASSUME NEW c \in Seq(Function), IsInjective(c), NEW f \in Function
  PROVE  LET e == <<f>> \o RemoveFirst(c, f)
         IN  /\ e \in Seq(Function)
             /\ e[1] = f
             /\ \E k \in 1..Len(c) + 1 :
                  /\ IF k = Len(c) + 1 THEN Len(e) = k ELSE c[k] = f /\ Len(e) = Len(c)
                  /\ \A i \in 1..Len(c) : i # k => c[i] # f
                  /\ \A i \in 1..Len(c) : i < k => e[i + 1] = c[i]
                  /\ \A i \in 1..Len(c) : i > k => e[i] = c[i]
<1> DEFINE r == RemoveFirst(c, f)
           e == <<f>> \o r
<1>1. Len(c) \in Nat
  OBVIOUS
<1>2. ASSUME r \in Seq(Function)
      PROVE  /\ e \in Seq(Function) /\ e[1] = f /\ Len(e) = Len(r) + 1
             /\ \A i \in 1..Len(r) : e[i + 1] = r[i]
  <2> HIDE DEF r
  <2> QED BY <1>2
<1>3. CASE (\A i \in 1..Len(c) : c[i] # f) /\ r = c
  <2> DEFINE k == Len(c) + 1
  <2>1. /\ e \in Seq(Function) /\ e[1] = f /\ Len(e) = Len(c) + 1
        /\ \A i \in 1..Len(c) : e[i + 1] = c[i]
    <3> HIDE DEF e
    <3> QED BY <1>2, <1>3
  <2>2. k \in 1..Len(c) + 1
    BY <1>1
  <2> HIDE DEF e
  <2>3. \A i \in 1..Len(c) : ~(i > k)
    BY <1>1
  <2> QED BY <1>3, <2>1, <2>2, <2>3
<1>4. ASSUME NEW k \in 1..Len(c), c[k] = f, \A i \in 1..Len(c) : c[i] = f => i = k,
             r = SubSeq(c, 1, k - 1) \o SubSeq(c, k + 1, Len(c))
      PROVE  /\ e \in Seq(Function) /\ e[1] = f /\ Len(e) = Len(c)
             /\ \A i \in 1..Len(c) : i < k => e[i + 1] = c[i]
             /\ \A i \in 1..Len(c) : i > k => e[i] = c[i]
  <2> DEFINE s == SubSeq(c, 1, k - 1)
             t == SubSeq(c, k + 1, Len(c))
  <2>1. /\ s \in Seq(Function) /\ Len(s) = k - 1
        /\ t \in Seq(Function) /\ Len(t) = Len(c) - k
        /\ \A i \in 1..k - 1 : s[i] = c[i]
        /\ \A i \in 1..Len(c) - k : t[i] = c[k + i]
    OBVIOUS
  <2>2. /\ r \in Seq(Function) /\ Len(r) = Len(c) - 1
        /\ \A i \in 1..k - 1 : r[i] = c[i]
        /\ \A i \in k + 1..Len(c) : r[i - 1] = c[i]
    <3>1. r = s \o t
      BY <1>4
    <3> HIDE DEF r, s, t
    <3>2. r \in Seq(Function) /\ Len(r) = Len(c) - 1
      <4>1. s \in Seq(Function) /\ t \in Seq(Function)
        BY <2>1
      <4>2. s \o t \in Seq(Function) /\ Len(s \o t) = Len(s) + Len(t)
        BY <4>1
      <4>3. Len(r) = (k - 1) + (Len(c) - k)
        BY <2>1, <3>1, <4>2
      <4> QED BY <1>1, <3>1, <4>2, <4>3
    <3>3. ASSUME NEW i \in 1..k - 1 PROVE r[i] = c[i]
      BY <2>1, <3>1
    <3>4. ASSUME NEW i \in k + 1..Len(c) PROVE r[i - 1] = c[i]
      <4>1. i - k \in 1..Len(c) - k /\ k + (i - k) = i /\ (i - 1) - (k - 1) = i - k
        OBVIOUS
      <4>2. t[i - k] = c[i]
        BY <2>1, <4>1
      <4>3. (s \o t)[i - 1] = t[(i - 1) - (k - 1)]
        <5>1. Len(s) = k - 1 /\ Len(t) = Len(c) - k /\ s \in Seq(Function) /\ t \in Seq(Function)
          BY <2>1
        <5>2. i - 1 \in Len(s) + 1..Len(s) + Len(t)
          BY <5>1
        <5> QED BY <5>1, <5>2
      <4>4. r[i - 1] = t[(i - 1) - (k - 1)]
        BY <3>1, <4>3
      <4> QED BY <4>1, <4>2, <4>4
    <3> QED BY <3>2, <3>3, <3>4
  <2>3. /\ e \in Seq(Function) /\ e[1] = f /\ Len(e) = Len(c)
        /\ \A i \in 1..Len(r) : e[i + 1] = r[i]
    <3> HIDE DEF r, e
    <3> QED BY <1>2, <2>2
  <2> HIDE DEF r, e
  <2>4. ASSUME NEW i \in 1..Len(c), i < k PROVE e[i + 1] = c[i]
    <3>1. i \in 1..Len(r) /\ i \in 1..k - 1
      BY <1>1, <2>2, <2>4
    <3>2. e[i + 1] = r[i] /\ r[i] = c[i]
      BY <2>2, <2>3, <3>1
    <3> QED BY <3>2
  <2>5. ASSUME NEW i \in 1..Len(c), i > k PROVE e[i] = c[i]
    <3>1. i - 1 \in 1..Len(r) /\ (i - 1) + 1 = i /\ i \in k + 1..Len(c)
      BY <2>2, <2>5
    <3>2. e[(i - 1) + 1] = r[i - 1]
      BY <2>3, <3>1
    <3> QED BY <2>2, <3>1, <3>2
  <2> QED BY <2>3, <2>4, <2>5
<1>5. CASE \E k \in 1..Len(c) :
              /\ c[k] = f
              /\ \A i \in 1..Len(c) : c[i] = f => i = k
              /\ r = SubSeq(c, 1, k - 1) \o SubSeq(c, k + 1, Len(c))
  <2>1. PICK k \in 1..Len(c) :
              /\ c[k] = f
              /\ \A i \in 1..Len(c) : c[i] = f => i = k
              /\ r = SubSeq(c, 1, k - 1) \o SubSeq(c, k + 1, Len(c))
    BY <1>5
  <2>2. k \in 1..Len(c) + 1 /\ k # Len(c) + 1
    BY <1>1
  <2> HIDE DEF e, r
  <2>3. /\ e \in Seq(Function) /\ e[1] = f /\ Len(e) = Len(c)
        /\ \A i \in 1..Len(c) : i < k => e[i + 1] = c[i]
        /\ \A i \in 1..Len(c) : i > k => e[i] = c[i]
    BY <1>4, <2>1
  <2>4. /\ e \in Seq(Function)
        /\ e[1] = f
        /\ \E l \in 1..Len(c) + 1 :
             /\ IF l = Len(c) + 1 THEN Len(e) = l ELSE c[l] = f /\ Len(e) = Len(c)
             /\ \A i \in 1..Len(c) : i # l => c[i] # f
             /\ \A i \in 1..Len(c) : i < l => e[i + 1] = c[i]
             /\ \A i \in 1..Len(c) : i > l => e[i] = c[i]
    BY <2>1, <2>2, <2>3
  <2> QED BY <2>4 DEF e, r
<1>6. \/ (\A i \in 1..Len(c) : c[i] # f) /\ r = c
      \/ \E k \in 1..Len(c) :
              /\ c[k] = f
              /\ \A i \in 1..Len(c) : c[i] = f => i = k
              /\ r = SubSeq(c, 1, k - 1) \o SubSeq(c, k + 1, Len(c))
  BY RemoveFacts
<1> HIDE DEF e, r
<1> QED BY <1>3, <1>5, <1>6

(* The age the i-th function of the memory gets when f is used: those used *)
(* after f keep theirs but for the place of f, the others keep their age.  *)
NewAge(c, f, i) ==
  IF \E k \in 1..i - 1 : c[k] = f THEN UsedSizes(c)[i - 1]
  ELSE UsedSizes(c)[i - 1] + getFunctionMemSize(f)

LEMMA FrontAges ==
  ASSUME NEW c \in Seq(Function), IsInjective(c), NEW f \in Function
  PROVE  LET e == <<f>> \o RemoveFirst(c, f)
         IN  /\ e \in Seq(Function) /\ e[1] = f /\ Len(e) >= 1
             /\ IsInjective(e)
             /\ \A i \in 1..Len(c) : c[i] # f =>
                  \E m \in 2..Len(e) : e[m] = c[i] /\ UsedSizes(e)[m - 1] = NewAge(c, f, i)
             /\ \A m \in 2..Len(e) : \E i \in 1..Len(c) :
                  c[i] # f /\ e[m] = c[i] /\ UsedSizes(e)[m - 1] = NewAge(c, f, i)
<1> DEFINE e == <<f>> \o RemoveFirst(c, f)
           n == Len(c)
           U == UsedSizes(c)
           V == UsedSizes(e)
<1>1. /\ e \in Seq(Function) /\ e[1] = f
      /\ \E k \in 1..n + 1 :
           /\ IF k = n + 1 THEN Len(e) = k ELSE c[k] = f /\ Len(e) = n
           /\ \A i \in 1..n : i # k => c[i] # f
           /\ \A i \in 1..n : i < k => e[i + 1] = c[i]
           /\ \A i \in 1..n : i > k => e[i] = c[i]
  BY MovedFront
<1> HIDE DEF e
<1>2. PICK k \in 1..n + 1 :
        /\ IF k = n + 1 THEN Len(e) = k ELSE c[k] = f /\ Len(e) = n
        /\ \A i \in 1..n : i # k => c[i] # f
        /\ \A i \in 1..n : i < k => e[i + 1] = c[i]
        /\ \A i \in 1..n : i > k => e[i] = c[i]
  BY <1>1
<1>3. /\ n \in Nat /\ Len(e) \in Nat /\ k \in Nat /\ 1 <= k /\ k <= Len(e)
      /\ \A i \in 1..n : i > k => k <= n /\ c[k] = f /\ Len(e) = n
      /\ Len(e) <= n + 1
  BY <1>1, <1>2
<1>4. /\ U \in [0..n -> Nat] /\ V \in [0..Len(e) -> Nat] /\ U[0] = 0 /\ V[0] = 0
      /\ \A i \in 1..n : U[i] = U[i - 1] + getFunctionMemSize(c[i])
      /\ \A i \in 1..Len(e) : V[i] = V[i - 1] + getFunctionMemSize(e[i])
      /\ getFunctionMemSize(f) \in Nat
  BY <1>1, UsedFacts, SizePositive
<1>5. V[1] = U[0] + getFunctionMemSize(f)
  BY <1>1, <1>3, <1>4
<1>6. \A j \in 0..k - 1 : V[1 + j] = U[0 + j] + getFunctionMemSize(f)
  <2> DEFINE l == k - 1
             x == getFunctionMemSize(f)
  <2>1. l \in Nat /\ 0 + l <= Len(c) /\ 1 + l <= Len(e) /\ x \in Int
    BY <1>2, <1>3, <1>4
  <2>2. ASSUME NEW j \in 1..l PROVE e[1 + j] = c[0 + j]
    <3>1. j \in 1..n /\ j < k /\ 1 + j = j + 1 /\ 0 + j = j
      BY <1>2, <1>3
    <3> QED BY <1>2, <3>1
  <2>3. Alike(e, 1, c, 0, l, x)
    BY <1>5, <2>1, <2>2 DEF Alike
  <2>4. e \in Seq(Function) /\ 0 \in Nat /\ 1 \in Nat
    BY <1>1
  <2> HIDE DEF l, x, U, V
  <2>5. Shifted(e, 1, c, 0, l, x)
    BY <2>1, <2>3, <2>4, UsedShift
  <2> QED BY <2>5 DEF Shifted, l, x, U, V
<1>7. ASSUME k <= n PROVE \A j \in 0..n - k : V[k + j] = U[k + j] + 0
  <2>1. c[k] = f /\ Len(e) = n /\ k \in 1..n
    BY <1>2, <1>3, <1>7
  <2>2. V[1 + (k - 1)] = U[0 + (k - 1)] + getFunctionMemSize(f) /\ 1 + (k - 1) = k /\ 0 + (k - 1) = k - 1
    BY <1>3, <1>6
  <2>3. V[k] = U[k] + 0
    <3>1. U[k] = U[k - 1] + getFunctionMemSize(f) /\ U[k] \in Nat
      BY <1>3, <1>4, <2>1
    <3> QED BY <2>2, <3>1
  <2> DEFINE l == n - k
  <2>4. l \in Nat /\ k + l <= Len(c) /\ k + l <= Len(e)
    BY <1>3, <1>7, <2>1
  <2>5. ASSUME NEW j \in 1..l PROVE e[k + j] = c[k + j]
    <3>1. k + j \in 1..n /\ k + j > k
      BY <1>3, <2>4
    <3> QED BY <1>2, <3>1
  <2>6. Alike(e, k, c, k, l, 0)
    BY <2>3, <2>4, <2>5 DEF Alike
  <2>7. e \in Seq(Function) /\ k \in Nat /\ 0 \in Int
    BY <1>1
  <2> HIDE DEF l, U, V
  <2>8. Shifted(e, k, c, k, l, 0)
    BY <2>4, <2>6, <2>7, UsedShift
  <2> QED BY <2>8 DEF Shifted, l, U, V
<1> HIDE DEF U, V
<1>8. ASSUME NEW i \in 1..n, i < k
      PROVE  /\ c[i] # f /\ i + 1 \in 2..Len(e) /\ e[i + 1] = c[i]
             /\ V[(i + 1) - 1] = NewAge(c, f, i)
  <2>1. c[i] # f /\ e[i + 1] = c[i] /\ i + 1 \in 2..Len(e)
    BY <1>2, <1>3, <1>8
  <2>2. V[1 + (i - 1)] = U[0 + (i - 1)] + getFunctionMemSize(f)
    BY <1>3, <1>6, <1>8
  <2>3. 1 + (i - 1) = (i + 1) - 1 /\ 0 + (i - 1) = i - 1
    OBVIOUS
  <2>4. ~\E j \in 1..i - 1 : c[j] = f
    BY <1>2, <1>3, <1>8
  <2> QED BY <2>1, <2>2, <2>3, <2>4 DEF NewAge, U
<1>9. ASSUME NEW i \in 1..n, i > k
      PROVE  c[i] # f /\ i \in 2..Len(e) /\ e[i] = c[i] /\ V[i - 1] = NewAge(c, f, i)
  <2>1. c[i] # f /\ e[i] = c[i] /\ i \in 2..Len(e) /\ k <= n /\ c[k] = f
    BY <1>2, <1>3, <1>9
  <2>2. V[k + (i - 1 - k)] = U[k + (i - 1 - k)] + 0
    BY <1>3, <1>7, <1>9, <2>1
  <2>3. k + (i - 1 - k) = i - 1 /\ i - 1 \in 0..n
    BY <1>3
  <2>4. \E j \in 1..i - 1 : c[j] = f
    BY <1>3, <1>9, <2>1
  <2>5. U[i - 1] \in Nat
    BY <1>4, <2>3
  <2> QED BY <2>1, <2>2, <2>3, <2>4, <2>5 DEF NewAge, U
<1>10. ASSUME NEW i \in 1..n, c[i] # f
       PROVE  \E m \in 2..Len(e) : e[m] = c[i] /\ V[m - 1] = NewAge(c, f, i)
  <2>1. CASE i < k
    BY <1>8, <2>1
  <2>2. CASE i > k
    BY <1>9, <2>2
  <2>3. i # k
    BY <1>2, <1>3, <1>10
  <2> QED BY <1>3, <2>1, <2>2, <2>3
<1> DEFINE src(m) == IF m <= k THEN m - 1 ELSE m
<1>11. ASSUME NEW m \in 2..Len(e)
       PROVE  /\ src(m) \in 1..n /\ c[src(m)] # f /\ e[m] = c[src(m)]
              /\ V[m - 1] = NewAge(c, f, src(m))
  <2>1. CASE m <= k
    <3>1. m - 1 \in 1..n /\ m - 1 < k /\ (m - 1) + 1 = m /\ src(m) = m - 1
      BY <1>2, <1>3, <2>1
    <3> HIDE DEF src
    <3>2. /\ c[m - 1] # f /\ e[(m - 1) + 1] = c[m - 1]
          /\ V[((m - 1) + 1) - 1] = NewAge(c, f, m - 1)
      BY <1>8, <3>1
    <3> QED BY <3>1, <3>2
  <2>2. CASE m > k
    <3>1. m \in 1..n /\ src(m) = m
      BY <1>2, <1>3, <2>2
    <3> QED BY <1>9, <2>2, <3>1
  <2> QED BY <1>3, <2>1, <2>2
<1>12. \A m \in 2..Len(e) : \E i \in 1..n :
         c[i] # f /\ e[m] = c[i] /\ V[m - 1] = NewAge(c, f, i)
  <2> TAKE m \in 2..Len(e)
  <2> HIDE DEF src
  <2> QED BY <1>11
<1>13. IsInjective(e)
  <2> SUFFICES ASSUME NEW a \in 1..Len(e), NEW b \in 1..Len(e), e[a] = e[b] PROVE a = b
    <3>1. DOMAIN e = 1..Len(e)
      BY <1>1
    <3> QED BY <3>1 DEF IsInjective
  <2>1. ASSUME NEW m \in 2..Len(e) PROVE e[m] # f
    <3> HIDE DEF src
    <3> QED BY <1>11
  <2>2. CASE a = 1 \/ b = 1
    BY <1>1, <1>3, <2>1, <2>2
  <2>3. CASE a # 1 /\ b # 1
    <3>1. a \in 2..Len(e) /\ b \in 2..Len(e)
      BY <1>3, <2>3
    <3>2. src(a) \in 1..n /\ src(b) \in 1..n /\ c[src(a)] = c[src(b)]
      <4> HIDE DEF src
      <4> QED BY <1>11, <3>1
    <3>3. src(a) = src(b)
      <4> HIDE DEF src
      <4> QED BY <3>2 DEF IsInjective
    <3>4. src(a) # k /\ src(b) # k
      <4>1. ASSUME NEW m \in 2..Len(e), src(m) = k PROVE FALSE
        BY <1>3, <1>2, <4>1, <1>11
      <4> HIDE DEF src
      <4> QED BY <3>1, <4>1
    <3> QED BY <1>3, <3>1, <3>3, <3>4
  <2> QED BY <2>2, <2>3
<1>14. Len(e) >= 1
  BY <1>3
<1> QED BY <1>1, <1>10, <1>12, <1>13, <1>14 DEF e, V

(* A load: f becomes the youngest, the others that still fit stay, with    *)
(* their new ages, and nothing else comes in.                              *)
LEMMA LoadLruAges ==
  ASSUME NEW p, p.size \in Nat, NEW c, IsContent(p, c),
         NEW f \in Function, getFunctionMemSize(f) <= p.size
  PROVE  LET d == LoadLru(p, c, f)
         IN  /\ IsContent(p, d)
             /\ Len(d) >= 1 /\ d[1] = f
             /\ \A i \in 1..Len(c) :
                  c[i] # f /\ NewAge(c, f, i) + getFunctionMemSize(c[i]) <= p.size =>
                    \E j \in 1..Len(d) : d[j] = c[i] /\ UsedSizes(d)[j - 1] = NewAge(c, f, i)
             /\ \A j \in 1..Len(d) : d[j] # f => \E i \in 1..Len(c) :
                  /\ c[i] # f /\ d[j] = c[i] /\ UsedSizes(d)[j - 1] = NewAge(c, f, i)
                  /\ NewAge(c, f, i) + getFunctionMemSize(c[i]) <= p.size
<1> DEFINE e == <<f>> \o RemoveFirst(c, f)
           d == LoadLru(p, c, f)
           V == UsedSizes(e)
           W == UsedSizes(d)
<1>1. c \in Seq(Function) /\ IsInjective(c)
  BY DEF IsContent
<1>2. /\ e \in Seq(Function) /\ e[1] = f /\ Len(e) >= 1
      /\ IsInjective(e)
  BY <1>1, FrontAges
<1>3. /\ \A i \in 1..Len(c) : c[i] # f =>
           \E m \in 2..Len(e) : e[m] = c[i] /\ V[m - 1] = NewAge(c, f, i)
      /\ \A m \in 2..Len(e) : \E i \in 1..Len(c) :
           c[i] # f /\ e[m] = c[i] /\ V[m - 1] = NewAge(c, f, i)
  BY <1>1, FrontAges
<1>4. d = Fitting(p, e)
  BY SizePositive DEF LoadLru
<1> HIDE DEF e, d
<1>6. PICK n \in 0..Len(e) :
        /\ d = SubSeq(e, 1, n) /\ V[n] <= p.size
        /\ n = Len(e) \/ V[n + 1] > p.size
  BY <1>2, <1>4, FittingFacts
<1>7. /\ d \in Seq(Function) /\ Len(d) = n /\ Len(e) \in Nat /\ n \in Nat
      /\ \A j \in 1..n : d[j] = e[j]
  BY <1>2, <1>6
<1>8. /\ V \in [0..Len(e) -> Nat] /\ V[0] = 0
      /\ \A m \in 1..Len(e) : V[m] = V[m - 1] + getFunctionMemSize(e[m])
      /\ W \in [0..Len(d) -> Nat] /\ W[0] = 0
  BY <1>2, <1>7, UsedFacts
<1>9. \A j \in 0..n : W[j] = V[j]
  <2>1. Alike(d, 0, e, 0, n, 0)
    <3>1. UsedSizes(d)[0] = UsedSizes(e)[0] + 0
      BY <1>8
    <3> QED BY <1>6, <1>7, <3>1 DEF Alike
  <2>2. 0 \in Nat /\ 0 \in Int /\ n \in Nat
    BY <1>7
  <2>3. Shifted(d, 0, e, 0, n, 0)
    BY <1>2, <1>7, <2>1, <2>2, UsedShift
  <2> TAKE j \in 0..n
  <2>4. UsedSizes(d)[0 + j] = UsedSizes(e)[0 + j] + 0
    BY <2>3 DEF Shifted
  <2>5. 0 + j = j /\ j \in 0..Len(e)
    BY <1>6, <1>7
  <2> QED BY <1>8, <2>4, <2>5
<1>10. \A a \in 0..Len(e), b \in 0..Len(e) : a <= b => V[a] <= V[b]
  BY <1>2, UsedGrows
<1> HIDE DEF V, W
<1>11. \A m \in 1..Len(e) : m <= n <=> V[m] <= p.size
  <2> TAKE m \in 1..Len(e)
  <2>1. V[m] \in Nat /\ V[n] \in Nat
    BY <1>8
  <2>2. CASE m <= n
    <3>1. V[m] <= V[n]
      BY <1>7, <1>10, <2>2
    <3> QED BY <1>6, <2>1, <2>2, <3>1
  <2>3. CASE ~(m <= n)
    <3>1. n # Len(e) /\ n + 1 \in 0..Len(e) /\ n + 1 <= m /\ m \in 0..Len(e)
      BY <1>7, <2>3
    <3>2. V[n + 1] <= V[m] /\ V[n + 1] \in Nat
      BY <1>8, <1>10, <3>1
    <3> QED BY <1>6, <2>1, <2>3, <3>1, <3>2
  <2> QED BY <2>2, <2>3
<1>12. 1 <= n /\ d[1] = f
  <2>1. V[1] = 0 + getFunctionMemSize(f)
    BY <1>2, <1>7, <1>8
  <2>2. V[1] <= p.size
    BY <2>1, SizePositive
  <2> QED BY <1>2, <1>7, <1>11, <2>2
<1>13. IsContent(p, d)
  <2>1. IsInjective(d)
    <3>1. DOMAIN d = 1..n /\ DOMAIN e = 1..Len(e) /\ 1..n \subseteq 1..Len(e)
      BY <1>2, <1>6, <1>7
    <3> QED BY <1>2, <1>7, <3>1 DEF IsInjective
  <2>2. UsedSize(d) = V[n]
    BY <1>7, <1>9 DEF UsedSize, W
  <2> QED BY <1>6, <1>7, <2>1, <2>2 DEF IsContent
<1>14. ASSUME NEW i \in 1..Len(c), c[i] # f,
              NewAge(c, f, i) + getFunctionMemSize(c[i]) <= p.size
       PROVE  \E j \in 1..Len(d) : d[j] = c[i] /\ W[j - 1] = NewAge(c, f, i)
  <2>1. PICK m \in 2..Len(e) : e[m] = c[i] /\ V[m - 1] = NewAge(c, f, i)
    BY <1>3, <1>14
  <2>2. m \in 1..Len(e) /\ V[m] = V[m - 1] + getFunctionMemSize(e[m])
    BY <1>7, <1>8
  <2>3. m <= n
    BY <1>11, <1>14, <2>1, <2>2
  <2>4. m \in 1..Len(d) /\ d[m] = e[m] /\ W[m - 1] = V[m - 1]
    BY <1>7, <1>9, <2>3
  <2> QED BY <2>1, <2>4
<1>15. ASSUME NEW j \in 1..Len(d), d[j] # f
       PROVE  \E i \in 1..Len(c) :
                /\ c[i] # f /\ d[j] = c[i] /\ W[j - 1] = NewAge(c, f, i)
                /\ NewAge(c, f, i) + getFunctionMemSize(c[i]) <= p.size
  <2>1. j \in 2..Len(e) /\ d[j] = e[j] /\ j <= n /\ j - 1 \in 0..n /\ j \in 1..Len(e)
    BY <1>6, <1>7, <1>12, <1>15
  <2>2. PICK i \in 1..Len(c) : c[i] # f /\ e[j] = c[i] /\ V[j - 1] = NewAge(c, f, i)
    BY <1>3, <2>1
  <2>3. V[j] <= p.size /\ V[j] = V[j - 1] + getFunctionMemSize(e[j]) /\ W[j - 1] = V[j - 1]
    BY <1>8, <1>9, <1>11, <2>1
  <2> QED BY <2>1, <2>2, <2>3
<1> QED BY <1>7, <1>12, <1>13, <1>14, <1>15 DEF d, W

-----------------------------------------------------------------------------
(* A position is reduced to the ring by subtracting its size at most once. *)
LEMMA Modulo ==
  ASSUME NEW n \in Nat \ {0}, NEW x \in Nat, x < 2 * n
  PROVE  x % n = IF x < n THEN x ELSE x - n
<1> DEFINE q == x \div n
           r == x % n
<1>1. q \in Nat /\ r \in 0..n - 1 /\ x = n * q + r
  OBVIOUS
<1> HIDE DEF q, r
<1>2. CASE q = 0
  BY <1>1, <1>2 DEF r
<1>3. CASE q = 1
  BY <1>1, <1>3 DEF r
<1>4. CASE q >= 2
  <2>1. PICK d \in Nat : q = d + 2
    <3>1. q - 2 \in Nat /\ q = (q - 2) + 2
      BY <1>1, <1>4
    <3> QED BY <3>1
  <2>2. n * q = n * d + 2 * n
    BY <2>1
  <2>3. n * d \in Nat
    BY <2>1
  <2> QED BY <1>1, <2>2, <2>3
<1> QED BY <1>1, <1>2, <1>3, <1>4

(* How far it is from x to y on a ring of n positions.                     *)
Distance(n, x, y) == IF x <= y THEN y - x ELSE y - x + n

(* Two ranges of the ring, of s and t positions from b and c on, that have *)
(* no position in common.                                                  *)
Apart(n, b, s, c, t) == Distance(n, b, c) >= s /\ Distance(n, c, b) >= t

(* A step of s positions from b on.                                        *)
Onward(n, b, s) == IF b + s < n THEN b + s ELSE b + s - n

LEMMA OnwardIsModulo ==
  ASSUME NEW n \in Nat \ {0}, NEW b \in 0..n - 1, NEW s \in 0..n
  PROVE  (b + s) % n = Onward(n, b, s) /\ Onward(n, b, s) \in 0..n - 1
<1>1. b + s \in Nat /\ b + s < 2 * n
  OBVIOUS
<1> DEFINE x == b + s
<1>2. x % n = IF x < n THEN x ELSE x - n
  <2> HIDE DEF x
  <2> QED BY <1>1, Modulo DEF x
<1> QED BY <1>1, <1>2 DEF Onward

(* The bytes of two functions are disjoint iff their ranges are apart.     *)
LEMMA BytesApart ==
  ASSUME NEW n \in Nat \ {0}, NEW b \in 0..n - 1, NEW c \in 0..n - 1,
         NEW s \in 1..n - 1, NEW t \in 1..n - 1
  PROVE  {(b + i) % n : i \in 0..s - 1} \cap {(c + i) % n : i \in 0..t - 1} = {}
           <=> Apart(n, b, s, c, t)
<1> DEFINE B == {(b + i) % n : i \in 0..s - 1}
           C == {(c + i) % n : i \in 0..t - 1}
<1>1. B = {Onward(n, b, i) : i \in 0..s - 1} /\ C = {Onward(n, c, i) : i \in 0..t - 1}
  <2>1. \A i \in 0..s - 1 : (b + i) % n = Onward(n, b, i)
    BY OnwardIsModulo
  <2>2. \A i \in 0..t - 1 : (c + i) % n = Onward(n, c, i)
    BY OnwardIsModulo
  <2> QED BY <2>1, <2>2
<1> HIDE DEF B, C
<1>2. ASSUME Distance(n, b, c) < s PROVE c \in B \cap C
  <2>1. /\ Distance(n, b, c) \in 0..s - 1 /\ Onward(n, b, Distance(n, b, c)) = c
        /\ 0 \in 0..t - 1 /\ Onward(n, c, 0) = c
    BY <1>2 DEF Distance, Onward
  <2> QED BY <1>1, <2>1
<1>3. ASSUME Distance(n, c, b) < t PROVE b \in B \cap C
  <2>1. /\ Distance(n, c, b) \in 0..t - 1 /\ Onward(n, c, Distance(n, c, b)) = b
        /\ 0 \in 0..s - 1 /\ Onward(n, b, 0) = b
    BY <1>3 DEF Distance, Onward
  <2> QED BY <1>1, <2>1
<1>4. ASSUME Apart(n, b, s, c, t), NEW x \in B \cap C PROVE FALSE
  <2>1. PICK i \in 0..s - 1 : x = Onward(n, b, i)
    BY <1>1, <1>4
  <2>2. PICK j \in 0..t - 1 : x = Onward(n, c, j)
    BY <1>1, <1>4
  <2> QED BY <1>4, <2>1, <2>2 DEF Apart, Distance, Onward
<1>5. Distance(n, b, c) \in Nat /\ Distance(n, c, b) \in Nat
  BY DEF Distance
<1>6. B \cap C = {} <=> Apart(n, b, s, c, t)
  BY <1>2, <1>3, <1>4, <1>5 DEF Apart
<1> QED BY <1>6 DEF B, C

-----------------------------------------------------------------------------
(* A hit of the D-ISP takes no longer than loading a function.             *)
HitsAreCheaper ==
  \A f \in Function :
    CtrlHitCycles <= (getFunctionMemSize(f) \div BlockSize) * (MissLatency + 1)
                       + CtrlMissCycles

LEMMA HitPenaltyIsSmaller ==
  ASSUME HitsAreCheaper, NEW f \in Function, NEW t
  PROVE  /\ getDispHitPenalty(t) \in Nat /\ getDispMissAndLoadPenalty(f, t) \in Nat
         /\ getDispHitPenalty(t) <= getDispMissAndLoadPenalty(f, t)
<1> DEFINE blocks == getFunctionMemSize(f) \div BlockSize
           cycles == blocks * (MissLatency + 1) + CtrlMissCycles
<1>1. blocks \in Nat
  <2>1. getFunctionMemSize(f) \in Nat /\ BlockSize \in Nat \ {0}
    BY SizePositive, FunctionAssumption
  <2> QED BY <2>1
<1>2. CtrlHitCycles <= cycles
  BY DEF HitsAreCheaper
<1> HIDE DEF blocks
<1>3. cycles \in Nat
  <2>1. MissLatency + 1 \in Nat /\ CtrlMissCycles \in Nat
    BY ArchAssumption
  <2>2. blocks * (MissLatency + 1) \in Nat
    BY <1>1, <2>1
  <2> QED BY <2>1, <2>2
<1>4. CtrlHitCycles \in Nat /\ Latency(t) \in Nat
  BY ArchAssumption DEF Latency
<1>5. getDispMissAndLoadPenalty(f, t) = IF FetchMemIndependent THEN Excess(cycles, Latency(t)) ELSE cycles
  BY DEF getDispMissAndLoadPenalty, blocks
<1> HIDE DEF cycles
<1> QED BY <1>2, <1>3, <1>4, <1>5 DEF getDispHitPenalty, Excess

=============================================================================
