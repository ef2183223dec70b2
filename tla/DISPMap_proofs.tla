--------------------------- MODULE DISPMap_proofs ---------------------------
(***************************************************************************)
(* Proofs about DISPMapExecution, the map based D-ISP analysis: which      *)
(* assertions can fail, that the ring of a stack memory never holds two    *)
(* functions at one place, and that on every path without an edge          *)
(* backwards one of the states of a node is that of the real memory.       *)
(***************************************************************************)
EXTENDS DISPMapExecution, FunctionMemory_proofs

-----------------------------------------------------------------------------
(***************************************************************************)
(* The ring of a stack memory.  Its size is one the 16 bit positions can   *)
(* hold, and no function in it is as large as the memory.                  *)
(***************************************************************************)

IsRingSize(p) == p.size \in Nat \ {0} /\ p.size <= PositionRange

Size(f) == getFunctionMemSize(f)

(* A function in the ring: its bounds are its size apart.                  *)
Placed(p, f, b) ==
  [address |-> f, pos_begin |-> b, pos_end |-> Onward(p.size, b, Size(f))]

RingEntries(p) ==
  {e \in [address : Function, pos_begin : 0..p.size - 1, pos_end : 0..p.size - 1] :
     Size(e.address) < p.size /\ e = Placed(p, e.address, e.pos_begin)}

EntriesApart(p, x, y) ==
  Apart(p.size, x.pos_begin, Size(x.address), y.pos_begin, Size(y.address))

(* No two functions of a ring are at one place, none is in it twice.       *)
AllApart(p, S) ==
  \A x, y \in S : IF x.address = y.address THEN x = y ELSE EntriesApart(p, x, y)

Entries(content) == {content[i] : i \in 1..Len(content)}

IsRing(p, content) ==
  /\ content \in Seq(RingEntries(p))
  /\ AllApart(p, Entries(content))

LEMMA EntryFacts ==
  ASSUME NEW p, IsRingSize(p), NEW e \in RingEntries(p)
  PROVE  /\ e.address \in Function /\ Size(e.address) \in 1..p.size - 1
         /\ e.pos_begin \in 0..p.size - 1 /\ e.pos_end \in 0..p.size - 1
         /\ e.pos_end = Onward(p.size, e.pos_begin, Size(e.address))
         /\ p.size \in Nat \ {0}
         /\ ToPosition(e) = [pos_begin |-> e.pos_begin, pos_end |-> e.pos_end]
<1>1. /\ e \in [address : Function, pos_begin : 0..p.size - 1, pos_end : 0..p.size - 1]
      /\ Size(e.address) < p.size /\ e = Placed(p, e.address, e.pos_begin)
      /\ p.size \in Nat \ {0} /\ p.size <= PositionRange
  BY DEF RingEntries, IsRingSize
<1>2. e.pos_end = Onward(p.size, e.pos_begin, Size(e.address))
  BY <1>1 DEF Placed
<1>3. e.address \in Function /\ Size(e.address) \in Nat \ {0}
  BY <1>1, SizePositive DEF Size
<1>4. PositionRange \in Nat \ {0}
  BY DEF PositionRange
<1>5. ASSUME NEW x \in 0..p.size - 1 PROVE x % PositionRange = x
  <2>1. x \in Nat /\ x < 2 * PositionRange /\ x < PositionRange
    BY <1>1, <1>4, <1>5
  <2> QED BY <1>4, <2>1, Modulo
<1>6. e.pos_begin \in 0..p.size - 1 /\ e.pos_end \in 0..p.size - 1
  BY <1>1
<1>7. ToPosition(e) = [pos_begin |-> e.pos_begin, pos_end |-> e.pos_end]
  BY <1>5, <1>6 DEF ToPosition
<1>8. Size(e.address) \in 1..p.size - 1
  BY <1>1, <1>3
<1> QED BY <1>1, <1>2, <1>3, <1>6, <1>7, <1>8

(* checkFunctionIntersection recognises functions that share a byte.       *)
LEMMA Intersection ==
  ASSUME NEW p, IsRingSize(p), NEW x \in RingEntries(p), NEW y \in RingEntries(p)
  PROVE  checkFunctionIntersection(p, ToPosition(x), ToPosition(y)) <=> ~EntriesApart(p, x, y)
<1> DEFINE n == p.size
           b == x.pos_begin
           c == y.pos_begin
           s == Size(x.address)
           t == Size(y.address)
           xe == x.pos_end
           ye == y.pos_end
<1>1. /\ n \in Nat \ {0} /\ b \in 0..n - 1 /\ c \in 0..n - 1 /\ s \in 1..n - 1 /\ t \in 1..n - 1
      /\ xe = Onward(n, b, s) /\ ye = Onward(n, c, t)
      /\ ToPosition(x) = [pos_begin |-> b, pos_end |-> xe]
      /\ ToPosition(y) = [pos_begin |-> c, pos_end |-> ye]
  BY EntryFacts
<1> HIDE DEF b, c, s, t, xe, ye, n
<1>2. ToPosition(x).pos_begin = b /\ ToPosition(x).pos_end = xe
  BY <1>1
<1>3. ToPosition(y).pos_begin = c /\ ToPosition(y).pos_end = ye
  BY <1>1
<1>4. Wraps(ToPosition(x)) <=> b > xe
  BY <1>2 DEF Wraps
<1>5. Wraps(ToPosition(y)) <=> c > ye
  BY <1>3 DEF Wraps
<1>6. checkFunctionIntersection(p, ToPosition(x), ToPosition(y)) <=>
        \/ /\ b >= c
           /\ b < ye + (IF c > ye THEN n ELSE 0) \/ (b > xe /\ xe > c)
        \/ /\ c >= b
           /\ c < xe + (IF b > xe THEN n ELSE 0) \/ (c > ye /\ ye > b)
  BY <1>2, <1>3, <1>4, <1>5 DEF checkFunctionIntersection, n
<1>7. EntriesApart(p, x, y) <=> Apart(n, b, s, c, t)
  BY DEF EntriesApart, n, b, c, s, t
<1> QED BY <1>1, <1>6, <1>7 DEF Apart, Distance, Onward

(* The assertion of evictFunctionsInRange holds for a function y, if the   *)
(* function x that overwrites it does not begin or does not end inside y.  *)
LEMMA EnteredFromASide ==
  ASSUME NEW p, IsRingSize(p), NEW x \in RingEntries(p), NEW y \in RingEntries(p),
         ~EntriesApart(p, x, y),
         \/ Distance(p.size, x.pos_begin, y.pos_begin) + Size(y.address) <= p.size
         \/ Distance(p.size, y.pos_begin, x.pos_end) >= Size(y.address)
         \/ x.pos_end = y.pos_begin
  PROVE  LET common == getFunctionIntersection(ToPosition(x), ToPosition(y))
         IN  common.pos_begin = y.pos_begin \/ common.pos_end = y.pos_end
<1> DEFINE n == p.size
           b == x.pos_begin
           c == y.pos_begin
           s == Size(x.address)
           t == Size(y.address)
           xe == x.pos_end
           ye == y.pos_end
           common == getFunctionIntersection(ToPosition(x), ToPosition(y))
<1>1. /\ n \in Nat \ {0} /\ b \in 0..n - 1 /\ c \in 0..n - 1 /\ s \in 1..n - 1 /\ t \in 1..n - 1
      /\ xe = Onward(n, b, s) /\ ye = Onward(n, c, t)
      /\ ToPosition(x) = [pos_begin |-> b, pos_end |-> xe]
      /\ ToPosition(y) = [pos_begin |-> c, pos_end |-> ye]
  BY EntryFacts
<1>2. ~Apart(n, b, s, c, t) /\ (Distance(n, b, c) + t <= n \/ Distance(n, c, xe) >= t \/ xe = c)
  BY DEF EntriesApart
<1> HIDE DEF b, c, s, t, xe, ye, n
<1>3. ToPosition(x).pos_begin = b /\ ToPosition(x).pos_end = xe
  BY <1>1
<1>4. ToPosition(y).pos_begin = c /\ ToPosition(y).pos_end = ye
  BY <1>1
<1>5. CASE b > xe /\ ~(c > ye)
  <2>1. common = IF b > ye THEN [pos_begin |-> c, pos_end |-> Smaller(xe, ye)]
                 ELSE [pos_begin |-> Larger(b, c), pos_end |-> ye]
    BY <1>3, <1>4, <1>5 DEF getFunctionIntersection, WrapIntersection, Wraps
  <2> QED BY <2>1 DEF c, ye
<1>6. CASE c > ye /\ ~(b > xe)
  <2>1. common = IF c > xe THEN [pos_begin |-> b, pos_end |-> Smaller(ye, xe)]
                 ELSE [pos_begin |-> Larger(c, b), pos_end |-> xe]
    BY <1>3, <1>4, <1>6 DEF getFunctionIntersection, WrapIntersection, Wraps
  <2>2. common.pos_begin = IF c > xe THEN b ELSE Larger(c, b)
    BY <2>1
  <2>3. common.pos_end = IF c > xe THEN Smaller(ye, xe) ELSE xe
    BY <2>1
  <2> HIDE DEF common
  <2>4. common.pos_begin = c \/ common.pos_end = ye
    BY <1>1, <1>2, <1>6, <2>2, <2>3 DEF Apart, Distance, Onward, Smaller, Larger
  <2> QED BY <2>4 DEF common, c, ye
<1>7. CASE (c > ye) <=> (b > xe)
  <2>1. common = [pos_begin |-> Larger(b, c), pos_end |-> Smaller(xe, ye)]
    BY <1>3, <1>4, <1>7 DEF getFunctionIntersection, Wraps
  <2>2. common.pos_begin = Larger(b, c) /\ common.pos_end = Smaller(xe, ye)
    BY <2>1
  <2> HIDE DEF common
  <2>3. common.pos_begin = c \/ common.pos_end = ye
    BY <1>1, <1>2, <1>7, <2>2 DEF Apart, Distance, Onward, Smaller, Larger
  <2> QED BY <2>3 DEF common, c, ye
<1> QED BY <1>5, <1>6, <1>7

LEMMA PlacedIsEntry ==
  ASSUME NEW p, IsRingSize(p), NEW f \in Function, Size(f) < p.size, NEW b \in 0..p.size - 1
  PROVE  /\ Placed(p, f, b) \in RingEntries(p)
         /\ Placed(p, f, b).address = f /\ Placed(p, f, b).pos_begin = b
<1>1. Size(f) \in 0..p.size /\ p.size \in Nat \ {0}
  BY SizePositive DEF Size, IsRingSize
<1>2. Onward(p.size, b, Size(f)) \in 0..p.size - 1
  BY <1>1, OnwardIsModulo
<1> QED BY <1>2 DEF Placed, RingEntries

(* The entries of a content.                                               *)
LEMMA EntriesOf ==
  ASSUME NEW S, NEW content \in Seq(S)
  PROVE  /\ Entries(content) \subseteq S
         /\ content = << >> <=> Entries(content) = {}
         /\ \A f : StackIsInState(content, f) <=> \E e \in Entries(content) : e.address = f
         /\ \A f : StackIsInState(content, f) =>
              /\ PositionOf(content, f) \in 1..Len(content)
              /\ content[PositionOf(content, f)] \in Entries(content)
              /\ content[PositionOf(content, f)].address = f
<1>1. content = << >> <=> Entries(content) = {}
  <2>1. ASSUME content # << >> PROVE content[1] \in Entries(content)
    <3>1. 1 \in 1..Len(content)
      BY <2>1
    <3> QED BY <3>1 DEF Entries
  <2>2. ASSUME content = << >> PROVE Entries(content) = {}
    <3>1. Len(content) = 0
      BY <2>2
    <3> QED BY <3>1 DEF Entries
  <2> QED BY <2>1, <2>2
<1>2. ASSUME NEW f, StackIsInState(content, f)
      PROVE  /\ PositionOf(content, f) \in 1..Len(content)
             /\ content[PositionOf(content, f)] \in Entries(content)
             /\ content[PositionOf(content, f)].address = f
  <2>1. \E i \in 1..Len(content) : content[i].address = f
    BY <1>2 DEF StackIsInState
  <2> QED BY <2>1 DEF PositionOf, Entries
<1> QED BY <1>1, <1>2 DEF Entries, StackIsInState

LEMMA ConcatFacts ==
  ASSUME NEW S, NEW s \in Seq(S), NEW t \in Seq(S)
  PROVE  /\ s \o t \in Seq(S) /\ Len(s \o t) = Len(s) + Len(t)
         /\ \A i \in 1..Len(s) : (s \o t)[i] = s[i]
         /\ \A i \in 1..Len(t) : (s \o t)[Len(s) + i] = t[i]
<1>1. Len(s \o t) = Len(s) + Len(t) /\ s \o t \in Seq(S)
  OBVIOUS
<1>2. ASSUME NEW i \in 1..Len(s) PROVE (s \o t)[i] = s[i]
  OBVIOUS
<1>3. ASSUME NEW i \in 1..Len(t) PROVE (s \o t)[Len(s) + i] = t[i]
  <2>1. Len(s) + i \in 1..Len(s) + Len(t)
    OBVIOUS
  <2> QED BY <2>1
<1> QED BY <1>1, <1>2, <1>3

LEMMA InsertMembers ==
  ASSUME NEW S, NEW content \in Seq(S), NEW e \in S, NEW k \in 1..Len(content) + 1
  PROVE  /\ InsertAt(content, k, e) \in Seq(S)
         /\ Entries(InsertAt(content, k, e)) = Entries(content) \cup {e}
<1> DEFINE a == SubSeq(content, 1, k - 1)
           b == SubSeq(content, k, Len(content))
           n == Len(content)
           whole == (a \o <<e>>) \o b
<1>1. n \in Nat /\ k \in Nat /\ \A i \in 1..n : content[i] \in S
  OBVIOUS
<1>2. a = [i \in 1..k - 1 |-> content[i]] /\ a \in Seq(S) /\ Len(a) = k - 1
  <2>1. a = [i \in 1..k - 1 |-> content[i]]
    OBVIOUS
  <2>2. \A i \in 1..k - 1 : content[i] \in S
    OBVIOUS
  <2> QED BY <1>1, <2>1, <2>2
<1>3. b = [i \in 1..n - k + 1 |-> content[i + k - 1]] /\ b \in Seq(S) /\ Len(b) = n - k + 1
  <2>1. b = [i \in 1..n - k + 1 |-> content[i + k - 1]]
    OBVIOUS
  <2>2. \A i \in 1..n - k + 1 : content[i + k - 1] \in S
    OBVIOUS
  <2>3. n - k + 1 \in Nat
    BY <1>1
  <2> QED BY <2>1, <2>2, <2>3
<1>4. InsertAt(content, k, e) = whole
  BY DEF InsertAt
<1> HIDE DEF a, b, n
<1>5. a \o <<e>> \in Seq(S) /\ Len(a \o <<e>>) = k /\ (a \o <<e>>)[k] = e
      /\ \A i \in 1..k - 1 : (a \o <<e>>)[i] = content[i]
  BY <1>1, <1>2
<1>6. /\ whole \in Seq(S) /\ Len(whole) = n + 1
      /\ \A i \in 1..k - 1 : whole[i] = content[i]
      /\ whole[k] = e
      /\ \A i \in 1..n - k + 1 : whole[k + i] = content[i + k - 1]
  <2> DEFINE start == a \o <<e>>
  <2>1. start \in Seq(S) /\ Len(start) = k /\ whole = start \o b
    BY <1>5
  <2> HIDE DEF start, whole
  <2>2. /\ whole \in Seq(S) /\ Len(whole) = n + 1
        /\ \A i \in 1..k : whole[i] = start[i]
        /\ \A i \in 1..n - k + 1 : whole[k + i] = b[i]
    <3>1. b \in Seq(S) /\ Len(b) = n - k + 1 /\ start \in Seq(S) /\ Len(start) = k
      BY <1>3, <2>1
    <3>2. /\ whole \in Seq(S) /\ Len(whole) = Len(start) + Len(b)
          /\ \A i \in 1..Len(start) : whole[i] = start[i]
          /\ \A i \in 1..Len(b) : whole[Len(start) + i] = b[i]
      <4>1. /\ start \o b \in Seq(S) /\ Len(start \o b) = Len(start) + Len(b)
            /\ \A i \in 1..Len(start) : (start \o b)[i] = start[i]
            /\ \A i \in 1..Len(b) : (start \o b)[Len(start) + i] = b[i]
        <5>1. start \in Seq(S) /\ b \in Seq(S)
          BY <3>1
        <5> HIDE DEF start, b
        <5> QED BY <5>1, ConcatFacts
      <4>2. whole = start \o b
        BY <2>1
      <4> QED BY <4>1, <4>2
    <3> QED BY <1>1, <3>1, <3>2
  <2>3. \A i \in 1..n - k + 1 : b[i] = content[i + k - 1]
    BY <1>3
  <2>4. k \in 1..k /\ \A i \in 1..k - 1 : i \in 1..k
    BY <1>1
  <2> QED BY <1>5, <2>2, <2>3, <2>4 DEF start
<1> HIDE DEF whole
<1>7. k - 1 <= n
  BY DEF n
<1>8. ASSUME NEW i \in 1..n + 1 PROVE whole[i] = e \/ \E j \in 1..n : whole[i] = content[j]
  <2>1. CASE i < k
    BY <1>1, <1>6, <1>7, <2>1
  <2>2. CASE i = k
    BY <1>6, <2>2
  <2>3. CASE i > k
    <3>1. i - k \in 1..n - k + 1 /\ k + (i - k) = i /\ (i - k) + k - 1 \in 1..n
      BY <1>1, <2>3
    <3> QED BY <1>6, <3>1
  <2> QED BY <1>1, <2>1, <2>2, <2>3
<1>9. ASSUME NEW j \in 1..n PROVE \E i \in 1..n + 1 : whole[i] = content[j]
  <2>1. CASE j < k
    <3>1. j \in 1..k - 1 /\ j \in 1..n + 1
      BY <1>1, <2>1
    <3> QED BY <1>6, <3>1
  <2>2. CASE j >= k
    <3>1. /\ j - k + 1 \in 1..n - k + 1 /\ (j - k + 1) + k - 1 = j
          /\ k + (j - k + 1) = j + 1 /\ j + 1 \in 1..n + 1
      BY <1>1, <2>2
    <3>2. whole[k + (j - k + 1)] = content[(j - k + 1) + k - 1]
      BY <1>6, <3>1
    <3> QED BY <3>1, <3>2
  <2> QED BY <1>1, <2>1, <2>2
<1>10. k \in 1..n + 1
  BY DEF n
<1>11. {whole[i] : i \in 1..n + 1} = {content[j] : j \in 1..n} \cup {e}
  BY <1>6, <1>8, <1>9, <1>10
<1> QED BY <1>4, <1>6, <1>11 DEF Entries, n

(* evictFunctionsInRange keeps what is not overwritten, ...                 *)
IsEvictTrace(f, p, content, new) ==
  /\ f[0] = << >>
  /\ \A k \in 1..Len(content) :
       f[k] = IF Overwrites(p, new, content[k]) THEN f[k - 1]
              ELSE Append(f[k - 1], content[k])
  /\ Evict(p, content, new) = f[Len(content)]

LEMMA EvictTrace ==
  ASSUME NEW S, NEW content \in Seq(S), NEW p, NEW new
  PROVE  \E f \in [0..Len(content) -> Seq(S)] : IsEvictTrace(f, p, content, new)
<1> DEFINE n == Len(content)
           Op(k, s) == IF Overwrites(p, new, content[k]) THEN s ELSE Append(s, content[k])
           step == [q \in (1..n) \X Seq(S) |-> Op(q[1], q[2])]
           Eq(f) == f = [i \in 0..n |-> IF i = 0 THEN << >> ELSE Op(i, f[i - 1])]
           g == CHOOSE g : Eq(g)
<1>1. n \in Nat /\ << >> \in Seq(S)
  OBVIOUS
<1>2. step \in [(1..n) \X Seq(S) -> Seq(S)]
  <2>1. ASSUME NEW k \in 1..n, NEW s \in Seq(S) PROVE Op(k, s) \in Seq(S)
    <3>1. content[k] \in S
      OBVIOUS
    <3> QED BY <3>1
  <2> HIDE DEF Op
  <2> QED BY <2>1
<1>3. PICK f \in [0..n -> Seq(S)] : IsTrace(f, << >>, 0, n, step)
  <2> HIDE DEF step, n
  <2> QED BY <1>1, <1>2, FoldExists
<1>4. \A k \in 1..n : f[k] = Op(k, f[k - 1])
  <2> TAKE k \in 1..n
  <2>1. k - 1 \in 0..n /\ f[k - 1] \in Seq(S)
    BY <1>1
  <2>2. <<k, f[k - 1]>> \in (1..n) \X Seq(S)
    BY <2>1
  <2>3. f[k] = step[<<k, f[k - 1]>>]
    <3> HIDE DEF step, n
    <3> QED BY <1>3 DEF IsTrace
  <2> HIDE DEF n, Op
  <2> QED BY <2>2, <2>3
<1>5. Eq(f)
  <2>1. f[0] = << >>
    BY <1>3 DEF IsTrace
  <2>2. \A i \in 0..n : f[i] = IF i = 0 THEN << >> ELSE Op(i, f[i - 1])
    <3> TAKE i \in 0..n
    <3>1. i = 0 \/ i \in 1..n
      BY <1>1
    <3> HIDE DEF Op, n
    <3> QED BY <1>4, <2>1, <3>1
  <2> HIDE DEF Op, n
  <2> QED BY <2>2
<1>6. Eq(g)
  BY <1>5
<1>7. \A k \in 0..n : g[k] = f[k]
  <2> DEFINE Same == {k \in Nat : k \in 0..n => g[k] = f[k]}
  <2> HIDE DEF g
  <2>1. 0 \in Same
    BY <1>1, <1>3, <1>6 DEF IsTrace
  <2>2. ASSUME NEW k \in Same PROVE k + 1 \in Same
    <3> SUFFICES ASSUME k + 1 \in 0..n PROVE g[k + 1] = f[k + 1]
      OBVIOUS
    <3>1. g[k] = f[k] /\ k + 1 # 0 /\ (k + 1) - 1 = k /\ k + 1 \in 1..n
      BY <1>1
    <3>2. g[k + 1] = Op(k + 1, g[k])
      BY <1>6, <3>1
    <3> HIDE DEF Op
    <3> QED BY <3>1, <3>2, <1>4
  <2>3. Same \in SUBSET Nat
    OBVIOUS
  <2>4. Same = Nat
    <3> HIDE DEF Same
    <3> QED BY <2>1, <2>2, <2>3, SetInduction
  <2> QED BY <2>4, <1>1
<1>8. Evict(p, content, new) = g[n]
  BY DEF Evict
<1>9. f[0] = << >>
  BY <1>3 DEF IsTrace
<1> HIDE DEF g
<1>10. \A k \in 1..Len(content) :
         f[k] = IF Overwrites(p, new, content[k]) THEN f[k - 1]
                ELSE Append(f[k - 1], content[k])
  BY <1>4
<1>11. Evict(p, content, new) = f[Len(content)]
  BY <1>1, <1>7, <1>8
<1>12. f \in [0..Len(content) -> Seq(S)]
  OBVIOUS
<1> HIDE DEF n
<1> WITNESS f \in [0..Len(content) -> Seq(S)]
<1> QED BY <1>9, <1>10, <1>11 DEF IsEvictTrace

(* ... no more and no less.                                                *)
LEMMA EvictMembers ==
  ASSUME NEW S, NEW content \in Seq(S), NEW p, NEW new
  PROVE  /\ Evict(p, content, new) \in Seq(S)
         /\ Entries(Evict(p, content, new)) = {e \in Entries(content) : ~Overwrites(p, new, e)}
<1>0. PICK f \in [0..Len(content) -> Seq(S)] : IsEvictTrace(f, p, content, new)
  BY EvictTrace
<1>1. /\ f[0] = << >>
      /\ \A k \in 1..Len(content) :
           f[k] = IF Overwrites(p, new, content[k]) THEN f[k - 1]
                  ELSE Append(f[k - 1], content[k])
      /\ Evict(p, content, new) = f[Len(content)]
  BY <1>0 DEF IsEvictTrace
<1> DEFINE Before(k) == {content[i] : i \in {j \in 1..k : ~Overwrites(p, new, content[j])}}
           Good == {k \in Nat : k \in 0..Len(content) => Entries(f[k]) = Before(k)}
<1>2. Len(content) \in Nat
  OBVIOUS
<1>3. 0 \in Good
  <2>1. Entries(f[0]) = {} /\ Before(0) = {}
    BY <1>1, EntriesOf
  <2> QED BY <2>1
<1>4. ASSUME NEW k \in Good PROVE k + 1 \in Good
  <2>0. k \in Nat /\ k + 1 \in Nat
    OBVIOUS
  <2> SUFFICES ASSUME k + 1 \in 0..Len(content)
               PROVE  Entries(f[k + 1]) = Before(k + 1)
    BY <2>0, Zenon
  <2>1. /\ k \in 0..Len(content) /\ k + 1 \in 1..Len(content) /\ (k + 1) - 1 = k
        /\ f[k] \in Seq(S) /\ content[k + 1] \in S
    <3>1. k \in Nat
      OBVIOUS
    <3> HIDE DEF Good
    <3>2. k \in 0..Len(content) /\ k + 1 \in 1..Len(content) /\ (k + 1) - 1 = k
      BY <1>2, <3>1
    <3>3. content[k + 1] \in S
      BY <3>2
    <3>4. f[k] \in Seq(S)
      BY <3>2
    <3> QED BY <3>2, <3>3, <3>4
  <2>2. Entries(f[k]) = Before(k)
    BY <2>1
  <2>3. Before(k + 1) = IF Overwrites(p, new, content[k + 1]) THEN Before(k)
                        ELSE Before(k) \cup {content[k + 1]}
    <3>1. {j \in 1..k + 1 : ~Overwrites(p, new, content[j])} =
            IF Overwrites(p, new, content[k + 1])
            THEN {j \in 1..k : ~Overwrites(p, new, content[j])}
            ELSE {j \in 1..k : ~Overwrites(p, new, content[j])} \cup {k + 1}
      <4>1. 1..k + 1 = (1..k) \cup {k + 1}
        BY <2>1
      <4> QED BY <4>1
    <3> QED BY <3>1
  <2>4. CASE Overwrites(p, new, content[k + 1])
    BY <1>1, <2>1, <2>2, <2>3, <2>4
  <2>5. CASE ~Overwrites(p, new, content[k + 1])
    <3>1. f[k + 1] = Append(f[k], content[k + 1])
      BY <1>1, <2>1, <2>5
    <3>2. Entries(f[k + 1]) = Entries(f[k]) \cup {content[k + 1]}
      <4> DEFINE s == f[k]
                 e == content[k + 1]
                 t == Append(s, e)
      <4>1. s \in Seq(S) /\ e \in S /\ f[k + 1] = t
        BY <2>1, <3>1
      <4> HIDE DEF s, e
      <4>2. /\ Len(t) = Len(s) + 1 /\ t[Len(s) + 1] = e /\ Len(s) \in Nat
            /\ \A i \in 1..Len(s) : t[i] = s[i]
        BY <4>1
      <4>3. 1..Len(t) = (1..Len(s)) \cup {Len(s) + 1}
        BY <4>2
      <4> HIDE DEF t
      <4>4. \A i \in 1..Len(t) : t[i] \in Entries(s) \cup {e}
        BY <4>2, <4>3 DEF Entries
      <4>5. \A i \in 1..Len(s) : s[i] \in Entries(t)
        BY <4>2, <4>3 DEF Entries
      <4>6. e \in Entries(t)
        BY <4>2, <4>3 DEF Entries
      <4>7. Entries(t) = Entries(s) \cup {e}
        BY <4>4, <4>5, <4>6 DEF Entries
      <4> QED BY <4>1, <4>7 DEF s, e
    <3> HIDE DEF Before
    <3> QED BY <2>2, <2>3, <2>5, <3>2
  <2> QED BY <2>4, <2>5
<1>5. Good = Nat
  <2>1. Good \in SUBSET Nat
    OBVIOUS
  <2> HIDE DEF Good
  <2> QED BY <1>3, <1>4, <2>1, SetInduction
<1>6. Entries(f[Len(content)]) = Before(Len(content))
  <2>1. Len(content) \in Good /\ Len(content) \in 0..Len(content)
    <3> HIDE DEF Good
    <3> QED BY <1>2, <1>5
  <2> HIDE DEF Before
  <2> QED BY <2>1
<1>7. Before(Len(content)) = {e \in Entries(content) : ~Overwrites(p, new, e)}
  BY DEF Entries
<1> HIDE DEF Before
<1> QED BY <1>1, <1>2, <1>6, <1>7

-----------------------------------------------------------------------------
(* The place of an activated function: next to the one active before, so   *)
(* it enters no other function from within.                                *)
LEMMA NewEntryFacts ==
  ASSUME NEW p, IsRingSize(p), NEW content, IsRing(p, content),
         NEW f \in Function, Size(f) < p.size, NEW act \in {"CALL", "RETURN"}, NEW previous,
         ~NeighbourAsserts(content, act, previous)
  PROVE  LET new == NewEntry(p, content, f, act, previous)
         IN  /\ new \in RingEntries(p) /\ new.address = f
             /\ content = << >> => new.pos_begin = 0
             /\ content # << >> =>
                  \E q \in Entries(content) :
                    /\ q.address = previous
                    /\ new.pos_begin =
                         IF act = "CALL" THEN (q.pos_begin + Size(previous)) % p.size
                         ELSE (q.pos_begin + p.size - Size(f)) % p.size
             /\ \A y \in Entries(content) : ~EntriesApart(p, new, y) =>
                  LET common == getFunctionIntersection(ToPosition(new), ToPosition(y))
                  IN  common.pos_begin = y.pos_begin \/ common.pos_end = y.pos_end
<1> DEFINE new == NewEntry(p, content, f, act, previous)
           n == p.size
           s == Size(f)
           q == content[PositionOf(content, previous)]
<1>1. n \in Nat \ {0} /\ s \in 1..n - 1 /\ content \in Seq(RingEntries(p)) /\ n = p.size
  BY SizePositive DEF IsRingSize, Size, IsRing
<1>2. CASE content = << >>
  <2>1. new = [address |-> f, pos_begin |-> 0, pos_end |-> s]
    BY <1>2 DEF NewEntry, Size
  <2>2. Onward(n, 0, s) = s /\ 0 \in 0..n - 1
    BY <1>1 DEF Onward
  <2>3. new = Placed(p, f, 0)
    BY <2>1, <2>2 DEF Placed
  <2>4. new \in RingEntries(p) /\ new.address = f /\ new.pos_begin = 0
    BY <1>1, <2>2, <2>3, PlacedIsEntry
  <2>5. Entries(content) = {}
    BY <1>1, <1>2, EntriesOf
  <2> QED BY <1>2, <2>4, <2>5
<1>3. CASE content # << >>
  <2>1. q \in Entries(content) /\ q.address = previous /\ q \in RingEntries(p)
    <3>1. StackIsInState(content, previous)
      BY <1>3 DEF NeighbourAsserts
    <3> QED BY <1>1, <3>1, EntriesOf
  <2> HIDE DEF q
  <2> DEFINE c == q.pos_begin
             t == Size(previous)
  <2>2. /\ c \in 0..n - 1 /\ t \in 1..n - 1 /\ q.pos_end \in 0..n - 1
        /\ q.pos_end = Onward(n, c, t)
    BY <2>1, EntryFacts
  <2>3. /\ (c + t) % n = Onward(n, c, t)
        /\ (c + n - s) % n = Onward(n, c, n - s)
        /\ Onward(n, c, n - s) \in 0..n - 1
    <3>1. t \in 0..n /\ n - s \in 0..n /\ c + n - s = c + (n - s)
      BY <1>1, <2>2
    <3> HIDE DEF n, c, s, t
    <3> QED BY <1>1, <2>2, <3>1, OnwardIsModulo
  <2>4. CASE act = "CALL"
    <3>1. new = [address |-> f, pos_begin |-> q.pos_end, pos_end |-> (q.pos_end + s) % n]
      BY <1>3, <2>4 DEF NewEntry, Size, q
    <3>2. (q.pos_end + s) % n = Onward(n, q.pos_end, s)
      <4>1. s \in 0..n
        BY <1>1
      <4> HIDE DEF n, s
      <4> QED BY <1>1, <2>2, <4>1, OnwardIsModulo
    <3>3. new = Placed(p, f, q.pos_end)
      BY <3>1, <3>2 DEF Placed
    <3>4. new \in RingEntries(p) /\ new.address = f /\ new.pos_begin = q.pos_end
      BY <1>1, <2>2, <3>3, PlacedIsEntry
    <3> HIDE DEF new
    <3>5. ASSUME NEW y \in Entries(content), ~EntriesApart(p, new, y)
          PROVE  LET common == getFunctionIntersection(ToPosition(new), ToPosition(y))
                 IN  common.pos_begin = y.pos_begin \/ common.pos_end = y.pos_end
      <4>1. y \in RingEntries(p)
        BY <1>1, EntriesOf
      <4>2. y.pos_begin \in 0..n - 1 /\ Size(y.address) \in 1..n - 1
        BY <4>1, EntryFacts
      <4>3. y = q \/ Apart(n, c, t, y.pos_begin, Size(y.address))
        BY <2>1 DEF IsRing, AllApart, EntriesApart
      <4>4. Distance(n, new.pos_begin, y.pos_begin) + Size(y.address) <= n
        <5>1. CASE y = q
          <6> DEFINE z == q.pos_end
          <6>1. new.pos_begin = z /\ y.pos_begin = c /\ Size(y.address) = t
            BY <2>1, <3>4, <5>1
          <6> HIDE DEF n, c, t, s, z
          <6> QED BY <1>1, <2>2, <6>1 DEF Distance, Onward, z
        <5>2. CASE Apart(n, c, t, y.pos_begin, Size(y.address))
          <6> DEFINE z == q.pos_end
                     d == y.pos_begin
                     u == Size(y.address)
          <6>1. new.pos_begin = z /\ d \in 0..n - 1 /\ u \in 1..n - 1 /\ z = Onward(n, c, t)
                /\ Apart(n, c, t, d, u)
            BY <2>2, <3>4, <4>2, <5>2
          <6> HIDE DEF n, c, t, s, z, d, u
          <6>2. Distance(n, z, d) + u <= n
            <7>1. n \in Nat \ {0} /\ c \in 0..n - 1 /\ t \in 1..n - 1
              BY <1>1, <2>2
            <7> QED BY <6>1, <7>1 DEF Distance, Onward, Apart
          <6> QED BY <6>1, <6>2 DEF d, u
        <5> QED BY <4>3, <5>1, <5>2
      <4> QED BY <3>4, <3>5, <4>1, <4>4, EnteredFromASide
    <3> QED BY <1>3, <2>1, <2>2, <2>3, <2>4, <3>4, <3>5 DEF new
  <2>5. CASE act = "RETURN"
    <3> DEFINE b == (c + n - s) % n
    <3>1. new = [address |-> f, pos_begin |-> b, pos_end |-> c]
      BY <1>3, <2>5 DEF NewEntry, Size, q
    <3>2. b \in 0..n - 1 /\ Onward(n, b, s) = c
      <4>1. n \in Nat \ {0} /\ c \in 0..n - 1 /\ s \in 1..n - 1
        BY <1>1, <2>2
      <4>2. b = Onward(n, c, n - s)
        BY <2>3
      <4> HIDE DEF n, c, s, b
      <4> QED BY <4>1, <4>2 DEF Onward
    <3>3. new = Placed(p, f, b)
      BY <3>1, <3>2 DEF Placed
    <3>4. new \in RingEntries(p) /\ new.address = f /\ new.pos_begin = b
      BY <1>1, <3>2, <3>3, PlacedIsEntry
    <3>5. new.pos_end = c
      BY <3>1
    <3> HIDE DEF new, b
    <3>6. ASSUME NEW y \in Entries(content), ~EntriesApart(p, new, y)
          PROVE  LET common == getFunctionIntersection(ToPosition(new), ToPosition(y))
                 IN  common.pos_begin = y.pos_begin \/ common.pos_end = y.pos_end
      <4>1. y \in RingEntries(p)
        BY <1>1, EntriesOf
      <4>2. y = q \/ Apart(n, c, t, y.pos_begin, Size(y.address))
        BY <2>1 DEF IsRing, AllApart, EntriesApart
      <4>3. \/ Distance(n, y.pos_begin, new.pos_end) >= Size(y.address)
            \/ new.pos_end = y.pos_begin
        BY <3>5, <4>2 DEF Apart
      <4> QED BY <3>4, <3>6, <4>1, <4>3, EnteredFromASide
    <3> QED BY <1>3, <2>1, <2>2, <2>3, <2>5, <3>4, <3>6 DEF new, b
  <2> QED BY <2>4, <2>5
<1> QED BY <1>2, <1>3

(* A function that is activated evicts what it overlaps, and the ring      *)
(* holds no two functions at one place behind it.                          *)
LEMMA ActivateKeepsRing ==
  ASSUME NEW p, IsRingSize(p), NEW content, IsRing(p, content),
         NEW f \in Function, Size(f) < p.size, NEW act \in {"CALL", "RETURN"}, NEW previous,
         ~StackIsInState(content, f), ~NeighbourAsserts(content, act, previous)
  PROVE  LET new == NewEntry(p, content, f, act, previous)
         IN  /\ ~StackAsserts(p, content, f, act, previous)
             /\ IsRing(p, StackActivate(p, content, f, act, previous))
             /\ Entries(StackActivate(p, content, f, act, previous)) =
                  {new} \cup {e \in Entries(content) : EntriesApart(p, new, e)}
<1> DEFINE new == NewEntry(p, content, f, act, previous)
           inserted == Inserted(p, content, f, act, previous)
           after == StackActivate(p, content, f, act, previous)
           E == Entries(content)
<1>1. content \in Seq(RingEntries(p)) /\ AllApart(p, E) /\ E \subseteq RingEntries(p)
  BY EntriesOf DEF IsRing
<1>2. /\ new \in RingEntries(p) /\ new.address = f
      /\ \A y \in E : ~EntriesApart(p, new, y) =>
           LET common == getFunctionIntersection(ToPosition(new), ToPosition(y))
           IN  common.pos_begin = y.pos_begin \/ common.pos_end = y.pos_end
  BY NewEntryFacts
<1>3. \A e \in E : e.address # f
  BY <1>1, EntriesOf
<1>4. inserted \in Seq(RingEntries(p)) /\ Entries(inserted) = E \cup {new}
  <2> DEFINE k == IF content = << >> THEN 1
                  ELSE PositionOf(content, previous) + (IF act = "CALL" THEN 1 ELSE 0)
  <2>1. k \in 1..Len(content) + 1
    <3>1. Len(content) \in Nat
      BY <1>1
    <3>2. content # << >> => PositionOf(content, previous) \in 1..Len(content)
      BY <1>1, EntriesOf DEF NeighbourAsserts
    <3> QED BY <3>1, <3>2
  <2>2. inserted = InsertAt(content, k, new)
    BY DEF Inserted
  <2> HIDE DEF k, new, inserted
  <2> QED BY <1>1, <1>2, <2>1, <2>2, InsertMembers
<1>5. after = Evict(p, inserted, new)
  <2>1. ~(getFunctionMemSize(f) > p.size)
    BY SizePositive DEF Size, IsRingSize
  <2> QED BY <2>1 DEF StackActivate
<1>6. \A e \in E \cup {new} : Overwrites(p, new, e) <=> e.address # f /\ ~EntriesApart(p, new, e)
  <2> HIDE DEF new
  <2> QED BY <1>1, <1>2, Intersection DEF Overwrites
<1>7. ~StackAsserts(p, content, f, act, previous)
  <2> SUFFICES ASSUME NEW j \in 1..Len(inserted), Overwrites(p, new, inserted[j])
               PROVE  LET common == getFunctionIntersection(ToPosition(new), ToPosition(inserted[j]))
                      IN  \/ common.pos_begin = ToPosition(inserted[j]).pos_begin
                          \/ common.pos_end = ToPosition(inserted[j]).pos_end
    BY DEF StackAsserts, EvictAsserts
  <2> DEFINE e == inserted[j]
  <2>1. e \in E \cup {new}
    <3>1. e \in Entries(inserted)
      BY DEF Entries
    <3> QED BY <1>4, <3>1
  <2> HIDE DEF e, new
  <2>2. e \in E /\ ~EntriesApart(p, new, e)
    BY <1>2, <1>6, <2>1 DEF e
  <2>3. ToPosition(e).pos_begin = e.pos_begin /\ ToPosition(e).pos_end = e.pos_end
    <3>1. e \in RingEntries(p)
      BY <1>1, <2>2
    <3>2. ToPosition(e) = [pos_begin |-> e.pos_begin, pos_end |-> e.pos_end]
      BY <3>1, EntryFacts
    <3> QED BY <3>2
  <2> QED BY <1>2, <2>2, <2>3 DEF e
<1>8. /\ after \in Seq(RingEntries(p))
      /\ Entries(after) = {e \in E \cup {new} : ~Overwrites(p, new, e)}
  <2> HIDE DEF new, inserted, after
  <2> QED BY <1>4, <1>5, EvictMembers
<1> HIDE DEF new, after
<1>9. Entries(after) = {new} \cup {e \in E : EntriesApart(p, new, e)}
  BY <1>2, <1>3, <1>6, <1>8
<1>10. ASSUME NEW x \in Entries(after), NEW y \in Entries(after)
       PROVE  IF x.address = y.address THEN x = y ELSE EntriesApart(p, x, y)
  <2>1. CASE x \in E /\ y \in E
    BY <1>1, <2>1 DEF AllApart
  <2>2. CASE x = new /\ y \in E
    BY <1>2, <1>3, <1>9, <1>10, <2>2
  <2>3. CASE y = new /\ x \in E
    <3>1. x.address # f
      BY <1>3, <2>3
    <3>2. x # new
      BY <1>2, <3>1
    <3>3. x \in {new} \cup {e \in E : EntriesApart(p, new, e)}
      BY <1>9
    <3>4. EntriesApart(p, new, x)
      BY <3>2, <3>3
    <3>5. EntriesApart(p, x, new)
      BY <3>4 DEF EntriesApart, Apart
    <3> QED BY <1>2, <2>3, <3>1, <3>5
  <2>4. CASE x = new /\ y = new
    BY <2>4
  <2> QED BY <1>9, <2>1, <2>2, <2>3, <2>4
<1> QED BY <1>7, <1>8, <1>9, <1>10 DEF IsRing, AllApart, new, after

(* What is active is in the ring, and nothing fails, if the function       *)
(* active before is there.                                                 *)
LEMMA ActiveIsInRing ==
  ASSUME NEW p, IsRingSize(p), NEW content, IsRing(p, content),
         NEW f \in Function, Size(f) < p.size, NEW act \in {"CALL", "RETURN"}, NEW previous,
         StackIsInState(content, f) \/ ~NeighbourAsserts(content, act, previous)
  PROVE  /\ ~StackAsserts(p, content, f, act, previous)
         /\ IsRing(p, StackActivate(p, content, f, act, previous))
         /\ StackIsInState(StackActivate(p, content, f, act, previous), f)
         /\ StackActivate(p, content, f, act, previous) # << >>
<1> DEFINE after == StackActivate(p, content, f, act, previous)
           new == NewEntry(p, content, f, act, previous)
<1>1. content \in Seq(RingEntries(p))
  BY DEF IsRing
<1>2. CASE StackIsInState(content, f)
  <2>1. after = content /\ ~StackAsserts(p, content, f, act, previous)
    BY <1>2 DEF StackActivate, StackAsserts
  <2>2. content # << >>
    <3>1. Len(content) # 0
      BY <1>1, <1>2 DEF StackIsInState
    <3> QED BY <3>1
  <2> HIDE DEF after
  <2> QED BY <1>2, <2>1, <2>2 DEF after
<1>3. CASE ~StackIsInState(content, f)
  <2>1. /\ ~StackAsserts(p, content, f, act, previous)
        /\ IsRing(p, after)
        /\ Entries(after) = {new} \cup {e \in Entries(content) : EntriesApart(p, new, e)}
    BY <1>3, ActivateKeepsRing
  <2>2. new.address = f
    BY <1>3, NewEntryFacts
  <2> HIDE DEF new, after
  <2>3. new \in Entries(after) /\ after \in Seq(RingEntries(p))
    BY <2>1 DEF IsRing
  <2>4. StackIsInState(after, f) /\ after # << >>
    <3>1. \A g : StackIsInState(after, g) <=> \E e \in Entries(after) : e.address = g
      BY <2>3, EntriesOf
    <3>2. Entries(after) # {} /\ (after = << >> <=> Entries(after) = {})
      BY <2>3, EntriesOf
    <3> QED BY <2>2, <2>3, <3>1, <3>2
  <2> QED BY <2>1, <2>4 DEF after
<1> QED BY <1>2, <1>3

-----------------------------------------------------------------------------
(* An entry of a ring that is turned by d positions.                       *)
Turned(p, d, e) == Placed(p, e.address, (e.pos_begin + p.size - d) % p.size)

TurnedAsCoded(p, d, e) ==
  [e EXCEPT !.pos_begin = (@ + p.size - d) % p.size,
            !.pos_end = (@ + p.size - d) % p.size]

LEMMA TurnedFacts ==
  ASSUME NEW p, IsRingSize(p), NEW d \in 0..p.size - 1, NEW e \in RingEntries(p)
  PROVE  /\ Turned(p, d, e) \in RingEntries(p)
         /\ Turned(p, d, e).address = e.address
         /\ Turned(p, d, e).pos_begin = Onward(p.size, e.pos_begin, p.size - d)
         /\ TurnedAsCoded(p, d, e) = Turned(p, d, e)
         /\ d = 0 => Turned(p, d, e) = e
<1> DEFINE n == p.size
           b == e.pos_begin
           z == e.pos_end
           s == Size(e.address)
           tb == (b + n - d) % n
           tz == (z + n - d) % n
<1>1. /\ n \in Nat \ {0} /\ b \in 0..n - 1 /\ s \in 1..n - 1 /\ z \in 0..n - 1
      /\ z = Onward(n, b, s) /\ e.address \in Function /\ d \in 0..n - 1
  BY EntryFacts
<1>2. /\ tb = Onward(n, b, n - d) /\ tb \in 0..n - 1
      /\ tz = Onward(n, z, n - d) /\ tz \in 0..n - 1
  <2> HIDE DEF n, b, z, s
  <2>1. n - d \in 0..n /\ b + n - d = b + (n - d) /\ z + n - d = z + (n - d)
    BY <1>1
  <2> QED BY <1>1, <2>1, OnwardIsModulo
<1>3. tz = Onward(n, tb, s)
  <2> HIDE DEF n, b, z, s, tb, tz
  <2> QED BY <1>1, <1>2 DEF Onward
<1>4. Turned(p, d, e) = Placed(p, e.address, tb)
  BY DEF Turned
<1>5. /\ Turned(p, d, e) \in RingEntries(p)
      /\ Turned(p, d, e).address = e.address /\ Turned(p, d, e).pos_begin = tb
  BY <1>1, <1>2, <1>4, PlacedIsEntry
<1>6. e = [address |-> e.address, pos_begin |-> b, pos_end |-> z]
  BY DEF RingEntries
<1>7. [e EXCEPT !.pos_begin = tb, !.pos_end = tz] = Turned(p, d, e)
  <2>1. Turned(p, d, e) = [address |-> e.address, pos_begin |-> tb, pos_end |-> tz]
    BY <1>3, <1>4 DEF Placed
  <2> DEFINE a == e.address
  <2>2. e = [address |-> a, pos_begin |-> b, pos_end |-> z]
    BY <1>6
  <2> HIDE DEF tb, tz, a, b, z
  <2>3. [e EXCEPT !.pos_begin = tb, !.pos_end = tz] = [address |-> a, pos_begin |-> tb, pos_end |-> tz]
    <3>1. [e EXCEPT !.pos_begin = tb, !.pos_end = tz]
            = [[e EXCEPT !.pos_begin = tb] EXCEPT !.pos_end = tz]
      BY Zenon
    <3>2. [e EXCEPT !.pos_begin = tb] = [address |-> a, pos_begin |-> tb, pos_end |-> z]
      BY <2>2
    <3>3. \A r : r = [address |-> a, pos_begin |-> tb, pos_end |-> z] =>
                  [r EXCEPT !.pos_end = tz] = [address |-> a, pos_begin |-> tb, pos_end |-> tz]
      OBVIOUS
    <3> QED BY <3>1, <3>2, <3>3
  <2> QED BY <2>1, <2>3 DEF a
<1>8. d = 0 => Turned(p, d, e) = e
  <2> SUFFICES ASSUME d = 0 PROVE Turned(p, d, e) = e
    OBVIOUS
  <2>1. tb = b /\ tz = z
    <3> HIDE DEF tb, tz, n, b, z, s
    <3> QED BY <1>1, <1>2 DEF Onward
  <2> HIDE DEF tb, tz
  <2> QED BY <1>6, <1>7, <2>1
<1>9. TurnedAsCoded(p, d, e) = Turned(p, d, e)
  BY <1>7 DEF TurnedAsCoded
<1> QED BY <1>2, <1>5, <1>8, <1>9

(* Turning the ring moves no function closer to another.                   *)
LEMMA TurnedApart ==
  ASSUME NEW p, IsRingSize(p), NEW d \in 0..p.size - 1,
         NEW x \in RingEntries(p), NEW y \in RingEntries(p)
  PROVE  EntriesApart(p, Turned(p, d, x), Turned(p, d, y)) <=> EntriesApart(p, x, y)
<1> DEFINE n == p.size
           b == x.pos_begin
           c == y.pos_begin
           s == Size(x.address)
           t == Size(y.address)
           tb == Onward(n, b, n - d)
           tc == Onward(n, c, n - d)
<1>1. /\ n \in Nat \ {0} /\ b \in 0..n - 1 /\ c \in 0..n - 1 /\ s \in 1..n - 1 /\ t \in 1..n - 1
      /\ d \in 0..n - 1
  BY EntryFacts
<1>2. /\ Turned(p, d, x).pos_begin = tb /\ Turned(p, d, x).address = x.address
      /\ Turned(p, d, y).pos_begin = tc /\ Turned(p, d, y).address = y.address
  <2>1. ASSUME NEW e \in RingEntries(p)
        PROVE  /\ Turned(p, d, e).pos_begin = Onward(p.size, e.pos_begin, p.size - d)
               /\ Turned(p, d, e).address = e.address
    BY <2>1, TurnedFacts
  <2> QED BY <2>1
<1>3. Distance(n, tb, tc) = Distance(n, b, c) /\ Distance(n, tc, tb) = Distance(n, c, b)
  <2> HIDE DEF n, b, c, s, t
  <2> QED BY <1>1 DEF Distance, Onward
<1> QED BY <1>2, <1>3 DEF EntriesApart, Apart

(* normalize turns the ring.                                               *)
LEMMA NormalizeTurns ==
  ASSUME NEW p, IsRingSize(p), NEW content, IsRing(p, content), content # << >>
  PROVE  /\ content[1].pos_begin \in 0..p.size - 1
         /\ IsRing(p, normalize(p, content)) /\ normalize(p, content) # << >>
         /\ Entries(normalize(p, content)) =
              {Turned(p, content[1].pos_begin, e) : e \in Entries(content)}
         /\ \A f : StackIsInState(content, f) => StackIsInState(normalize(p, content), f)
<1> DEFINE d == content[1].pos_begin
           T == [i \in 1..Len(content) |-> Turned(p, d, content[i])]
<1>1. content \in Seq(RingEntries(p)) /\ Entries(content) \subseteq RingEntries(p)
  BY EntriesOf DEF IsRing
<1>2. \A i \in 1..Len(content) : content[i] \in RingEntries(p)
  BY <1>1
<1>3. d \in 0..p.size - 1 /\ Len(content) \in Nat \ {0}
  <2>1. 1 \in 1..Len(content)
    BY <1>1
  <2>2. content[1] \in RingEntries(p)
    BY <1>2, <2>1
  <2> QED BY <1>1, <2>1, <2>2, EntryFacts
<1> HIDE DEF d
<1>4. normalize(p, content) = T
  <2>1. CASE d = 0
    <3>1. normalize(p, content) = content
      BY <2>1 DEF normalize, d
    <3>2. \A i \in 1..Len(content) : Turned(p, d, content[i]) = content[i]
      <4>1. \A e \in RingEntries(p) : Turned(p, d, e) = e
        BY <1>3, <2>1, TurnedFacts
      <4> QED BY <1>2, <4>1
    <3>3. content = [i \in 1..Len(content) |-> content[i]]
      BY <1>1
    <3> QED BY <3>1, <3>2, <3>3
  <2>2. CASE d # 0
    <3>1. normalize(p, content) = [i \in 1..Len(content) |-> TurnedAsCoded(p, d, content[i])]
      BY <2>2 DEF normalize, d, TurnedAsCoded
    <3>2. \A i \in 1..Len(content) : TurnedAsCoded(p, d, content[i]) = Turned(p, d, content[i])
      <4>1. \A e \in RingEntries(p) : TurnedAsCoded(p, d, e) = Turned(p, d, e)
        BY <1>3, TurnedFacts
      <4> QED BY <1>2, <4>1
    <3> QED BY <3>1, <3>2
  <2> QED BY <2>1, <2>2
<1>5. \A i \in 1..Len(content) : Turned(p, d, content[i]) \in RingEntries(p)
  BY <1>2, <1>3, TurnedFacts
<1>6. T \in Seq(RingEntries(p)) /\ Len(T) = Len(content) /\ T # << >>
  BY <1>3, <1>5
<1>7. Entries(T) = {Turned(p, d, e) : e \in Entries(content)}
  <2>1. Entries(T) = {T[i] : i \in 1..Len(content)}
    <3> HIDE DEF T
    <3> QED BY <1>6 DEF Entries
  <2> QED BY <2>1 DEF Entries
<1>9. \A f : StackIsInState(content, f) => StackIsInState(T, f)
  <2> SUFFICES ASSUME NEW f, NEW i \in 1..Len(content), content[i].address = f
               PROVE  StackIsInState(T, f)
    BY DEF StackIsInState
  <2>1. T[i] = Turned(p, d, content[i]) /\ content[i] \in RingEntries(p) /\ i \in 1..Len(T)
    BY <1>2, <1>6
  <2> HIDE DEF T
  <2>2. Turned(p, d, content[i]).address = content[i].address
    BY <1>3, <2>1, TurnedFacts
  <2> QED BY <2>1, <2>2 DEF StackIsInState
<1> HIDE DEF T
<1>8. AllApart(p, Entries(T))
  <2> SUFFICES ASSUME NEW x \in Entries(T), NEW y \in Entries(T)
               PROVE  IF x.address = y.address THEN x = y ELSE EntriesApart(p, x, y)
    BY DEF AllApart
  <2>1. PICK u \in Entries(content) : x = Turned(p, d, u)
    BY <1>7
  <2>2. PICK v \in Entries(content) : y = Turned(p, d, v)
    BY <1>7
  <2>3. x.address = u.address /\ y.address = v.address /\ u \in RingEntries(p) /\ v \in RingEntries(p)
    BY <1>1, <1>3, <2>1, <2>2, TurnedFacts
  <2>4. IF u.address = v.address THEN u = v ELSE EntriesApart(p, u, v)
    BY DEF IsRing, AllApart
  <2> QED BY <1>3, <2>1, <2>2, <2>3, <2>4, TurnedApart
<1> QED BY <1>3, <1>4, <1>6, <1>7, <1>8, <1>9 DEF IsRing, d

-----------------------------------------------------------------------------
(***************************************************************************)
(* The real memory of a stack replacement: the same functions as in a      *)
(* content, all of them r bytes further.                                   *)
(***************************************************************************)

Holding(p, content, ring, r) ==
  /\ {e.address : e \in Entries(content)} = DOMAIN ring
  /\ \A e \in Entries(content) : ring[e.address] = (e.pos_begin + r) % p.size

(* The turn by r commutes with a step and keeps distances.                 *)
LEMMA OnwardCommutes ==
  ASSUME NEW n \in Nat \ {0}, NEW b \in 0..n - 1, NEW r \in 0..n - 1, NEW s \in 0..n
  PROVE  Onward(n, Onward(n, b, r), s) = Onward(n, Onward(n, b, s), r)
BY DEF Onward

LEMMA OnwardApart ==
  ASSUME NEW n \in Nat \ {0}, NEW b \in 0..n - 1, NEW c \in 0..n - 1, NEW r \in 0..n - 1,
         NEW s, NEW t
  PROVE  Apart(n, Onward(n, b, r), s, Onward(n, c, r), t) <=> Apart(n, b, s, c, t)
<1>1. Distance(n, Onward(n, b, r), Onward(n, c, r)) = Distance(n, b, c)
  BY DEF Distance, Onward
<1>2. Distance(n, Onward(n, c, r), Onward(n, b, r)) = Distance(n, c, b)
  BY DEF Distance, Onward
<1> QED BY <1>1, <1>2 DEF Apart

(* The memory loads a function next to the same one, and loses the same    *)
(* functions, as the content of the analysis.                              *)
LEMMA LoadIsActivation ==
  ASSUME NEW p, IsRingSize(p), NEW content, IsRing(p, content), content # << >>,
         NEW ring, NEW r \in 0..p.size - 1, Holding(p, content, ring, r),
         NEW u, u.func \in Function, u.act \in {"CALL", "RETURN"}, Size(u.func) < p.size,
         ~StackIsInState(content, u.func), ~NeighbourAsserts(content, u.act, u.previous)
  PROVE  Holding(p, StackActivate(p, content, u.func, u.act, u.previous),
                 LoadRing(p, ring, u), r)
<1> DEFINE f == u.func
           new == NewEntry(p, content, f, u.act, u.previous)
           after == StackActivate(p, content, f, u.act, u.previous)
           E == Entries(content)
           n == p.size
           begin == BeginOf(p, ring, u)
           intact == {g \in DOMAIN ring : Bytes(p, ring[g], g) \cap Bytes(p, begin, f) = {}}
           loaded == LoadRing(p, ring, u)
<1>1. /\ content \in Seq(RingEntries(p)) /\ E \subseteq RingEntries(p) /\ E # {}
      /\ AllApart(p, E) /\ n \in Nat \ {0} /\ r \in 0..n - 1
      /\ f \in Function /\ Size(f) \in 1..n - 1
  BY EntriesOf, SizePositive DEF IsRing, IsRingSize, Size
<1>2. DOMAIN ring = {e.address : e \in E}
  BY DEF Holding
<1>3. \A e \in E : /\ e.address \in Function /\ Size(e.address) \in 1..n - 1
                   /\ e.pos_begin \in 0..n - 1
                   /\ ring[e.address] = Onward(n, e.pos_begin, r)
                   /\ ring[e.address] \in 0..n - 1
  <2> TAKE e \in E
  <2>1. e \in RingEntries(p) /\ ring[e.address] = (e.pos_begin + r) % n
    BY <1>1 DEF Holding
  <2>2. e.address \in Function /\ Size(e.address) \in 1..n - 1 /\ e.pos_begin \in 0..n - 1
    BY <2>1, EntryFacts
  <2>3. r \in 0..n
    BY <1>1
  <2> HIDE DEF n
  <2> QED BY <1>1, <2>1, <2>2, <2>3, OnwardIsModulo
<1>4. f \notin DOMAIN ring /\ ring # << >>
  <2>1. \A e \in E : e.address # f
    BY <1>1, EntriesOf
  <2>2. DOMAIN << >> = {}
    OBVIOUS
  <2>3. DOMAIN ring # {} /\ f \notin DOMAIN ring
    <3> HIDE DEF E, f
    <3> QED BY <1>1, <1>2, <2>1
  <2> QED BY <2>2, <2>3
<1>5. /\ new \in RingEntries(p) /\ new.address = f /\ new.pos_begin \in 0..n - 1
      /\ Size(new.address) \in 1..n - 1
      /\ \E q \in E :
           /\ q.address = u.previous
           /\ new.pos_begin = IF u.act = "CALL" THEN (q.pos_begin + Size(u.previous)) % n
                              ELSE (q.pos_begin + n - Size(f)) % n
  <2>1. /\ new \in RingEntries(p) /\ new.address = f
        /\ \E q \in E :
             /\ q.address = u.previous
             /\ new.pos_begin = IF u.act = "CALL" THEN (q.pos_begin + Size(u.previous)) % n
                                ELSE (q.pos_begin + n - Size(f)) % n
    BY <1>1, NewEntryFacts
  <2> HIDE DEF new, E, n
  <2> QED BY <1>1, <2>1, EntryFacts DEF n
<1>6. begin = Onward(n, new.pos_begin, r) /\ begin \in 0..n - 1
  <2>1. PICK q \in E :
          /\ q.address = u.previous
          /\ new.pos_begin = IF u.act = "CALL" THEN (q.pos_begin + Size(u.previous)) % n
                             ELSE (q.pos_begin + n - Size(f)) % n
    BY <1>5
  <2> DEFINE c == q.pos_begin
             t == Size(u.previous)
             s == Size(f)
             rc == ring[u.previous]
  <2>2. /\ c \in 0..n - 1 /\ t \in 1..n - 1 /\ t \in 0..n /\ s \in 1..n - 1 /\ n - s \in 0..n
        /\ rc = Onward(n, c, r) /\ rc \in 0..n - 1
    BY <1>1, <1>3, <2>1
  <2>3. CASE u.act = "CALL"
    <3>1. begin = (rc + t) % n /\ new.pos_begin = (c + t) % n
      BY <1>4, <2>1, <2>3 DEF BeginOf, Size
    <3> HIDE DEF begin, new, c, t, s, rc, n
    <3>2. begin = Onward(n, rc, t) /\ new.pos_begin = Onward(n, c, t) /\ begin \in 0..n - 1
      BY <1>1, <2>2, <3>1, OnwardIsModulo
    <3> QED BY <1>1, <2>2, <3>2, OnwardCommutes
  <2>4. CASE u.act = "RETURN"
    <3>1. begin = (rc + n - s) % n /\ new.pos_begin = (c + n - s) % n
      BY <1>4, <2>1, <2>4 DEF BeginOf, Size
    <3> DEFINE d == n - s
    <3> HIDE DEF begin, new, c, t, s, rc, n
    <3>2. rc + n - s = rc + d /\ c + n - s = c + d /\ d \in 0..n
      BY <1>1, <2>2
    <3> HIDE DEF d
    <3>3. begin = Onward(n, rc, d) /\ new.pos_begin = Onward(n, c, d) /\ begin \in 0..n - 1
      BY <1>1, <2>2, <3>1, <3>2, OnwardIsModulo
    <3> QED BY <1>1, <2>2, <3>2, <3>3, OnwardCommutes
  <2> QED BY <2>3, <2>4
<1> HIDE DEF begin, new
<1>7. ASSUME NEW e \in E
      PROVE  e.address \in intact <=> EntriesApart(p, new, e)
  <2> DEFINE b == ring[e.address]
             s == Size(e.address)
             t == Size(f)
  <2>1. /\ b \in 0..n - 1 /\ s \in 1..n - 1 /\ t \in 1..n - 1 /\ begin \in 0..n - 1
        /\ b = Onward(n, e.pos_begin, r) /\ e.pos_begin \in 0..n - 1
    BY <1>1, <1>3, <1>6
  <2>2. /\ Bytes(p, b, e.address) = {(b + i) % n : i \in 0..s - 1}
        /\ Bytes(p, begin, f) = {(begin + i) % n : i \in 0..t - 1}
    BY DEF Bytes, Size
  <2>3. e.address \in DOMAIN ring
    BY <1>2
  <2>4. EntriesApart(p, new, e) <=> Apart(n, new.pos_begin, t, e.pos_begin, s)
    BY <1>5 DEF EntriesApart
  <2>5. e.address \in intact <=>
          {(b + i) % n : i \in 0..s - 1} \cap {(begin + i) % n : i \in 0..t - 1} = {}
    BY <2>2, <2>3
  <2> HIDE DEF b, s, t, n, intact
  <2>6. e.address \in intact <=> Apart(n, b, s, begin, t)
    BY <1>1, <2>1, <2>5, BytesApart
  <2>7. Apart(n, b, s, begin, t) <=> Apart(n, begin, t, b, s)
    BY DEF Apart
  <2>8. Apart(n, begin, t, b, s) <=> Apart(n, new.pos_begin, t, e.pos_begin, s)
    BY <1>1, <1>5, <1>6, <2>1, OnwardApart
  <2> QED BY <2>4, <2>6, <2>7, <2>8
<1>8. Entries(after) = {new} \cup {e \in E : EntriesApart(p, new, e)}
  BY <1>1, ActivateKeepsRing DEF new
<1>9. loaded = [g \in intact \cup {f} |-> IF g = f THEN begin ELSE ring[g]]
  <2>1. ~(getFunctionMemSize(f) > p.size)
    BY <1>1 DEF Size
  <2> QED BY <1>4, <2>1 DEF LoadRing, begin
<1> HIDE DEF after, intact, loaded, f, E
<1>10. DOMAIN loaded = {e.address : e \in Entries(after)}
  <2>1. DOMAIN loaded = intact \cup {f}
    BY <1>9
  <2>2. intact \subseteq {e.address : e \in E}
    BY <1>2 DEF intact
  <2> QED BY <1>5, <1>7, <1>8, <2>1, <2>2
<1>11. ASSUME NEW e \in Entries(after) PROVE loaded[e.address] = (e.pos_begin + r) % n
  <2>1. CASE e = new
    <3>1. loaded[f] = begin
      BY <1>9
    <3>2. r \in 0..n
      BY <1>1
    <3> HIDE DEF n
    <3>3. (new.pos_begin + r) % n = Onward(n, new.pos_begin, r)
      BY <1>1, <1>5, <3>2, OnwardIsModulo
    <3> QED BY <1>5, <1>6, <2>1, <3>1, <3>3
  <2>2. CASE e # new
    <3>1. e \in E /\ EntriesApart(p, new, e)
      BY <1>8, <2>2
    <3>2. e.address \in intact /\ e.address # f
      BY <1>2, <1>4, <1>7, <3>1
    <3>3. loaded[e.address] = ring[e.address]
      BY <1>9, <3>2
    <3> QED BY <3>1, <3>3 DEF Holding, E
  <2> QED BY <2>1, <2>2
<1> QED BY <1>10, <1>11 DEF Holding, loaded, after, f

(* The same for any function: one that is there or too large changes       *)
(* nothing.                                                                *)
LEMMA LoadMatches ==
  ASSUME NEW p, IsRingSize(p), NEW content, IsRing(p, content), content # << >>,
         NEW ring, NEW r \in 0..p.size - 1, Holding(p, content, ring, r),
         NEW u, u.func \in Function, u.act \in {"CALL", "RETURN"}, Size(u.func) # p.size,
         ~IsTooLarge(p, u.func) => ~StackAsserts(p, content, u.func, u.act, u.previous)
  PROVE  Holding(p, StackActivate(p, content, u.func, u.act, u.previous),
                 LoadRing(p, ring, u), r)
<1>1. content \in Seq(RingEntries(p))
  BY DEF IsRing
<1>2. u.func \in DOMAIN ring <=> StackIsInState(content, u.func)
  BY <1>1, EntriesOf DEF Holding
<1>3. CASE StackIsInState(content, u.func) \/ IsTooLarge(p, u.func)
  BY <1>2, <1>3 DEF StackActivate, LoadRing, IsTooLarge
<1>4. CASE ~StackIsInState(content, u.func) /\ ~IsTooLarge(p, u.func)
  <2>1. Size(u.func) < p.size
    BY <1>4, SizePositive DEF IsTooLarge, Size, IsRingSize
  <2>2. ~NeighbourAsserts(content, u.act, u.previous)
    BY <1>4 DEF StackAsserts
  <2> QED BY <1>4, <2>1, <2>2, LoadIsActivation
<1> QED BY <1>3, <1>4

(* The first function goes into an empty memory.                           *)
LEMMA FirstLoad ==
  ASSUME NEW p, IsRingSize(p), NEW u, u.func \in Function, u.act = "CALL", Size(u.func) < p.size
  PROVE  Holding(p, StackActivate(p, << >>, u.func, u.act, u.previous),
                 LoadRing(p, << >>, u), 0)
<1> DEFINE f == u.func
           new == NewEntry(p, << >>, f, u.act, u.previous)
           after == StackActivate(p, << >>, f, u.act, u.previous)
           loaded == LoadRing(p, << >>, u)
<1>1. IsRing(p, << >>) /\ ~NeighbourAsserts(<< >>, u.act, u.previous)
  BY DEF IsRing, AllApart, Entries, NeighbourAsserts
<1>2. ~StackIsInState(<< >>, f) /\ Entries(<< >>) = {}
  BY DEF StackIsInState, Entries
<1>3. Entries(after) = {new}
  BY <1>1, <1>2, ActivateKeepsRing
<1>4. new.address = f /\ new.pos_begin = 0
  BY <1>1, NewEntryFacts
<1>5. loaded = [g \in {f} |-> 0]
  <2>1. ~(getFunctionMemSize(f) > p.size)
    BY SizePositive DEF Size, IsRingSize
  <2>2. BeginOf(p, << >>, u) = 0
    BY DEF BeginOf
  <2>3. DOMAIN << >> = {}
    OBVIOUS
  <2> QED BY <2>1, <2>2, <2>3 DEF LoadRing
<1>6. (0 + 0) % p.size = 0
  <2>1. p.size \in Nat \ {0} /\ 0 \in 0..p.size - 1 /\ 0 \in 0..p.size
    BY DEF IsRingSize
  <2>2. (0 + 0) % p.size = Onward(p.size, 0, 0)
    BY <2>1, OnwardIsModulo
  <2> QED BY <2>1, <2>2 DEF Onward
<1> HIDE DEF after, loaded, new
<1> QED BY <1>3, <1>4, <1>5, <1>6 DEF Holding, after, loaded

(* Normalizing a content turns it against the memory.                      *)
LEMMA NormalizeMatches ==
  ASSUME NEW p, IsRingSize(p), NEW content, IsRing(p, content), content # << >>,
         NEW ring, NEW r \in 0..p.size - 1, Holding(p, content, ring, r)
  PROVE  \E q \in 0..p.size - 1 : Holding(p, normalize(p, content), ring, q)
<1> DEFINE n == p.size
           d == content[1].pos_begin
           q == Onward(n, r, d)
           after == normalize(p, content)
<1>1. /\ d \in 0..n - 1 /\ n \in Nat \ {0} /\ r \in 0..n - 1
      /\ Entries(after) = {Turned(p, d, e) : e \in Entries(content)}
      /\ Entries(content) \subseteq RingEntries(p)
  BY NormalizeTurns, EntriesOf DEF IsRing, IsRingSize
<1> HIDE DEF after, d, n
<1>2. q \in 0..n - 1 /\ q \in 0..n /\ r \in 0..n
  BY <1>1 DEF Onward
<1>3. ASSUME NEW e \in Entries(content)
      PROVE  /\ Turned(p, d, e).address = e.address
             /\ ring[e.address] = (Turned(p, d, e).pos_begin + q) % n
  <2> DEFINE b == e.pos_begin
             c == Turned(p, d, e).pos_begin
  <2>1. e \in RingEntries(p)
    BY <1>1
  <2>2. Turned(p, d, e).address = e.address /\ c = Onward(n, b, n - d) /\ b \in 0..n - 1
    BY <1>1, <2>1, TurnedFacts, EntryFacts DEF n
  <2>3. ring[e.address] = (b + r) % n
    BY DEF Holding, n
  <2> HIDE DEF b, c
  <2>4. (b + r) % n = Onward(n, b, r)
    BY <1>1, <1>2, <2>2, OnwardIsModulo
  <2>5. c \in 0..n - 1 /\ Onward(n, c, q) = Onward(n, b, r)
    BY <1>1, <2>2 DEF Onward
  <2>6. (c + q) % n = Onward(n, c, q)
    <3> HIDE DEF q
    <3> QED BY <1>1, <1>2, <2>5, OnwardIsModulo
  <2> QED BY <2>2, <2>3, <2>4, <2>5, <2>6 DEF c
<1> HIDE DEF q
<1>4. {e.address : e \in Entries(after)} = {e.address : e \in Entries(content)}
  BY <1>1, <1>3
<1>5. \A e \in Entries(after) : ring[e.address] = (e.pos_begin + q) % n
  BY <1>1, <1>3
<1>6. Holding(p, after, ring, q)
  BY <1>4, <1>5 DEF Holding, n
<1> QED BY <1>2, <1>6 DEF after, n

-----------------------------------------------------------------------------
(***************************************************************************)
(* The queue of a FIFO memory: a content is the queue, the newest first.   *)
(***************************************************************************)

LEMMA ReverseFacts ==
  ASSUME NEW S, NEW s \in Seq(S)
  PROVE  /\ Reverse(s) \in Seq(S) /\ Len(Reverse(s)) = Len(s)
         /\ \A i \in 1..Len(s) : Reverse(s)[i] = s[(Len(s) - i) + 1]
         /\ \A e : Contains(Reverse(s), e) <=> e \in ToSet(s)
<1> DEFINE r == Reverse(s)
           n == Len(s)
<1>1. n \in Nat /\ r = [i \in 1..n |-> s[(n - i) + 1]]
  BY DEF Reverse
<1>2. \A i \in 1..n : (n - i) + 1 \in 1..n /\ (n - ((n - i) + 1)) + 1 = i /\ s[(n - i) + 1] \in S
  OBVIOUS
<1>3. DOMAIN s = 1..n
  OBVIOUS
<1> HIDE DEF n, r
<1>4. r \in Seq(S) /\ Len(r) = n /\ \A i \in 1..n : r[i] = s[(n - i) + 1]
  BY <1>1, <1>2
<1>5. ASSUME NEW e PROVE Contains(r, e) <=> e \in ToSet(s)
  <2>1. ASSUME Contains(r, e) PROVE e \in ToSet(s)
    BY <1>2, <1>3, <1>4, <2>1 DEF Contains, ToSet
  <2>2. ASSUME e \in ToSet(s) PROVE Contains(r, e)
    <3>1. PICK i \in 1..n : s[i] = e
      BY <1>3, <2>2 DEF ToSet
    <3>2. (n - i) + 1 \in 1..n /\ r[(n - i) + 1] = s[(n - ((n - i) + 1)) + 1]
      BY <1>2, <1>4
    <3>3. r[(n - i) + 1] = e
      BY <1>2, <3>1, <3>2
    <3> QED BY <1>4, <3>2, <3>3 DEF Contains
  <2> QED BY <2>1, <2>2
<1> QED BY <1>4, <1>5 DEF n, r

(* Counted from the other end.                                             *)
LEMMA UsedBackwards ==
  ASSUME NEW s \in Seq(Function), NEW k \in 0..Len(s)
  PROVE  UsedSizes(Reverse(s))[k] = UsedSizes(s)[Len(s)] - UsedSizes(s)[Len(s) - k]
<1> DEFINE n == Len(s)
           r == Reverse(s)
           U == UsedSizes(s)
           V == UsedSizes(r)
           Good == {j \in Nat : j <= n => V[j] = U[n] - U[n - j]}
<1>1. /\ U \in [0..n -> Nat] /\ U[0] = 0 /\ n \in Nat
      /\ \A j \in 1..n : U[j] = U[j - 1] + getFunctionMemSize(s[j])
      /\ \A j \in 1..n : getFunctionMemSize(s[j]) \in Nat
  BY UsedFacts, SizePositive
<1>2. /\ r \in Seq(Function) /\ Len(r) = n
      /\ \A j \in 1..n : r[j] = s[(n - j) + 1]
  BY ReverseFacts
<1> HIDE DEF r
<1>3. /\ V \in [0..n -> Nat] /\ V[0] = 0
      /\ \A j \in 1..n : V[j] = V[j - 1] + getFunctionMemSize(r[j])
  BY <1>2, UsedFacts
<1> HIDE DEF U, V, n
<1>4. 0 \in Good
  <2>1. n - 0 = n /\ U[n] \in Nat
    BY <1>1
  <2> QED BY <1>3, <2>1
<1>5. ASSUME NEW j \in Good PROVE j + 1 \in Good
  <2> SUFFICES ASSUME j + 1 <= n PROVE V[j + 1] = U[n] - U[n - (j + 1)]
    OBVIOUS
  <2>1. /\ j \in Nat /\ j <= n /\ j + 1 \in 1..n /\ (j + 1) - 1 = j /\ j \in 0..n
        /\ n - j \in 1..n /\ (n - (j + 1)) + 1 = n - j /\ (n - j) - 1 = n - (j + 1)
        /\ n - (j + 1) \in 0..n /\ n - j \in 0..n /\ n \in 0..n
    BY <1>1
  <2>2. V[j] = U[n] - U[n - j]
    BY <2>1
  <2>3. V[j + 1] = V[j] + getFunctionMemSize(s[n - j])
    BY <1>2, <1>3, <2>1
  <2>4. U[n - j] = U[n - (j + 1)] + getFunctionMemSize(s[n - j])
    BY <1>1, <2>1
  <2>5. U[n] \in Nat /\ U[n - j] \in Nat /\ U[n - (j + 1)] \in Nat /\ V[j] \in Nat
        /\ getFunctionMemSize(s[n - j]) \in Nat
    BY <1>1, <1>3, <2>1
  <2> QED BY <2>2, <2>3, <2>4, <2>5
<1>6. Good = Nat
  <2>1. Good \in SUBSET Nat
    OBVIOUS
  <2> HIDE DEF Good
  <2> QED BY <1>4, <1>5, <2>1, SetInduction
<1>7. k \in Nat /\ k <= n
  BY DEF n
<1>8. V[k] = U[n] - U[n - k]
  <2>1. k \in Good
    <3> HIDE DEF Good
    <3> QED BY <1>6, <1>7
  <2> QED BY <1>7, <2>1
<1> QED BY <1>8 DEF n, r, U, V

(* The first functions to leave are as few as must.                        *)
LEMMA LeavingFacts ==
  ASSUME NEW p, p.size \in Nat, p.table \in Nat, NEW s \in Seq(Function)
  PROVE  \E i \in 0..Len(s) :
           HasRoomBehind(p, s, i) /\ \A j \in 0..i - 1 : ~HasRoomBehind(p, s, j)
<1> DEFINE S == {i \in Nat : i <= Len(s) /\ HasRoomBehind(p, s, i)}
<1>1. UsedSizes(s) \in [0..Len(s) -> Nat] /\ Len(s) \in Nat
  BY UsedFacts
<1>2. Len(s) \in S /\ S \in SUBSET Nat
  <2>1. UsedSizes(s)[Len(s)] \in Nat
    BY <1>1
  <2>2. HasRoomBehind(p, s, Len(s))
    BY <1>1, <2>1 DEF HasRoomBehind
  <2> QED BY <1>1, <2>2
<1>3. PICK i \in S : \A j \in S : i <= j
  <2> HIDE DEF S
  <2> QED BY <1>2, LeastNatural
<1>4. i \in 0..Len(s) /\ HasRoomBehind(p, s, i)
  BY <1>1
<1>5. ASSUME NEW j \in 0..i - 1 PROVE ~HasRoomBehind(p, s, j)
  <2>1. j \in Nat /\ j <= Len(s) /\ ~(i <= j)
    BY <1>1, <1>4
  <2>2. j \notin S
    <3> HIDE DEF S
    <3> QED BY <1>3, <2>1
  <2> QED BY <2>1, <2>2
<1> QED BY <1>4, <1>5

(* The newest functions that fit are those that do not leave.              *)
LEMMA FittingIsStaying ==
  ASSUME NEW p, p.size \in Nat, p.table \in Nat, NEW s \in Seq(Function),
         NEW i \in 0..Len(s), HasRoomBehind(p, s, i), \A j \in 0..i - 1 : ~HasRoomBehind(p, s, j)
  PROVE  FifoFitting(p, Reverse(s)) = Reverse(SubSeq(s, i + 1, Len(s)))
<1> DEFINE n == Len(s)
           r == Reverse(s)
           V == UsedSizes(r)
           Fits(m) == /\ m <= p.table /\ V[m] <= p.size
                      /\ \A k \in m + 1..n : k > p.table \/ V[k] > p.size
<1>1. /\ r \in Seq(Function) /\ Len(r) = n /\ n \in Nat
      /\ \A j \in 1..n : r[j] = s[(n - j) + 1]
  BY ReverseFacts
<1>2. V \in [0..n -> Nat]
  BY <1>1, UsedFacts
<1>3. \A m \in 0..n : HasRoomBehind(p, s, n - m) <=> m <= p.table /\ V[m] <= p.size
  <2> TAKE m \in 0..n
  <2>1. V[m] = UsedSizes(s)[n] - UsedSizes(s)[n - m]
    BY UsedBackwards
  <2>2. n - (n - m) = m
    BY <1>1
  <2> HIDE DEF V
  <2> QED BY <2>1, <2>2 DEF HasRoomBehind
<1> HIDE DEF V
<1>4. n - i \in 0..n /\ n - (n - i) = i
  BY <1>1
<1>5. Fits(n - i)
  <2>1. n - i <= p.table /\ V[n - i] <= p.size
    BY <1>3, <1>4
  <2>2. ASSUME NEW k \in (n - i) + 1..n PROVE k > p.table \/ V[k] > p.size
    <3>1. n - k \in 0..i - 1 /\ k \in 0..n
      BY <1>1, <1>4
    <3>2. ~HasRoomBehind(p, s, n - k)
      BY <3>1
    <3>3. V[k] \in Nat /\ k \in Nat
      BY <1>1, <1>2, <3>1
    <3> QED BY <1>3, <3>1, <3>2, <3>3
  <2> QED BY <2>1, <2>2
<1>6. ASSUME NEW a \in 0..n, NEW b \in 0..n, Fits(a), Fits(b), a < b PROVE FALSE
  <2>1. b \in a + 1..n /\ V[b] \in Nat /\ b \in Nat
    BY <1>1, <1>2, <1>6
  <2>2. b > p.table \/ V[b] > p.size
    BY <1>6, <2>1
  <2> QED BY <1>6, <2>1, <2>2
<1> DEFINE c == CHOOSE m \in 0..n : Fits(m)
<1>7. c \in 0..n /\ Fits(c)
  <2> HIDE DEF Fits
  <2> QED BY <1>4, <1>5
<1>8. FifoFitting(p, r) = SubSeq(r, 1, c)
  BY <1>1 DEF FifoFitting, V
<1> HIDE DEF c, Fits
<1>9. c = n - i
  BY <1>1, <1>4, <1>5, <1>6, <1>7
<1> DEFINE t == SubSeq(s, i + 1, n)
<1>10. t = [j \in 1..n - i |-> s[i + j]] /\ t \in Seq(Function) /\ Len(t) = n - i
  <2>1. \A j \in 1..n - i : i + j \in 1..n /\ s[i + j] \in Function
    BY <1>1
  <2>2. t = [j \in 1..n - i |-> s[i + j]]
    BY <1>1, <2>1
  <2> HIDE DEF t
  <2> QED BY <1>4, <2>1, <2>2
<1>0. n \in Nat /\ i \in 0..n
  BY <1>1
<1> HIDE DEF t, n, r
<1>11. SubSeq(r, 1, n - i) = [j \in 1..n - i |-> r[j]]
  BY <1>1, <1>4
<1>12. \A j \in 1..n - i : r[j] = t[((n - i) - j) + 1]
  <2> TAKE j \in 1..n - i
  <2>1. /\ ((n - i) - j) + 1 \in 1..n - i /\ j \in 1..n
        /\ i + (((n - i) - j) + 1) = (n - j) + 1
    BY <1>0
  <2>2. t[((n - i) - j) + 1] = s[i + (((n - i) - j) + 1)]
    BY <1>10, <2>1
  <2> QED BY <1>1, <2>1, <2>2
<1>13. Reverse(t) = [j \in 1..n - i |-> t[((n - i) - j) + 1]]
  <2>1. Len(t) = n - i
    BY <1>10
  <2> QED BY <2>1 DEF Reverse
<1>14. SubSeq(r, 1, n - i) = Reverse(t)
  BY <1>11, <1>12, <1>13
<1> QED BY <1>8, <1>9, <1>14 DEF r, t, n

(* activateFunction follows the queue.                                     *)
LEMMA FifoFollows ==
  ASSUME NEW p, p.size \in Nat, p.table \in Nat, NEW q \in Seq(Function), NEW f \in Function
  PROVE  /\ LoadFifo(p, q, f) \in Seq(Function)
         /\ FifoActivate(p, Reverse(q), f) = Reverse(LoadFifo(p, q, f))
<1> DEFINE loaded == Append(q, f)
           Least(i) == /\ HasRoomBehind(p, loaded, i)
                       /\ \A j \in 0..i - 1 : ~HasRoomBehind(p, loaded, j)
           leaving == CHOOSE i \in 0..Len(loaded) : Least(i)
<1>1. FifoIsInState(Reverse(q), f) <=> f \in ToSet(q)
  BY ReverseFacts DEF FifoIsInState
<1>2. CASE f \in ToSet(q) \/ getFunctionMemSize(f) > p.size
  BY <1>1, <1>2 DEF FifoActivate, LoadFifo, IsTooLarge
<1>3. CASE ~(f \in ToSet(q) \/ getFunctionMemSize(f) > p.size)
  <2>1. loaded \in Seq(Function) /\ Len(loaded) \in Nat
    OBVIOUS
  <2>2. <<f>> \o Reverse(q) = Reverse(loaded)
    <3> DEFINE n == Len(q)
               r == Reverse(q)
    <3>1. n \in Nat /\ r \in Seq(Function) /\ Len(r) = n /\ \A i \in 1..n : r[i] = q[(n - i) + 1]
      BY ReverseFacts
    <3>2. Len(loaded) = n + 1 /\ loaded[n + 1] = f /\ \A i \in 1..n : loaded[i] = q[i]
      OBVIOUS
    <3>3. Reverse(loaded) = [i \in 1..n + 1 |-> loaded[((n + 1) - i) + 1]]
      BY <3>2 DEF Reverse
    <3> HIDE DEF r, n, loaded
    <3>4. /\ <<f>> \o r \in Seq(Function) /\ Len(<<f>> \o r) = 1 + n
          /\ (<<f>> \o r)[1] = f
          /\ \A i \in 1..n : (<<f>> \o r)[1 + i] = r[i]
      <4>1. <<f>> \in Seq(Function) /\ Len(<<f>>) = 1 /\ <<f>>[1] = f /\ 1 \in 1..1
        OBVIOUS
      <4> QED BY <3>1, <4>1, ConcatFacts
    <3>5. \A i \in 1..n + 1 : (<<f>> \o r)[i] = loaded[((n + 1) - i) + 1]
      <4> TAKE i \in 1..n + 1
      <4>1. CASE i = 1
        BY <3>1, <3>2, <3>4, <4>1
      <4>2. CASE i # 1
        <5>1. i - 1 \in 1..n /\ 1 + (i - 1) = i /\ (n - (i - 1)) + 1 = ((n + 1) - i) + 1
              /\ ((n + 1) - i) + 1 \in 1..n
          BY <3>1, <4>2
        <5>2. (<<f>> \o r)[1 + (i - 1)] = r[i - 1] /\ r[i - 1] = q[(n - (i - 1)) + 1]
          BY <3>1, <3>4, <5>1
        <5> QED BY <3>2, <5>1, <5>2
      <4> QED BY <4>1, <4>2
    <3> DEFINE w == <<f>> \o r
    <3> HIDE DEF w
    <3>6. w = [i \in 1..n + 1 |-> w[i]]
      <4>1. w \in Seq(Function) /\ Len(w) = n + 1
        BY <3>1, <3>4 DEF w
      <4> QED BY <4>1
    <3>7. \A i \in 1..n + 1 : w[i] = loaded[((n + 1) - i) + 1]
      BY <3>5 DEF w
    <3>8. w = Reverse(loaded)
      BY <3>3, <3>6, <3>7
    <3> QED BY <3>8 DEF w, r
  <2>3. leaving \in 0..Len(loaded) /\ Least(leaving)
    <3>1. \E i \in 0..Len(loaded) : Least(i)
      BY <2>1, LeavingFacts
    <3> HIDE DEF Least
    <3> QED BY <3>1
  <2>4. LoadFifo(p, q, f) = SubSeq(loaded, leaving + 1, Len(loaded))
    BY <1>3 DEF LoadFifo
  <2>5. FifoActivate(p, Reverse(q), f) = FifoFitting(p, Reverse(loaded))
    BY <1>1, <1>3, <2>2 DEF FifoActivate, IsTooLarge
  <2> HIDE DEF loaded, leaving
  <2>6. FifoFitting(p, Reverse(loaded)) = Reverse(SubSeq(loaded, leaving + 1, Len(loaded)))
    BY <2>1, <2>3, FittingIsStaying
  <2>7. SubSeq(loaded, leaving + 1, Len(loaded)) \in Seq(Function)
    BY <2>1, <2>3
  <2> QED BY <2>4, <2>5, <2>6, <2>7
<1> QED BY <1>2, <1>3

-----------------------------------------------------------------------------
(* What the graph says of nodes, contexts and forward edges.               *)
LEMMA GraphFacts ==
  ASSUME msg \in MSGs
  PROVE  /\ msg.type \in [Node -> NodeTypes] /\ msg.func \in [Node -> Function]
         /\ msg.context \in [Node -> Seq(Function)]
         /\ msg.out \in [Node -> Seq(Edges)] /\ msg.in \in [Node -> Seq(Edges)]
         /\ msg.context[Entry] = << >> /\ Pop(msg.context[Exit]) = << >>
         /\ msg.type[Entry] = "Entry" /\ msg.type[Exit] = "Exit"
         /\ \A n \in Node \ {Entry} : msg.context[n] # << >>
         /\ \A n \in Node : \A i \in 1..Len(msg.out[n]) :
              /\ msg.out[n][i].node \in Node
              /\ msg.context[msg.out[n][i].node] = ContextAfter(msg, n, msg.context[n])
         /\ \A n \in Node : \A i \in 1..Len(Predecessors(n)) :
              msg.type[Predecessors(n)[i]] # "Other" => Len(Predecessors(n)) = 1
<1>1. IsCallGraph(msg)
  BY GraphAssumption
<1>2. /\ msg.type \in [Node -> NodeTypes] /\ msg.func \in [Node -> Function]
      /\ msg.context \in [Node -> Seq(Function)]
      /\ msg.out \in [Node -> Seq(Edges)] /\ msg.in \in [Node -> Seq(Edges)]
  BY <1>1 DEF IsCallGraph, CallGraphs
<1>3. \A n \in Node : \A i \in 1..Len(msg.out[n]) :
        /\ msg.out[n][i].node \in Node
        /\ msg.context[msg.out[n][i].node] = ContextAfter(msg, n, msg.context[n])
  <2> TAKE n \in Node
  <2> TAKE i \in 1..Len(msg.out[n])
  <2>1. msg.out[n][i] \in Edges
    BY <1>2
  <2> QED BY <1>1, <2>1 DEF IsCallGraph, Edges
<1> QED BY <1>1, <1>2, <1>3 DEF IsCallGraph, Predecessors

LEMMA FlowFactsOf ==
  ASSUME msg \in MSGs
  PROVE  /\ \A n \in Node : Predecessors(n) \in Seq(Node)
         /\ \A n \in Node : ForwardEdges(msg.out[n]) \in Seq(Node)
         /\ \A n, m \in Node :
              (\E i \in 1..Len(Predecessors(n)) : Predecessors(n)[i] = m)
                <=> HasForwardEdge(msg.in[n], m)
         /\ \A n, m \in Node :
              (\E i \in 1..Len(ForwardEdges(msg.out[n])) : ForwardEdges(msg.out[n])[i] = m)
                <=> HasForwardEdge(msg.in[m], n)
         /\ \A n, m \in Node : HasForwardEdge(msg.out[n], m) <=> HasForwardEdge(msg.in[m], n)
         /\ Len(Predecessors(Entry)) = 0
         /\ \A n \in Node : ~HasForwardEdge(msg.in[Entry], n)
         /\ \A n \in Node : ~HasForwardEdge(msg.in[n], Exit)
<1>1. IsFlowGraph(msg)
  BY GraphAssumption DEF IsCallGraph
<1>2. \A n \in Node : ~HasForwardEdge(msg.in[Entry], n)
  <2>1. msg.in[Entry] = << >>
    BY <1>1 DEF IsFlowGraph
  <2> QED BY <2>1 DEF HasForwardEdge
<1>3. \A n, m \in Node : HasForwardEdge(msg.out[n], m) <=> HasForwardEdge(msg.in[m], n)
  BY <1>1 DEF IsFlowGraph
<1> QED BY <1>1, <1>2, <1>3, FlowGraphFacts DEF Predecessors

(* A forward edge leads to the context behind its source.                  *)
LEMMA ForwardContext ==
  ASSUME msg \in MSGs, NEW n \in Node, NEW m \in Node, HasForwardEdge(msg.in[m], n)
  PROVE  msg.context[m] = ContextAfter(msg, n, msg.context[n])
<1>1. HasForwardEdge(msg.out[n], m)
  BY FlowFactsOf
<1> QED BY <1>1, GraphFacts DEF HasForwardEdge

(* A node behind an entry or an exit node has no other predecessor.        *)
LEMMA OnlyPredecessor ==
  ASSUME msg \in MSGs, NEW m \in Node, NEW n \in Node, HasForwardEdge(msg.in[m], n)
  PROVE  /\ m # Entry /\ Len(Predecessors(m)) > 0
         /\ Len(Predecessors(m)) = 1 => Predecessors(m)[1] = n
         /\ Len(Predecessors(m)) # 1 => msg.type[n] = "Other"
<1>1. PICK i \in 1..Len(Predecessors(m)) : Predecessors(m)[i] = n
  BY FlowFactsOf
<1>2. Predecessors(m) \in Seq(Node) /\ m # Entry
  BY FlowFactsOf
<1>3. msg.type[n] # "Other" => Len(Predecessors(m)) = 1
  BY <1>1, GraphFacts
<1> QED BY <1>1, <1>2, <1>3

-----------------------------------------------------------------------------
(***************************************************************************)
(* The update of a node, by the context the graph has for it.              *)
(***************************************************************************)

(* The function below the top of a stack.                                  *)
LEMMA BelowTop ==
  ASSUME NEW c \in Seq(Function), Pop(c) # << >>
  PROVE  /\ c # << >> /\ Top(c) = c[Len(c)] /\ Len(c) \in 1..Len(c)
         /\ Len(c) - 1 \in 1..Len(c) /\ Top(Pop(c)) = c[Len(c) - 1]
<1>1. c # << >> /\ Pop(c) = SubSeq(c, 1, Len(c) - 1)
  BY DEF Pop
<1>2. /\ Pop(c) \in Seq(Function) /\ Len(Pop(c)) = Len(c) - 1
      /\ \A i \in 1..Len(Pop(c)) : Pop(c)[i] = c[i]
  BY <1>1, SequenceBelow
<1> DEFINE d == Pop(c)
<1>3. d \in Seq(Function) /\ d # << >>
  BY <1>2
<1>4. Top(d) = d[Len(d)] /\ Top(c) = c[Len(c)]
  BY <1>1 DEF Top, Last
<1> HIDE DEF d
<1>5. Len(d) \in 1..Len(d) /\ Len(c) \in 1..Len(c)
  BY <1>1, <1>3
<1> QED BY <1>1, <1>2, <1>4, <1>5 DEF d

(* What UpdateOf says if the analysis has the right context.               *)
Update(n) ==
  LET context == msg.context[n]
  IN  CASE msg.type[n] = "Entry" ->
             <<[func |-> msg.func[n], act |-> "CALL", previous |-> Top(context)]>>
        [] msg.type[n] = "Exit" /\ Pop(context) # << >> ->
             <<[func |-> Top(Pop(context)), act |-> "RETURN", previous |-> Top(context)]>>
        [] OTHER -> << >>

(* The function that is updated is active behind the node, the one active  *)
(* before is the one the update names.                                     *)
LEMMA UpdateFacts ==
  ASSUME msg \in MSGs, NEW n \in Node
  PROVE  /\ msg.type[n] = "Other" => Update(n) = << >>
         /\ Update(Exit) = << >>
         /\ Update(n) # << >> =>
              /\ Update(n) = <<Update(n)[1]>>
              /\ Update(n)[1].func \in Function
              /\ Update(n)[1].act \in {"CALL", "RETURN"}
              /\ Update(n)[1].previous = Top(msg.context[n])
              /\ Update(n)[1].func = Top(ContextAfter(msg, n, msg.context[n]))
              /\ n # Entry => Update(n)[1].previous \in Function
              /\ n = Entry => Update(n)[1].act = "CALL"
         /\ Update(n) = << >> /\ (\E m \in Node : HasForwardEdge(msg.in[m], n)) =>
              ContextAfter(msg, n, msg.context[n]) = msg.context[n]
<1> DEFINE c == msg.context[n]
<1>1. c \in Seq(Function) /\ msg.func[n] \in Function /\ msg.type[n] \in NodeTypes
  BY GraphFacts
<1>2. Update(Exit) = << >>
  BY GraphFacts, EndsAssumption DEF Update
<1>3. n # Entry => Top(c) \in Function
  <2> SUFFICES ASSUME n # Entry PROVE Top(c) \in Function
    OBVIOUS
  <2>1. c # << >>
    BY GraphFacts
  <2> HIDE DEF c
  <2>2. Len(c) \in 1..Len(c)
    BY <1>1, <2>1
  <2> QED BY <1>1, <2>1, <2>2 DEF Top, Last
<1>4. CASE msg.type[n] = "Entry"
  <2>1. Update(n) = <<[func |-> msg.func[n], act |-> "CALL", previous |-> Top(c)]>>
    BY <1>4 DEF Update
  <2>2. ContextAfter(msg, n, c) = Append(c, msg.func[n])
    BY <1>4 DEF ContextAfter
  <2>3. Top(Append(c, msg.func[n])) = msg.func[n]
    <3> HIDE DEF c
    <3>1. Append(c, msg.func[n]) # << >> /\ Append(c, msg.func[n])[Len(c) + 1] = msg.func[n]
      BY <1>1
    <3> QED BY <1>1, <3>1 DEF Top, Last
  <2> HIDE DEF c
  <2> QED BY <1>1, <1>2, <1>3, <1>4, <2>1, <2>2, <2>3 DEF c
<1>5. CASE msg.type[n] = "Exit" /\ Pop(c) # << >>
  <2>1. Update(n) = <<[func |-> Top(Pop(c)), act |-> "RETURN", previous |-> Top(c)]>>
    BY <1>5 DEF Update
  <2>2. ContextAfter(msg, n, c) = Pop(c)
    BY <1>5 DEF ContextAfter
  <2>3. Top(Pop(c)) \in Function
    <3> HIDE DEF c
    <3> QED BY <1>1, <1>5, BelowTop
  <2>4. n # Entry
    BY <1>5, GraphFacts
  <2> HIDE DEF c
  <2> QED BY <1>1, <1>2, <1>3, <1>5, <2>1, <2>2, <2>3, <2>4 DEF c
<1>6. CASE ~(msg.type[n] = "Entry") /\ ~(msg.type[n] = "Exit" /\ Pop(c) # << >>)
  <2>1. Update(n) = << >>
    BY <1>6 DEF Update
  <2>2. ASSUME NEW m \in Node, HasForwardEdge(msg.in[m], n)
        PROVE  ContextAfter(msg, n, c) = c
    <3>1. m # Entry /\ msg.context[m] = ContextAfter(msg, n, c)
      BY <2>2, ForwardContext, OnlyPredecessor
    <3>2. msg.context[m] # << >>
      BY <3>1, GraphFacts
    <3>3. msg.type[n] # "Exit"
      BY <1>6, <3>1, <3>2 DEF ContextAfter
    <3> QED BY <1>6, <3>3 DEF ContextAfter
  <2> QED BY <1>2, <2>1, <2>2
<1> QED BY <1>4, <1>5, <1>6

-----------------------------------------------------------------------------
(***************************************************************************)
(* The worklist, the contexts and the map of states.                       *)
(***************************************************************************)

HasPredecessor(n) == n = Entry \/ Len(Predecessors(n)) > 0

(* The context of a node is the chain of calls it was copied for, and its  *)
(* functions were entered before.                                          *)
ContextsMatchCalls == \A n \in DOMAIN ctxMap : ctxMap[n] = msg.context[n]

CallsWereEntered ==
  \A n \in DOMAIN ctxMap : \A i \in 1..Len(msg.context[n]) : Called(msg.context[n][i])

(* A node keeps the states its predecessors have ...                       *)
FlowConsistent ==
  \A n \in DOMAIN state_map :
    isPredecessorMemStateKnown(n) /\ state_map[n] = InitialStates(n)

(* ... and the update on the way to it was possible.                       *)
NoneFailed ==
  \A n \in DOMAIN state_map, m \in Node :
    HasForwardEdge(msg.in[n], m) /\ Update(m) # << >> =>
      /\ ~UpdateAsserts(state_map[m], Update(m)[1])
      /\ ~NormalizeCrashes(Activated(state_map[m], Update(m)[1]))

(* What comes up for processing was reached along a forward edge, ...      *)
MetHavePredecessor ==
  /\ \A i \in 1..Len(processing) :
       /\ HasPredecessor(processing[i])
       /\ processing[i] = Entry \/ processing[i] \in DOMAIN ctxMap
  /\ \A n \in DOMAIN ctxMap : HasPredecessor(n)

(* ... and a node that could be processed will come up.                    *)
ReadyIsPending ==
  \A n \in Node \ {Exit} :
    HasPredecessor(n) /\ isPredecessorMemStateKnown(n) /\ n \notin DOMAIN state_map =>
      \E i \in 1..Len(processing) : processing[i] = n

Finished ==
  phase = "done" =>
    /\ processing = << >>
    /\ \A n \in Node : ~PenaltyAsserts(n)
    /\ penalty = [n \in Node |-> IF UpdateOf(n) = << >> THEN 0 ELSE DispCost(n)]

WInv ==
  /\ msg \in MSGs
  /\ params \in ParamSets
  /\ processing \in Seq(Node)
  /\ phase \in {"analyze", "done", "aborted"}
  /\ DOMAIN state_map \subseteq DOMAIN ctxMap
  /\ DOMAIN ctxMap \subseteq Node
  /\ Exit \notin DOMAIN state_map
  /\ ContextsMatchCalls
  /\ CallsWereEntered
  /\ FlowConsistent
  /\ NoneFailed
  /\ MetHavePredecessor
  /\ ReadyIsPending
  /\ Finished

(* For a node that was met the analysis has the right context.             *)
LEMMA UpdateOfMet ==
  ASSUME msg \in MSGs, ContextsMatchCalls, NEW n \in Node, n \in DOMAIN ctxMap \/ n = Entry
  PROVE  getContextForNode(n) = msg.context[n] /\ UpdateOf(n) = Update(n)
<1>1. getContextForNode(n) = msg.context[n]
  BY GraphFacts DEF ContextsMatchCalls, getContextForNode
<1> QED BY <1>1 DEF UpdateOf, Update

(* The analysis starts with the invariant.                                 *)
LEMMA WInit == Init => WInv
<1> SUFFICES ASSUME Init PROVE WInv
  OBVIOUS
<1>1. /\ msg \in MSGs /\ params \in ParamSets /\ processing = <<Entry>>
      /\ DOMAIN state_map = {} /\ DOMAIN ctxMap = {} /\ phase = "analyze"
      /\ Len(processing) = 1 /\ processing[1] = Entry
  BY DEF Init
<1>2. processing \in Seq(Node)
  BY <1>1, EndsAssumption
<1>3. MetHavePredecessor
  BY <1>1 DEF MetHavePredecessor, HasPredecessor
<1>4. ReadyIsPending
  <2> SUFFICES ASSUME NEW n \in Node \ {Exit}, n # Entry, Len(Predecessors(n)) > 0,
                      isPredecessorMemStateKnown(n)
               PROVE  FALSE
    BY <1>1 DEF ReadyIsPending, HasPredecessor
  <2>1. Predecessors(n) \in Seq(Node)
    BY <1>1, FlowFactsOf
  <2>2. 1 \in 1..Len(Predecessors(n))
    BY <2>1
  <2> QED BY <1>1, <2>2 DEF isPredecessorMemStateKnown
<1> QED BY <1>1, <1>2, <1>3, <1>4
        DEF WInv, ContextsMatchCalls, CallsWereEntered, FlowConsistent, NoneFailed, Finished

(* The popped node and what is left of the worklist.                       *)
LEMMA ActualFacts ==
  ASSUME WInv, processing # << >>
  PROVE  /\ Actual \in Node
         /\ HasPredecessor(Actual)
         /\ Actual = Entry \/ Actual \in DOMAIN ctxMap
         /\ Len(processing) \in 1..Len(processing)
         /\ Actual = processing[Len(processing)]
         /\ Front(processing) \in Seq(Node)
         /\ Len(Front(processing)) = Len(processing) - 1
         /\ \A i \in 1..Len(Front(processing)) :
              Front(processing)[i] = processing[i] /\ i \in 1..Len(processing)
<1>1. processing \in Seq(Node) /\ Len(processing) \in Nat
  BY DEF WInv
<1>2. Len(processing) \in 1..Len(processing) /\ Len(processing) - 1 \in Nat
  BY <1>1
<1>3. Actual \in Node /\ Actual = processing[Len(processing)]
  BY <1>1, <1>2 DEF Actual, Last
<1>4. HasPredecessor(Actual) /\ (Actual = Entry \/ Actual \in DOMAIN ctxMap)
  BY <1>2, <1>3 DEF WInv, MetHavePredecessor
<1>5. Front(processing) = [i \in 1..Len(processing) - 1 |-> processing[i]]
  BY <1>1, <1>2 DEF Front
<1>6. \A i \in 1..Len(processing) - 1 : processing[i] \in Node
  BY <1>1
<1> QED BY <1>2, <1>3, <1>4, <1>5, <1>6

(* The predecessors of a node that has states have states.                 *)
LEMMA KnownPredecessors ==
  ASSUME msg \in MSGs, NEW n \in Node, isPredecessorMemStateKnown(n),
         NEW m \in Node, HasForwardEdge(msg.in[n], m)
  PROVE  m \in DOMAIN state_map
<1>1. PICK i \in 1..Len(Predecessors(n)) : Predecessors(n)[i] = m
  BY FlowFactsOf
<1>2. n # Entry
  BY FlowFactsOf
<1> QED BY <1>1, <1>2 DEF isPredecessorMemStateKnown

(* A step that only adds to both maps changes no flow equation.            *)
LEMMA FlowKept ==
  ASSUME msg \in MSGs, msg' = msg, params' = params,
         DOMAIN state_map \subseteq DOMAIN ctxMap,
         DOMAIN state_map \subseteq DOMAIN state_map',
         DOMAIN ctxMap \subseteq DOMAIN ctxMap',
         \A n \in DOMAIN state_map : state_map'[n] = state_map[n],
         \A n \in DOMAIN ctxMap : ctxMap'[n] = ctxMap[n],
         NEW n \in Node, HasPredecessor(n), isPredecessorMemStateKnown(n)
  PROVE  isPredecessorMemStateKnown(n)' /\ InitialStates(n)' = InitialStates(n)
<1>1. CASE n = Entry
  BY <1>1 DEF isPredecessorMemStateKnown, InitialStates
<1>2. CASE n # Entry
  <2> DEFINE pred == Predecessors(n)
  <2>1. pred \in Seq(Node) /\ Predecessors(n)' = pred /\ Len(pred) > 0
    BY <1>2, FlowFactsOf DEF Predecessors, HasPredecessor
  <2>2. \A i \in 1..Len(pred) :
          /\ pred[i] \in DOMAIN state_map /\ pred[i] \in DOMAIN state_map'
          /\ state_map'[pred[i]] = state_map[pred[i]]
          /\ pred[i] \in DOMAIN ctxMap /\ pred[i] \in DOMAIN ctxMap'
          /\ ctxMap'[pred[i]] = ctxMap[pred[i]]
    BY <1>2 DEF isPredecessorMemStateKnown
  <2>3. isPredecessorMemStateKnown(n)'
    <3> HIDE DEF pred
    <3>1. \A i \in 1..Len(Predecessors(n)') : Predecessors(n)'[i] \in DOMAIN state_map'
      BY <2>1, <2>2
    <3> QED BY <3>1 DEF isPredecessorMemStateKnown
  <2>4. StatesBehind(pred[1])' = StatesBehind(pred[1])
    <3>1. 1 \in 1..Len(pred)
      BY <2>1
    <3> DEFINE m == pred[1]
    <3> HIDE DEF pred
    <3>2. /\ m \in DOMAIN ctxMap /\ m \in DOMAIN ctxMap' /\ ctxMap'[m] = ctxMap[m]
          /\ state_map'[m] = state_map[m]
      BY <2>2, <3>1
    <3>3. m' = m
      BY <2>1 DEF pred
    <3> HIDE DEF m
    <3>4. getContextForNode(m)' = getContextForNode(m)
      BY <3>2, <3>3 DEF getContextForNode
    <3>5. UpdateOf(m)' = UpdateOf(m)
      BY <3>3, <3>4 DEF UpdateOf
    <3>6. StatesBehind(m)' = StatesBehind(m)
      BY <3>2, <3>3, <3>5 DEF StatesBehind, removeDuplicates, Activated, Activate
    <3> QED BY <3>6 DEF m
  <2>5. JoinedStates(n)' = JoinedStates(n)
    <3> DEFINE joined == UNION {state_map[Predecessors(n)[i]] : i \in 1..Len(Predecessors(n))}
    <3>1. joined' = joined
      <4>1. \A i \in 1..Len(Predecessors(n)) :
              state_map'[Predecessors(n)[i]] = state_map[Predecessors(n)[i]]
        BY <2>2
      <4> QED BY <2>1, <4>1
    <3>2. JoinedStates(n) = removeDuplicates(joined)
      BY DEF JoinedStates
    <3>3. JoinedStates(n)' = removeDuplicates(joined)'
      BY DEF JoinedStates
    <3> HIDE DEF joined
    <3>4. removeDuplicates(joined)' = removeDuplicates(joined)
      BY <3>1 DEF removeDuplicates
    <3> QED BY <3>2, <3>3, <3>4
  <2>6. InitialStates(n)' = InitialStates(n)
    BY <1>2, <2>1, <2>4, <2>5 DEF InitialStates
  <2> QED BY <2>3, <2>6
<1> QED BY <1>1, <1>2

-----------------------------------------------------------------------------
(* The update on the way to a node no assertion of which fails.            *)
LEMMA PassedUpdate ==
  ASSUME WInv, NEW n \in Node, isPredecessorMemStateKnown(n), ~NodeAsserts(n),
         NEW m \in Node, HasForwardEdge(msg.in[n], m), Update(m) # << >>
  PROVE  /\ ~UpdateAsserts(state_map[m], Update(m)[1])
         /\ ~NormalizeCrashes(Activated(state_map[m], Update(m)[1]))
<1>1. msg \in MSGs /\ ContextsMatchCalls
  BY DEF WInv
<1>2. Len(Predecessors(n)) = 1 /\ Predecessors(n)[1] = m /\ n # Entry
  BY <1>1, OnlyPredecessor, UpdateFacts
<1>3. UpdateOf(m) = Update(m)
  <2>1. m \in DOMAIN ctxMap
    BY <1>1, KnownPredecessors DEF WInv
  <2> QED BY <1>1, <2>1, UpdateOfMet
<1>4. ~UpdateAsserts(state_map[m], Update(m)[1])
  BY <1>2, <1>3 DEF NodeAsserts
<1>5. ~NormalizeCrashes(Activated(state_map[m], Update(m)[1]))
  BY <1>2, <1>3, <1>4 DEF NodeAsserts
<1> QED BY <1>4, <1>5

-----------------------------------------------------------------------------
(* What the processing of a node does to states and contexts.              *)
LEMMA ProcessEffect ==
  ASSUME WInv, ProcessNode
  PROVE  /\ Actual \in Node \ {Exit} /\ HasPredecessor(Actual)
         /\ Actual \notin DOMAIN state_map /\ isPredecessorMemStateKnown(Actual)
         /\ DOMAIN state_map' = DOMAIN state_map \cup {Actual}
         /\ state_map'[Actual] = InitialStates(Actual)
         /\ \A n \in DOMAIN state_map : state_map'[n] = state_map[n]
         /\ DOMAIN ctxMap' = DOMAIN ctxMap \cup {Actual}
                               \cup {n \in Node : HasForwardEdge(msg.in[n], Actual)}
         /\ \A n \in DOMAIN ctxMap : ctxMap'[n] = ctxMap[n]
         /\ \A n \in DOMAIN ctxMap' : ctxMap'[n] = msg.context[n]
<1> DEFINE p == Actual
           next == ToSet(ForwardEdges(msg.out[p]))
<1>1. /\ msg \in MSGs /\ ContextsMatchCalls /\ processing # << >> /\ p # Exit
      /\ isPredecessorMemStateKnown(p) /\ p \notin DOMAIN state_map
      /\ state_map' = [n \in DOMAIN state_map \cup {p} |->
                         IF n = p THEN InitialStates(n) ELSE state_map[n]]
      /\ addContextForNode(p)
  BY DEF ProcessNode, Processed, NodeAsserts, WInv
<1>2. p \in Node /\ HasPredecessor(p) /\ (p = Entry \/ p \in DOMAIN ctxMap)
  BY <1>1, ActualFacts
<1>3. getContextForNode(p) = msg.context[p]
  BY <1>1, <1>2, UpdateOfMet
<1>4. next = {n \in Node : HasForwardEdge(msg.in[n], p)}
  <2>1. ForwardEdges(msg.out[p]) \in Seq(Node)
    BY <1>1, <1>2, FlowFactsOf
  <2>2. \A n \in Node : (\E i \in 1..Len(ForwardEdges(msg.out[p])) : ForwardEdges(msg.out[p])[i] = n)
                          <=> HasForwardEdge(msg.in[n], p)
    BY <1>1, <1>2, FlowFactsOf
  <2> DEFINE edges == ForwardEdges(msg.out[p])
  <2>3. next = {edges[i] : i \in 1..Len(edges)}
    <3>1. DOMAIN edges = 1..Len(edges)
      BY <2>1
    <3> QED BY <3>1 DEF ToSet
  <2> HIDE DEF edges, next
  <2>4. \A i \in 1..Len(edges) : edges[i] \in Node
    BY <2>1 DEF edges
  <2>5. \A n \in Node : (\E i \in 1..Len(edges) : edges[i] = n) <=> HasForwardEdge(msg.in[n], p)
    BY <2>2 DEF edges
  <2> QED BY <2>3, <2>4, <2>5
<1>5. ctxMap' = [m \in DOMAIN ctxMap \cup next \cup {p} |->
                   IF m \in DOMAIN ctxMap \/ m = p THEN getContextForNode(m)
                   ELSE ContextAfter(msg, p, getContextForNode(p))]
  BY <1>1 DEF addContextForNode
<1> HIDE DEF p, next
<1>6. DOMAIN ctxMap' = DOMAIN ctxMap \cup {p} \cup {n \in Node : HasForwardEdge(msg.in[n], p)}
  BY <1>4, <1>5
<1>7. \A n \in DOMAIN ctxMap : ctxMap'[n] = ctxMap[n]
  BY <1>5 DEF getContextForNode
<1>8. ASSUME NEW n \in DOMAIN ctxMap' PROVE ctxMap'[n] = msg.context[n]
  <2>1. CASE n \in DOMAIN ctxMap
    BY <1>1, <1>7, <2>1 DEF ContextsMatchCalls
  <2>2. CASE n = p
    BY <1>3, <1>5, <2>2
  <2>3. CASE n \notin DOMAIN ctxMap /\ n # p
    <3>1. n \in Node /\ HasForwardEdge(msg.in[n], p)
      BY <1>6, <2>3
    <3>2. ctxMap'[n] = ContextAfter(msg, p, msg.context[p])
      BY <1>3, <1>5, <1>6, <2>3
    <3> QED BY <1>1, <1>2, <3>1, <3>2, ForwardContext
  <2> QED BY <2>1, <2>2, <2>3
<1> QED BY <1>1, <1>2, <1>6, <1>7, <1>8 DEF p

(* After a node is processed, the worklist holds the rest and its forward  *)
(* successors.                                                             *)
LEMMA ProcessPushes ==
  ASSUME WInv, ProcessNode
  PROVE  /\ processing' \in Seq(Node)
         /\ \A n \in Node :
              (\E i \in 1..Len(processing') : processing'[i] = n)
                <=> \/ \E i \in 1..Len(Front(processing)) : Front(processing)[i] = n
                    \/ HasForwardEdge(msg.in[n], Actual)
<1> DEFINE rest == Front(processing)
           pushed == ForwardEdges(msg.out[Actual])
<1>1. processing # << >> /\ msg \in MSGs
  BY DEF ProcessNode, WInv
<1>2. rest \in Seq(Node) /\ Actual \in Node
  BY <1>1, ActualFacts
<1>3. pushed \in Seq(Node)
  BY <1>1, <1>2, FlowFactsOf
<1>4. processing' = rest \o pushed
  BY DEF ProcessNode
<1>5. \A n \in Node :
        (\E i \in 1..Len(pushed) : pushed[i] = n) <=> HasForwardEdge(msg.in[n], Actual)
  BY <1>1, <1>2, FlowFactsOf
<1> HIDE DEF rest, pushed
<1>6. \A n \in Node :
        (\E i \in 1..Len(rest \o pushed) : (rest \o pushed)[i] = n)
          <=> (\E i \in 1..Len(rest) : rest[i] = n) \/ (\E i \in 1..Len(pushed) : pushed[i] = n)
  <2> TAKE n \in Node
  <2> QED BY <1>2, <1>3, ConcatMembers
<1>7. rest \o pushed \in Seq(Node)
  BY <1>2, <1>3
<1>8. /\ processing' \in Seq(Node)
      /\ \A n \in Node :
           (\E i \in 1..Len(processing') : processing'[i] = n)
             <=> \/ \E i \in 1..Len(rest) : rest[i] = n
                 \/ HasForwardEdge(msg.in[n], Actual)
  BY <1>4, <1>5, <1>6, <1>7
<1> QED BY <1>8 DEF rest

(* The functions of the context behind a node that was met were entered.   *)
LEMMA EnteredBehind ==
  ASSUME WInv, NEW n \in Node, n \in DOMAIN ctxMap \/ n = Entry,
         NEW m \in Node, m = n \/ HasForwardEdge(msg.in[m], n),
         NEW i \in 1..Len(msg.context[m])
  PROVE  Called(msg.context[m][i])
<1> DEFINE c == msg.context[n]
<1>1. msg \in MSGs /\ c \in Seq(Function) /\ msg.func[n] \in Function
  BY GraphFacts DEF WInv
<1>2. \A k \in 1..Len(c) : Called(c[k])
  <2>1. CASE n \in DOMAIN ctxMap
    BY <2>1 DEF WInv, CallsWereEntered
  <2>2. CASE n = Entry
    <3>1. Len(c) = 0
      BY <1>1, <2>2, GraphFacts
    <3> QED BY <3>1
  <2> QED BY <2>1, <2>2
<1>3. CASE m = n
  BY <1>2, <1>3
<1>4. CASE m # n
  <2>1. msg.context[m] = ContextAfter(msg, n, c)
    BY <1>1, <1>4, ForwardContext
  <2>2. CASE msg.type[n] = "Entry"
    <3>1. Called(msg.func[n])
      BY <2>2 DEF Called
    <3>2. msg.context[m] = Append(c, msg.func[n])
      BY <2>1, <2>2 DEF ContextAfter
    <3> HIDE DEF c
    <3>3. CASE i \in 1..Len(c)
      <4>1. msg.context[m][i] = c[i]
        BY <1>1, <3>2, <3>3
      <4> QED BY <1>2, <3>3, <4>1
    <3>4. CASE i \notin 1..Len(c)
      <4>1. msg.context[m][i] = msg.func[n]
        <5>1. i = Len(c) + 1
          BY <1>1, <3>2, <3>4
        <5> QED BY <1>1, <3>2, <5>1
      <4> QED BY <3>1, <4>1
    <3> QED BY <3>3, <3>4
  <2>3. CASE msg.type[n] = "Exit" /\ c # << >>
    <3>1. msg.context[m] = SubSeq(c, 1, Len(c) - 1)
      BY <2>1, <2>3 DEF ContextAfter, Pop
    <3> HIDE DEF c
    <3>2. msg.context[m][i] = c[i] /\ i \in 1..Len(c)
      <4>1. /\ Len(SubSeq(c, 1, Len(c) - 1)) = Len(c) - 1
            /\ \A k \in 1..Len(SubSeq(c, 1, Len(c) - 1)) : SubSeq(c, 1, Len(c) - 1)[k] = c[k]
        BY <1>1, <2>3, SequenceBelow
      <4>2. i \in 1..Len(c) - 1
        BY <3>1, <4>1
      <4> QED BY <1>1, <3>1, <4>1, <4>2
    <3> QED BY <1>2, <3>2
  <2>4. CASE ~(msg.type[n] = "Entry") /\ ~(msg.type[n] = "Exit" /\ c # << >>)
    <3>1. msg.context[m] = c
      BY <2>1, <2>4 DEF ContextAfter, Pop
    <3> QED BY <1>2, <3>1
  <2> QED BY <2>2, <2>3, <2>4
<1> QED BY <1>3, <1>4

(* A step that leaves graph, parameters, states, contexts and worklist     *)
(* alone keeps all but what is said of the end.                            *)
LEMMA StatesKept ==
  ASSUME WInv, UNCHANGED <<msg, params, processing, state_map, ctxMap>>
  PROVE  /\ FlowConsistent' /\ NoneFailed' /\ ContextsMatchCalls' /\ CallsWereEntered'
         /\ MetHavePredecessor' /\ ReadyIsPending'
<1>1. FlowConsistent'
  <2> SUFFICES ASSUME NEW n \in DOMAIN state_map
               PROVE  isPredecessorMemStateKnown(n)' /\ state_map[n] = InitialStates(n)'
    BY DEF FlowConsistent
  <2>1. /\ n \in Node /\ isPredecessorMemStateKnown(n) /\ state_map[n] = InitialStates(n)
        /\ HasPredecessor(n)
    BY DEF WInv, FlowConsistent, MetHavePredecessor
  <2> QED BY <2>1, FlowKept DEF WInv
<1>2. NoneFailed'
  BY DEF WInv, NoneFailed, Update, UpdateAsserts, NormalizeCrashes, Contents, Activated, Activate
<1>3. ContextsMatchCalls' /\ CallsWereEntered'
  BY DEF WInv, ContextsMatchCalls, CallsWereEntered, Called
<1>4. MetHavePredecessor' /\ ReadyIsPending'
  BY DEF WInv, MetHavePredecessor, HasPredecessor, ReadyIsPending, Predecessors,
         isPredecessorMemStateKnown
<1> QED BY <1>1, <1>2, <1>3, <1>4

(* Dropping a node keeps the invariant: a node that is ready is not        *)
(* dropped.                                                                *)
LEMMA DropInv ==
  ASSUME WInv, DropNode
  PROVE  WInv'
<1> DEFINE rest == Front(processing)
<1>1. /\ processing # << >> /\ processing \in Seq(Node) /\ phase = "analyze"
      /\ ~isPredecessorMemStateKnown(Actual) \/ Actual = Exit
      /\ processing' = rest
      /\ UNCHANGED <<msg, params, state_map, ctxMap, penalty, phase>>
  BY DEF DropNode, Processed, WInv
<1>2. /\ rest \in Seq(Node) /\ Len(rest) = Len(processing) - 1
      /\ \A i \in 1..Len(rest) : rest[i] = processing[i] /\ i \in 1..Len(processing)
      /\ Actual = processing[Len(processing)]
  BY <1>1, ActualFacts
<1> HIDE DEF rest
<1>3. FlowConsistent'
  <2> SUFFICES ASSUME NEW n \in DOMAIN state_map
               PROVE  isPredecessorMemStateKnown(n)' /\ state_map[n] = InitialStates(n)'
    BY <1>1 DEF FlowConsistent
  <2>1. /\ n \in Node /\ isPredecessorMemStateKnown(n) /\ state_map[n] = InitialStates(n)
        /\ HasPredecessor(n)
    BY DEF WInv, FlowConsistent, MetHavePredecessor
  <2> QED BY <1>1, <2>1, FlowKept DEF WInv
<1>4. NoneFailed'
  BY <1>1 DEF WInv, NoneFailed, Update, UpdateAsserts, NormalizeCrashes, Contents, Activated, Activate
<1>5. ContextsMatchCalls' /\ CallsWereEntered'
  BY <1>1 DEF WInv, ContextsMatchCalls, CallsWereEntered, Called
<1>6. MetHavePredecessor'
  <2>1. \A n \in DOMAIN ctxMap : HasPredecessor(n)'
    BY <1>1 DEF WInv, MetHavePredecessor, HasPredecessor, Predecessors
  <2>2. ASSUME NEW i \in 1..Len(rest)
        PROVE  /\ rest[i] = Entry \/ Len(ForwardEdges(msg.in[rest[i]])) > 0
               /\ rest[i] = Entry \/ rest[i] \in DOMAIN ctxMap
    <3>1. i \in 1..Len(processing) /\ rest[i] = processing[i]
      BY <1>2
    <3> QED BY <3>1 DEF WInv, MetHavePredecessor, HasPredecessor, Predecessors
  <2> QED BY <1>1, <2>1, <2>2 DEF MetHavePredecessor, HasPredecessor, Predecessors
<1>7. ReadyIsPending'
  <2> SUFFICES ASSUME NEW n \in Node \ {Exit}, HasPredecessor(n),
                      isPredecessorMemStateKnown(n), n \notin DOMAIN state_map
               PROVE  \E i \in 1..Len(rest) : rest[i] = n
    BY <1>1 DEF ReadyIsPending, HasPredecessor, Predecessors, isPredecessorMemStateKnown
  <2>1. PICK i \in 1..Len(processing) : processing[i] = n
    BY DEF WInv, ReadyIsPending
  <2>2. i # Len(processing)
    BY <1>1, <1>2, <2>1
  <2>3. i \in 1..Len(rest)
    BY <1>1, <1>2, <2>1, <2>2
  <2> QED BY <1>2, <2>1, <2>3
<1>8. Finished'
  BY <1>1 DEF Finished
<1> QED BY <1>1, <1>2, <1>3, <1>4, <1>5, <1>6, <1>7, <1>8 DEF WInv

(* Processing a node keeps the invariant: the nodes it makes ready are     *)
(* among the successors it pushes.                                         *)
LEMMA ProcessInv ==
  ASSUME WInv, ProcessNode
  PROVE  WInv'
<1> DEFINE p == Actual
           rest == Front(processing)
<1>1. /\ processing # << >> /\ processing \in Seq(Node) /\ phase = "analyze"
      /\ msg \in MSGs /\ FlowConsistent /\ NoneFailed /\ ContextsMatchCalls
      /\ CallsWereEntered /\ MetHavePredecessor /\ ReadyIsPending
      /\ DOMAIN state_map \subseteq DOMAIN ctxMap /\ DOMAIN ctxMap \subseteq Node
      /\ Exit \notin DOMAIN state_map /\ params \in ParamSets
      /\ msg' = msg /\ params' = params /\ phase' = phase
      /\ ~NodeAsserts(p)
  BY DEF ProcessNode, WInv
<1>2. /\ p \in Node \ {Exit} /\ HasPredecessor(p)
      /\ p \notin DOMAIN state_map /\ isPredecessorMemStateKnown(p)
      /\ DOMAIN state_map' = DOMAIN state_map \cup {p}
      /\ state_map'[p] = InitialStates(p)
      /\ \A n \in DOMAIN state_map : state_map'[n] = state_map[n]
      /\ DOMAIN ctxMap' = DOMAIN ctxMap \cup {p}
                            \cup {n \in Node : HasForwardEdge(msg.in[n], p)}
      /\ \A n \in DOMAIN ctxMap : ctxMap'[n] = ctxMap[n]
      /\ \A n \in DOMAIN ctxMap' : ctxMap'[n] = msg.context[n]
  BY ProcessEffect
<1>3. /\ rest \in Seq(Node) /\ Len(rest) = Len(processing) - 1
      /\ \A i \in 1..Len(rest) : rest[i] = processing[i] /\ i \in 1..Len(processing)
      /\ p = processing[Len(processing)] /\ (p = Entry \/ p \in DOMAIN ctxMap)
  BY <1>1, ActualFacts
<1>4. /\ processing' \in Seq(Node)
      /\ \A n \in Node :
           (\E i \in 1..Len(processing') : processing'[i] = n)
             <=> (\E i \in 1..Len(rest) : rest[i] = n) \/ HasForwardEdge(msg.in[n], p)
  BY ProcessPushes
<1>5. ~NodeAsserts(p)
  BY <1>1
<1> HIDE DEF p, rest
<1>6. \A n \in Node : /\ Predecessors(n)' = Predecessors(n) /\ Predecessors(n) \in Seq(Node)
                      /\ HasPredecessor(n)' <=> HasPredecessor(n)
  BY <1>1, FlowFactsOf DEF Predecessors, HasPredecessor
<1>7. \A n \in Node : HasForwardEdge(msg.in[n], p) => HasPredecessor(n)
  BY <1>1, <1>2, OnlyPredecessor DEF HasPredecessor
<1>8. \A n \in DOMAIN ctxMap' : HasPredecessor(n) /\ n \in Node
  BY <1>1, <1>2, <1>7 DEF MetHavePredecessor
<1>9. FlowConsistent'
  <2> SUFFICES ASSUME NEW n \in DOMAIN state_map'
               PROVE  isPredecessorMemStateKnown(n)' /\ state_map'[n] = InitialStates(n)'
    BY DEF FlowConsistent
  <2>1. n \in Node /\ isPredecessorMemStateKnown(n) /\ state_map'[n] = InitialStates(n)
    <3>1. CASE n = p
      BY <1>1, <1>2, <3>1
    <3>2. CASE n # p
      BY <1>1, <1>2, <3>2 DEF FlowConsistent
    <3> QED BY <3>1, <3>2
  <2>2. HasPredecessor(n)
    BY <1>1, <1>2, <1>8
  <2> QED BY <1>1, <1>2, <2>1, <2>2, FlowKept
<1>10. NoneFailed'
  <2> SUFFICES ASSUME NEW n \in DOMAIN state_map', NEW m \in Node,
                      HasForwardEdge(msg.in[n], m), Update(m) # << >>
               PROVE  /\ ~UpdateAsserts(state_map'[m], Update(m)[1])
                      /\ ~NormalizeCrashes(Activated(state_map'[m], Update(m)[1]))
    <3>1. msg' = msg /\ params' = params
      BY <1>1
    <3> QED BY <3>1 DEF NoneFailed, Update, UpdateAsserts, NormalizeCrashes, Contents, Activated, Activate
  <2>1. n \in Node /\ isPredecessorMemStateKnown(n)
    BY <1>1, <1>2 DEF FlowConsistent
  <2>2. m \in DOMAIN state_map /\ state_map'[m] = state_map[m]
    BY <1>1, <1>2, <2>1, KnownPredecessors
  <2>3. CASE n \in DOMAIN state_map
    BY <1>1, <2>2, <2>3 DEF NoneFailed
  <2>4. CASE n = p
    <3>1. /\ ~UpdateAsserts(state_map[m], Update(m)[1])
          /\ ~NormalizeCrashes(Activated(state_map[m], Update(m)[1]))
      BY <1>5, <2>1, <2>4, PassedUpdate
    <3> QED BY <2>2, <3>1
  <2> QED BY <1>2, <2>3, <2>4
<1>11. ContextsMatchCalls'
  BY <1>1, <1>2 DEF ContextsMatchCalls
<1>12. CallsWereEntered'
  <2> SUFFICES ASSUME NEW n \in DOMAIN ctxMap', NEW i \in 1..Len(msg.context[n])
               PROVE  Called(msg.context[n][i])
    BY <1>1 DEF CallsWereEntered, Called
  <2>1. CASE n \in DOMAIN ctxMap
    BY <1>1, <2>1 DEF CallsWereEntered
  <2>2. CASE n = p \/ HasForwardEdge(msg.in[n], p)
    BY <1>2, <1>3, <1>8, <2>2, EnteredBehind
  <2> QED BY <1>2, <2>1, <2>2
<1>13. MetHavePredecessor'
  <2>1. \A n \in DOMAIN ctxMap' : HasPredecessor(n)'
    BY <1>6, <1>8
  <2>2. ASSUME NEW j \in 1..Len(processing')
        PROVE  /\ processing'[j] = Entry \/ Len(ForwardEdges(msg.in[processing'[j]])) > 0
               /\ processing'[j] = Entry \/ processing'[j] \in DOMAIN ctxMap'
    <3>1. PICK n \in Node : n = processing'[j]
      BY <1>4
    <3>2. CASE \E i \in 1..Len(rest) : rest[i] = n
      <4>1. PICK i \in 1..Len(rest) : rest[i] = n
        BY <3>2
      <4>2. i \in 1..Len(processing) /\ processing[i] = n
        BY <1>1, <1>3, <4>1
      <4>3. HasPredecessor(n) /\ (n = Entry \/ n \in DOMAIN ctxMap)
        BY <1>1, <4>2 DEF MetHavePredecessor
      <4> QED BY <1>2, <3>1, <4>3 DEF HasPredecessor, Predecessors
    <3>3. CASE HasForwardEdge(msg.in[n], p)
      BY <1>2, <1>7, <3>1, <3>3 DEF HasPredecessor, Predecessors
    <3> QED BY <1>4, <3>1, <3>2, <3>3
  <2>3. msg' = msg
    BY <1>1
  <2> QED BY <2>1, <2>2, <2>3 DEF MetHavePredecessor, HasPredecessor, Predecessors
<1>14. ReadyIsPending'
  <2> SUFFICES ASSUME NEW n \in Node \ {Exit}, isPredecessorMemStateKnown(n)',
                      HasPredecessor(n)', n \notin DOMAIN state_map'
               PROVE  \E i \in 1..Len(processing') : processing'[i] = n
    BY DEF ReadyIsPending
  <2>1. n # p /\ n \notin DOMAIN state_map /\ HasPredecessor(n)
    BY <1>2, <1>6
  <2>2. CASE isPredecessorMemStateKnown(n)
    <3>1. PICK i \in 1..Len(processing) : processing[i] = n
      BY <1>1, <2>1, <2>2 DEF ReadyIsPending
    <3>2. i # Len(processing)
      BY <1>3, <2>1, <3>1
    <3>3. i \in 1..Len(rest) /\ rest[i] = n
      BY <1>1, <1>3, <3>1, <3>2
    <3> QED BY <1>4, <3>3
  <2>3. CASE ~isPredecessorMemStateKnown(n)
    <3>1. PICK i \in 1..Len(Predecessors(n)) : Predecessors(n)[i] \notin DOMAIN state_map
      BY <2>3 DEF isPredecessorMemStateKnown
    <3>2. Predecessors(n)[i] \in DOMAIN state_map' /\ Predecessors(n)[i] \in Node
      BY <1>6, <2>3, <3>1 DEF isPredecessorMemStateKnown
    <3>3. Predecessors(n)[i] = p
      BY <1>2, <3>1, <3>2
    <3>4. HasForwardEdge(msg.in[n], p)
      BY <1>1, <1>2, <3>1, <3>3, FlowFactsOf
    <3> QED BY <1>4, <3>4
  <2> QED BY <2>2, <2>3
<1>15. Finished'
  BY <1>1 DEF Finished
<1>16. /\ DOMAIN state_map' \subseteq DOMAIN ctxMap' /\ DOMAIN ctxMap' \subseteq Node
       /\ Exit \notin DOMAIN state_map'
  BY <1>1, <1>2
<1> QED BY <1>1, <1>4, <1>9, <1>10, <1>11, <1>12, <1>13, <1>14, <1>15, <1>16 DEF WInv

(* Every step keeps the invariant.                                         *)
LEMMA WNext == WInv /\ [Next]_vars => WInv'
<1> SUFFICES ASSUME WInv, [Next]_vars PROVE WInv'
  OBVIOUS
<1>1. CASE DropNode
  BY <1>1, DropInv
<1>2. CASE ProcessNode
  BY <1>2, ProcessInv
<1>3. CASE AssertionFails
  <2>1. /\ UNCHANGED <<msg, params, processing, state_map, ctxMap>>
        /\ phase' = "aborted"
    BY <1>3 DEF AssertionFails
  <2>2. Finished'
    BY <2>1 DEF Finished
  <2> QED BY <2>1, <2>2, StatesKept DEF WInv
<1>4. CASE CalculateMemPenalty
  <2>1. /\ UNCHANGED <<msg, params, processing, state_map, ctxMap>> /\ processing = << >>
        /\ \/ phase' = "aborted"
           \/ /\ phase' = "done"
              /\ ~\E n \in Node : PenaltyAsserts(n)
              /\ penalty' = [n \in Node |-> IF UpdateOf(n) = << >> THEN 0 ELSE DispCost(n)]
    BY <1>4 DEF CalculateMemPenalty
  <2>2. Finished'
    <3>1. \A n \in Node :
            /\ PenaltyAsserts(n)' <=> PenaltyAsserts(n)
            /\ UpdateOf(n)' = UpdateOf(n) /\ DispCost(n)' = DispCost(n)
      BY <2>1 DEF PenaltyAsserts, UpdateOf, DispCost, getContextForNode, isInAllSets, Holds
    <3>2. penalty' = [n \in Node |-> IF UpdateOf(n) = << >> THEN 0 ELSE DispCost(n)]
            => penalty' = [n \in Node |-> IF UpdateOf(n) = << >> THEN 0 ELSE DispCost(n)]'
      BY <3>1
    <3> QED BY <2>1, <3>1, <3>2 DEF Finished
  <2>3. phase' \in {"analyze", "done", "aborted"}
    BY <2>1
  <2> QED BY <2>1, <2>2, <2>3, StatesKept DEF WInv
<1>5. CASE UNCHANGED vars
  <2>1. UNCHANGED <<msg, params, processing, state_map, ctxMap, penalty, phase>>
    BY <1>5 DEF vars
  <2>2. Finished'
    BY <2>1 DEF WInv, Finished, PenaltyAsserts, UpdateOf, DispCost, getContextForNode,
                isInAllSets, Holds
  <2> QED BY <2>1, <2>2, StatesKept DEF WInv
<1> QED BY <1>1, <1>2, <1>3, <1>4, <1>5 DEF Next

(* The invariant holds at every step of the analysis.                      *)
THEOREM Invariance == Spec => []WInv
<1> QED BY WInit, WNext, PTL DEF Spec

(* A node keeps the states its predecessors leave, however the worklist    *)
(* was worked off.                                                         *)
THEOREM SolutionIsConsistent == Spec => []FlowConsistent
<1>1. WInv => FlowConsistent
  BY DEF WInv
<1> QED BY <1>1, Invariance, PTL

(* Every node is analysed in the chain of calls it was copied for, though  *)
(* the analysis keeps the context of its first visit.                      *)
THEOREM ContextsAreCallChains == Spec => []ContextsMatchCalls
<1>1. WInv => ContextsMatchCalls
  BY DEF WInv
<1> QED BY <1>1, Invariance, PTL

-----------------------------------------------------------------------------
(***************************************************************************)
(* The worklist implements the abstract analysis.                          *)
(***************************************************************************)

(* A node is solved once it is in the state map; a failed assertion ends   *)
(* nothing, the abstract analysis just goes on no further.                 *)
preds == [n \in Node |-> {m \in Node : HasForwardEdge(msg.in[n], m)}]

FA == INSTANCE ForwardAnalysis WITH
        solved <- DOMAIN state_map, ended <- (phase = "done")

(* The conditions of the code in terms of the abstract analysis.           *)
LEMMA KnownIsSolved ==
  ASSUME msg \in MSGs, NEW n \in Node
  PROVE  /\ isPredecessorMemStateKnown(n) <=> preds[n] \subseteq DOMAIN state_map
         /\ HasPredecessor(n) <=> n = Entry \/ preds[n] # {}
<1>1. Predecessors(n) \in Seq(Node) /\ Len(Predecessors(n)) \in Nat
  BY FlowFactsOf
<1>2. \A m \in Node : m \in preds[n] <=> \E i \in 1..Len(Predecessors(n)) : Predecessors(n)[i] = m
  BY FlowFactsOf DEF preds
<1>3. \A i \in 1..Len(Predecessors(n)) : Predecessors(n)[i] \in preds[n]
  BY <1>1, <1>2
<1>4. preds[n] \subseteq Node
  BY DEF preds
<1>5. Len(Predecessors(n)) > 0 <=> preds[n] # {}
  <2>1. Len(Predecessors(n)) > 0 => Predecessors(n)[1] \in preds[n]
    BY <1>1, <1>3
  <2>2. preds[n] # {} => Len(Predecessors(n)) > 0
    BY <1>1, <1>2, <1>4
  <2> QED BY <2>1, <2>2
<1>6. n = Entry => preds[n] = {}
  BY FlowFactsOf DEF preds
<1>7. (\A i \in 1..Len(Predecessors(n)) : Predecessors(n)[i] \in DOMAIN state_map)
        <=> preds[n] \subseteq DOMAIN state_map
  BY <1>1, <1>2, <1>3, <1>4
<1> QED BY <1>5, <1>6, <1>7 DEF isPredecessorMemStateKnown, HasPredecessor

(* The analysis starts where the abstract one does.                        *)
LEMMA InitRefines == Init => FA!Init
<1> SUFFICES ASSUME Init PROVE FA!Init
  OBVIOUS
<1>1. preds \in [Node -> SUBSET Node]
  BY DEF preds
<1>2. DOMAIN state_map = {} /\ (phase = "done") = FALSE
  BY DEF Init
<1> QED BY <1>1, <1>2 DEF FA!Init

(* Processing solves a node that can be solved.                            *)
LEMMA ProcessSolves ==
  ASSUME WInv, ProcessNode
  PROVE  FA!Solve(Actual) /\ Actual \in Node
<1>1. /\ msg \in MSGs /\ msg' = msg /\ phase' = phase /\ phase = "analyze"
  BY DEF ProcessNode, WInv
<1>2. /\ Actual \in Node \ {Exit} /\ HasPredecessor(Actual)
      /\ Actual \notin DOMAIN state_map /\ isPredecessorMemStateKnown(Actual)
      /\ DOMAIN state_map' = DOMAIN state_map \cup {Actual}
  BY ProcessEffect
<1>3. preds[Actual] \subseteq DOMAIN state_map /\ (Actual = Entry \/ preds[Actual] # {})
  BY <1>1, <1>2, KnownIsSolved
<1>4. FA!Solvable(Actual)
  BY <1>2, <1>3 DEF FA!Solvable
<1>5. preds' = preds /\ (phase = "done")' = (phase = "done") /\ phase # "done"
  BY <1>1 DEF preds
<1> QED BY <1>2, <1>4, <1>5 DEF FA!Solve

(* Nothing is left to solve when the penalties are calculated.             *)
LEMMA CalculationEnds ==
  ASSUME WInv, CalculateMemPenalty, phase' = "done"
  PROVE  FA!End
<1>1. /\ msg \in MSGs /\ msg' = msg /\ state_map' = state_map /\ processing = << >>
      /\ phase = "analyze" /\ processing \in Seq(Node)
  BY DEF CalculateMemPenalty, WInv
<1>2. ASSUME NEW n \in Node, FA!Solvable(n) PROVE FALSE
  <2>1. /\ n # Exit /\ n \notin DOMAIN state_map
        /\ n = Entry \/ preds[n] # {}
        /\ preds[n] \subseteq DOMAIN state_map
    BY <1>2 DEF FA!Solvable
  <2>2. isPredecessorMemStateKnown(n) /\ HasPredecessor(n)
    BY <1>1, <2>1, KnownIsSolved
  <2>3. \E i \in 1..Len(processing) : processing[i] = n
    BY <2>1, <2>2 DEF WInv, ReadyIsPending
  <2> QED BY <1>1, <2>3
<1>3. preds' = preds
  BY <1>1 DEF preds
<1> QED BY <1>1, <1>2, <1>3 DEF FA!End

(* Every step solves a node that can be solved, ends the abstract analysis *)
(* when nothing is left to solve, or stutters.                             *)
LEMMA NextRefines == WInv /\ [Next]_vars => [FA!Next]_FA!absVars
<1> SUFFICES ASSUME WInv, [Next]_vars PROVE [FA!Next]_FA!absVars
  OBVIOUS
<1> DEFINE Same == /\ preds' = preds /\ DOMAIN state_map' = DOMAIN state_map
                   /\ (phase = "done")' = (phase = "done")
<1>1. Same => UNCHANGED FA!absVars
  BY DEF FA!absVars
<1>2. CASE DropNode
  <2>1. Same
    BY <1>2 DEF DropNode, preds
  <2> QED BY <1>1, <2>1
<1>3. CASE ProcessNode
  BY <1>3, ProcessSolves DEF FA!Next
<1>4. CASE AssertionFails
  <2>1. Same
    BY <1>4 DEF AssertionFails, preds
  <2> QED BY <1>1, <2>1
<1>5. CASE CalculateMemPenalty
  <2>1. CASE phase' = "done"
    BY <1>5, <2>1, CalculationEnds DEF FA!Next
  <2>2. CASE phase' # "done"
    <3>1. Same
      BY <1>5, <2>2 DEF CalculateMemPenalty, preds
    <3> QED BY <1>1, <3>1
  <2> QED BY <2>1, <2>2
<1>6. CASE UNCHANGED vars
  <2>1. Same
    BY <1>6 DEF vars, preds
  <2> QED BY <1>1, <2>1
<1> QED BY <1>2, <1>3, <1>4, <1>5, <1>6 DEF Next

(* Every run of the map based analysis of the D-ISP is a run of the        *)
(* abstract analysis: a node is solved once, behind its predecessors, and  *)
(* results are put on the graph only if no node is left out.               *)
THEOREM Refinement == Spec => FA!Spec
<1> QED BY InitRefines, NextRefines, Invariance, PTL DEF Spec, FA!Spec

-----------------------------------------------------------------------------
(***************************************************************************)
(* Every node is processed exactly once.                                   *)
(***************************************************************************)

(* The node that comes first among the unsolved ones would be ready, so    *)
(* there is no unsolved one at the end.                                    *)
LEMMA AllAnalyzed ==
  ASSUME WInv, processing = << >>, ForwardConnected(msg), ForwardAcyclic(msg)
  PROVE  Node \ {Exit} \subseteq DOMAIN state_map
<1> SUFFICES ASSUME NEW x \in Node \ {Exit}, x \notin DOMAIN state_map
             PROVE  FALSE
  OBVIOUS
<1> DEFINE unsolved == {n \in Node \ {Exit} : n \notin DOMAIN state_map}
<1>1. msg \in MSGs /\ processing = << >> /\ unsolved \in (SUBSET Node) \ {{}}
  BY DEF WInv
<1>2. PICK n \in unsolved : \A m \in unsolved : ~HasForwardEdge(msg.in[n], m)
  BY <1>1 DEF ForwardAcyclic
<1>3. n \in Node \ {Exit} /\ n \notin DOMAIN state_map
  BY <1>2
<1>4. ASSUME NEW m \in Node, HasForwardEdge(msg.in[n], m) PROVE m \in DOMAIN state_map
  <2>1. m # Exit
    BY <1>1, <1>3, <1>4, FlowFactsOf
  <2> QED BY <1>2, <1>4, <2>1
<1>5. isPredecessorMemStateKnown(n)
  <2>1. ASSUME NEW i \in 1..Len(Predecessors(n)) PROVE Predecessors(n)[i] \in DOMAIN state_map
    <3>1. Predecessors(n)[i] \in Node
      BY <1>1, <1>3, FlowFactsOf
    <3>2. HasForwardEdge(msg.in[n], Predecessors(n)[i])
      BY <1>1, <1>3, <3>1, FlowFactsOf
    <3> QED BY <1>4, <3>1, <3>2
  <2> QED BY <2>1 DEF isPredecessorMemStateKnown
<1>6. HasPredecessor(n)
  <2> SUFFICES ASSUME n # Entry PROVE Len(Predecessors(n)) > 0
    BY DEF HasPredecessor
  <2>1. PICK m \in Node : HasForwardEdge(msg.in[n], m)
    BY <1>3 DEF ForwardConnected
  <2> QED BY <1>1, <1>3, <2>1, OnlyPredecessor
<1>7. \E i \in 1..Len(processing) : processing[i] = n
  BY <1>3, <1>5, <1>6 DEF WInv, ReadyIsPending
<1> QED BY <1>1, <1>7

(* A node on the worklist is not reached from what lies above it, and has  *)
(* no states yet.                                                          *)
Separated ==
  /\ \A i, j \in 1..Len(processing) :
       i < j => NeverReaches(msg, processing[j], processing[i])
  /\ \A i \in 1..Len(processing) : processing[i] \notin DOMAIN state_map

(* What is pushed is reached from the popped node, so it reaches nothing   *)
(* the popped node does not.                                               *)
LEMMA NeverReachesOn ==
  ASSUME NEW g, NEW n \in Node, NEW m, NEW k \in Node, HasForwardEdge(g.out[n], k),
         NeverReaches(g, n, m)
  PROVE  NeverReaches(g, k, m)
BY DEF NeverReaches

(* A popped node is on top; the others stay separated.                     *)
LEMMA DropSeparated ==
  ASSUME WInv, Separated, DropNode
  PROVE  Separated'
<1>1. /\ processing # << >> /\ msg \in MSGs /\ processing \in Seq(Node)
      /\ processing' = Front(processing) /\ msg' = msg /\ state_map' = state_map
  BY DEF DropNode, WInv
<1>2. /\ Len(processing') = Len(processing) - 1
      /\ \A i \in 1..Len(processing') : processing'[i] = processing[i] /\ i \in 1..Len(processing)
  BY <1>1, ActualFacts
<1> QED BY <1>1, <1>2 DEF Separated

(* The successors of a node take its place on top.                         *)
LEMMA ProcessSeparated ==
  ASSUME WInv, Separated, StepsBeforeJumps(msg), ProcessNode
  PROVE  Separated'
<1> DEFINE p == Actual
           rest == Front(processing)
           pushed == ForwardEdges(msg.out[p])
           n == Len(processing)
<1>1. /\ processing # << >> /\ msg \in MSGs /\ processing \in Seq(Node)
      /\ msg' = msg /\ FlowConsistent
      /\ processing' = rest \o pushed
  BY DEF ProcessNode, WInv
<1>2. /\ p \in Node /\ n \in Nat \ {0} /\ p = processing[n]
      /\ rest \in Seq(Node) /\ Len(rest) = n - 1
      /\ \A i \in 1..Len(rest) : rest[i] = processing[i] /\ i \in 1..n
  BY <1>1, ActualFacts
<1>3. p \notin DOMAIN state_map /\ DOMAIN state_map' = DOMAIN state_map \cup {p}
  BY ProcessEffect
<1>4. /\ pushed \in Seq(Node)
      /\ \A i \in 1..Len(pushed) :
           /\ pushed[i] \in Node
           /\ HasForwardEdge(msg.in[pushed[i]], p)
           /\ HasForwardEdge(msg.out[p], pushed[i])
  <2>1. pushed \in Seq(Node)
    BY <1>1, <1>2, FlowFactsOf
  <2>2. \A i \in 1..Len(pushed) : pushed[i] \in Node /\ HasForwardEdge(msg.in[pushed[i]], p)
    <3> TAKE i \in 1..Len(pushed)
    <3>1. pushed[i] \in Node
      BY <2>1
    <3>2. \A k \in Node : (\E j \in 1..Len(pushed) : pushed[j] = k) => HasForwardEdge(msg.in[k], p)
      BY <1>1, <1>2, FlowFactsOf
    <3> QED BY <3>1, <3>2
  <2>3. \A k \in Node : HasForwardEdge(msg.in[k], p) => HasForwardEdge(msg.out[p], k)
    BY <1>1, <1>2, FlowFactsOf
  <2> QED BY <2>1, <2>2, <2>3
<1>5. \A i, j \in 1..Len(pushed) :
        i < j => NeverReaches(msg, pushed[j], pushed[i])
  BY <1>2 DEF StepsBeforeJumps
<1>6. \A i \in 1..Len(rest) :
        /\ NeverReaches(msg, p, rest[i])
        /\ \A j \in 1..Len(pushed) : NeverReaches(msg, pushed[j], rest[i])
        /\ \A j \in 1..Len(rest) : i < j => NeverReaches(msg, rest[j], rest[i])
        /\ rest[i] \notin DOMAIN state_map
        /\ rest[i] \in Node
  <2> TAKE i \in 1..Len(rest)
  <2>1. NeverReaches(msg, p, rest[i])
    <3>1. i \in 1..n /\ n \in 1..n /\ i < n
      BY <1>2
    <3> QED BY <1>2, <3>1 DEF Separated
  <2>2. \A j \in 1..Len(pushed) : NeverReaches(msg, pushed[j], rest[i])
    BY <1>2, <1>4, <2>1, NeverReachesOn
  <2>3. \A j \in 1..Len(rest) : i < j => NeverReaches(msg, rest[j], rest[i])
    BY <1>2 DEF Separated
  <2>4. rest[i] \notin DOMAIN state_map /\ rest[i] \in Node
    BY <1>2 DEF Separated
  <2> QED BY <2>1, <2>2, <2>3, <2>4
<1>7. \A i \in 1..Len(rest) : rest[i] # p
  BY <1>6 DEF NeverReaches
<1>8. ASSUME NEW i \in 1..Len(pushed) PROVE pushed[i] \notin DOMAIN state_map /\ pushed[i] # p
  <2> DEFINE m == pushed[i]
  <2>1. m \in Node /\ HasForwardEdge(msg.in[m], p) /\ isPredecessorMemStateKnown(p)
    BY <1>4, ProcessEffect
  <2> HIDE DEF m, p
  <2>2. m # p
    BY <1>1, <1>2, <1>3, <2>1, KnownPredecessors
  <2>3. ASSUME m \in DOMAIN state_map PROVE FALSE
    <3>1. isPredecessorMemStateKnown(m)
      BY <1>1, <2>3 DEF FlowConsistent
    <3> QED BY <1>1, <1>2, <1>3, <2>1, <3>1, KnownPredecessors
  <2> QED BY <2>2, <2>3 DEF m
<1> HIDE DEF p, rest, pushed, n
<1>9. /\ Len(rest) \in Nat /\ Len(pushed) \in Nat
      /\ Len(processing') = Len(rest) + Len(pushed)
      /\ \A i \in 1..Len(processing') :
           /\ i <= Len(rest) => i \in 1..Len(rest) /\ processing'[i] = rest[i]
           /\ i > Len(rest) => /\ i - Len(rest) \in 1..Len(pushed)
                              /\ processing'[i] = pushed[i - Len(rest)]
  BY <1>1, <1>2, <1>4
<1>10. ASSUME NEW i \in 1..Len(processing'), NEW j \in 1..Len(processing'), i < j
       PROVE  NeverReaches(msg, processing'[j], processing'[i])
  <2>1. CASE j <= Len(rest)
    BY <1>6, <1>9, <1>10, <2>1
  <2>2. CASE i <= Len(rest) /\ j > Len(rest)
    BY <1>6, <1>9, <2>2
  <2>3. CASE i > Len(rest)
    <3>1. /\ i - Len(rest) \in 1..Len(pushed) /\ j - Len(rest) \in 1..Len(pushed)
          /\ i - Len(rest) < j - Len(rest)
          /\ processing'[i] = pushed[i - Len(rest)] /\ processing'[j] = pushed[j - Len(rest)]
      BY <1>9, <1>10, <2>3
    <3> QED BY <1>5, <3>1
  <2> QED BY <1>9, <2>1, <2>2, <2>3
<1>11. ASSUME NEW i \in 1..Len(processing') PROVE processing'[i] \notin DOMAIN state_map'
  <2>1. CASE i <= Len(rest)
    BY <1>3, <1>6, <1>7, <1>9, <2>1
  <2>2. CASE i > Len(rest)
    <3>1. PICK k \in 1..Len(pushed) : processing'[i] = pushed[k]
      BY <1>9, <2>2
    <3>2. pushed[k] \in Node \ {p} /\ pushed[k] \notin DOMAIN state_map
      BY <1>4, <1>8
    <3> QED BY <1>3, <3>1, <3>2
  <2> QED BY <1>9, <2>1, <2>2
<1> QED BY <1>1, <1>10, <1>11 DEF Separated


-----------------------------------------------------------------------------
(***************************************************************************)
(* The states of a stack memory.                                           *)
(***************************************************************************)

(* The parameters of a stack memory whose positions fit into 16 bits, and  *)
(* the graph of a program none of whose functions fills it.                *)
RingConditions == params.rpol = "STACK" /\ IsRingSize(params) /\ ~FillsRing

NothingTooLarge == \A f \in Function : Called(f) => ~IsTooLarge(params, f)

(* Behind the entry of the program there always is a function in the       *)
(* memory, no two functions are at one place, and the function that is     *)
(* active is in it.                                                        *)
IsStateOf(n, content) ==
  /\ IsRing(params, content)
  /\ content # << >>
  /\ NothingTooLarge => StackIsInState(content, Top(msg.context[n]))

RingsAt(n) ==
  n # Entry =>
    state_map[n] # {} /\ \A content \in state_map[n] : IsStateOf(n, content)

RingInv == RingConditions => \A n \in DOMAIN state_map : RingsAt(n)

(* The function an update activates was called, and so was the one active  *)
(* before.                                                                 *)
LEMMA UpdateIsCalled ==
  ASSUME WInv, NEW n \in Node, n \in DOMAIN ctxMap \/ n = Entry, Update(n) # << >>
  PROVE  Called(Update(n)[1].func)
<1> DEFINE c == msg.context[n]
<1>1. msg \in MSGs /\ c \in Seq(Function)
  BY GraphFacts DEF WInv
<1>2. CASE msg.type[n] = "Entry"
  BY <1>2 DEF Update, Called
<1>3. CASE msg.type[n] # "Entry"
  <2>1. Pop(c) # << >> /\ Update(n)[1].func = Top(Pop(c))
    BY <1>3 DEF Update
  <2>2. Len(c) - 1 \in 1..Len(c) /\ Top(Pop(c)) = c[Len(c) - 1]
    <3> HIDE DEF c
    <3> QED BY <1>1, <2>1, BelowTop
  <2>3. Called(c[Len(c) - 1])
    BY <2>2, EnteredBehind
  <2> QED BY <2>1, <2>2, <2>3
<1> QED BY <1>2, <1>3

(* The states before an update: only the entry of the program has none.    *)
LEMMA StatesBefore ==
  ASSUME WInv, RingConditions, NEW n \in Node, n \in DOMAIN state_map, RingsAt(n),
         NEW content \in Contents(state_map[n])
  PROVE  /\ IsRing(params, content)
         /\ n = Entry => content = << >>
         /\ n # Entry => IsStateOf(n, content) /\ content \in state_map[n]
<1>1. CASE n = Entry
  <2>1. state_map[n] = {}
    BY <1>1 DEF WInv, FlowConsistent, InitialStates
  <2>2. content = << >>
    BY <2>1 DEF Contents
  <2>3. IsRing(params, << >>)
    BY DEF IsRing, AllApart, Entries
  <2> QED BY <1>1, <2>2, <2>3
<1>2. CASE n # Entry
  BY <1>2 DEF RingsAt, Contents, IsStateOf
<1> QED BY <1>1, <1>2

(* An update that does not fail leaves a ring with the active function.    *)
LEMMA UpdateKeepsRing ==
  ASSUME WInv, RingConditions, NEW n \in Node, n \in DOMAIN state_map, RingsAt(n),
         Update(n) # << >>,
         NEW content \in Contents(state_map[n])
  PROVE  LET u == Update(n)[1]
             fails == StackAsserts(params, content, u.func, u.act, u.previous)
         IN  /\ ~IsTooLarge(params, u.func) /\ ~fails =>
                  /\ IsRing(params, Activate(content, u))
                  /\ Activate(content, u) # << >>
                  /\ StackIsInState(Activate(content, u), u.func)
             /\ IsTooLarge(params, u.func) => Activate(content, u) = content
             /\ NothingTooLarge => ~IsTooLarge(params, u.func) /\ ~fails
<1> DEFINE u == Update(n)[1]
           fails == StackAsserts(params, content, u.func, u.act, u.previous)
<1>1. /\ msg \in MSGs /\ u.func \in Function /\ u.act \in {"CALL", "RETURN"}
      /\ u.previous = Top(msg.context[n]) /\ (n = Entry => u.act = "CALL")
  BY UpdateFacts DEF WInv
<1>2. /\ IsRing(params, content) /\ (n = Entry => content = << >>)
      /\ (n # Entry /\ NothingTooLarge => StackIsInState(content, Top(msg.context[n])))
  BY StatesBefore DEF IsStateOf
<1>3. Called(u.func)
  BY UpdateIsCalled DEF WInv
<1>4. /\ Activate(content, u) = StackActivate(params, content, u.func, u.act, u.previous)
      /\ IsRingSize(params) /\ Size(u.func) # params.size
      /\ IsTooLarge(params, u.func) <=> Size(u.func) > params.size
  BY <1>1, <1>3 DEF RingConditions, Activate, FillsRing, Size, IsTooLarge
<1> HIDE DEF u
<1>5. IsTooLarge(params, u.func) => Activate(content, u) = content
  BY <1>4 DEF StackActivate, Size
<1>6. NothingTooLarge => ~NeighbourAsserts(content, u.act, u.previous)
  BY <1>1, <1>2 DEF NeighbourAsserts
<1>7. NothingTooLarge => ~IsTooLarge(params, u.func)
  BY <1>1, <1>3 DEF NothingTooLarge
<1>8. ASSUME ~IsTooLarge(params, u.func) PROVE Size(u.func) < params.size
  BY <1>1, <1>4, <1>8, SizePositive DEF Size, IsRingSize
<1>9. ASSUME ~IsTooLarge(params, u.func),
             StackIsInState(content, u.func) \/ ~NeighbourAsserts(content, u.act, u.previous)
      PROVE  /\ ~fails
             /\ IsRing(params, Activate(content, u))
             /\ Activate(content, u) # << >>
             /\ StackIsInState(Activate(content, u), u.func)
  BY <1>1, <1>2, <1>4, <1>8, <1>9, ActiveIsInRing
<1>10. ~fails => StackIsInState(content, u.func) \/ ~NeighbourAsserts(content, u.act, u.previous)
  BY DEF StackAsserts
<1> HIDE DEF fails
<1>11. /\ ~IsTooLarge(params, u.func) /\ ~fails =>
            /\ IsRing(params, Activate(content, u))
            /\ Activate(content, u) # << >>
            /\ StackIsInState(Activate(content, u), u.func)
       /\ NothingTooLarge => ~IsTooLarge(params, u.func) /\ ~fails
  BY <1>6, <1>7, <1>9, <1>10
<1> QED BY <1>5, <1>11 DEF u, fails

(* The first function of every state moves to position 0.                  *)
LEMMA NormalizeKeepsState ==
  ASSUME RingConditions, NEW n \in Node, NEW content, IsStateOf(n, content)
  PROVE  IsStateOf(n, normalize(params, content))
BY NormalizeTurns DEF RingConditions, IsStateOf

(* The first states of a node are rings if those of its predecessors are.  *)
LEMMA InitialRings ==
  ASSUME WInv, RingInv, RingConditions,
         NEW n \in Node, n # Entry, HasPredecessor(n), isPredecessorMemStateKnown(n),
         \A m \in Node : HasForwardEdge(msg.in[n], m) /\ Update(m) # << >> =>
           /\ ~UpdateAsserts(state_map[m], Update(m)[1])
           /\ ~NormalizeCrashes(Activated(state_map[m], Update(m)[1]))
  PROVE  /\ InitialStates(n) # {}
         /\ \A content \in InitialStates(n) : IsStateOf(n, content)
<1> DEFINE pred == Predecessors(n)
<1>1. msg \in MSGs /\ pred \in Seq(Node) /\ Len(pred) > 0 /\ params.rpol = "STACK"
  BY FlowFactsOf DEF WInv, HasPredecessor, RingConditions
<1>2. \A i \in 1..Len(pred) :
        /\ pred[i] \in Node /\ HasForwardEdge(msg.in[n], pred[i])
        /\ pred[i] \in DOMAIN state_map /\ RingsAt(pred[i])
  <2> TAKE i \in 1..Len(pred)
  <2>1. pred[i] \in Node /\ pred[i] \in DOMAIN state_map
    BY <1>1 DEF isPredecessorMemStateKnown
  <2>2. HasForwardEdge(msg.in[n], pred[i])
    BY <1>1, <2>1, FlowFactsOf
  <2> QED BY <2>1, <2>2 DEF RingInv
<1>3. ASSUME NEW m \in Node, HasForwardEdge(msg.in[n], m), Update(m) = << >>
      PROVE  m # Entry /\ msg.context[m] = msg.context[n]
  <2>1. msg.context[n] = ContextAfter(msg, m, msg.context[m])
    BY <1>1, <1>3, ForwardContext
  <2>2. m # Entry
    BY <1>1, <1>3, GraphFacts DEF Update
  <2>3. Pop(msg.context[m]) = << >> => msg.type[m] # "Exit"
    <3>1. msg.context[n] # << >>
      BY <1>1, GraphFacts
    <3> QED BY <2>1, <3>1 DEF ContextAfter
  <2> QED BY <1>3, <2>1, <2>2, <2>3 DEF ContextAfter, Update
<1>4. CASE Len(pred) > 1
  <2>1. \A i \in 1..Len(pred) : Update(pred[i]) = << >>
    <3> TAKE i \in 1..Len(pred)
    <3>1. msg.type[pred[i]] = "Other"
      BY <1>1, <1>2, <1>4, OnlyPredecessor
    <3> QED BY <1>1, <1>2, <3>1, UpdateFacts
  <2> DEFINE joined == UNION {state_map[pred[i]] : i \in 1..Len(pred)}
  <2>2. InitialStates(n) = {normalize(params, content) : content \in joined}
    BY <1>1, <1>4 DEF InitialStates, JoinedStates, removeDuplicates
  <2>3. 1 \in 1..Len(pred)
    BY <1>1, <1>4
  <2> HIDE DEF pred
  <2>4. \A i \in 1..Len(pred) :
          /\ state_map[pred[i]] # {}
          /\ \A content \in state_map[pred[i]] : IsStateOf(n, content)
    BY <1>2, <1>3, <2>1 DEF RingsAt, IsStateOf
  <2>5. joined # {} /\ \A content \in joined : IsStateOf(n, content)
    BY <2>3, <2>4
  <2> HIDE DEF joined
  <2>6. \A content \in joined : IsStateOf(n, normalize(params, content))
    BY <2>5, NormalizeKeepsState
  <2> QED BY <2>2, <2>5, <2>6
<1>5. CASE ~(Len(pred) > 1)
  <2> DEFINE m == pred[1]
  <2>1. /\ m \in Node /\ HasForwardEdge(msg.in[n], m) /\ m \in DOMAIN state_map /\ RingsAt(m)
        /\ m \in DOMAIN ctxMap
    <3>1. 1 \in 1..Len(pred)
      BY <1>1
    <3> QED BY <1>2, <3>1 DEF WInv
  <2>2. InitialStates(n) = StatesBehind(m)
    <3>1. Len(pred) <= 1
      BY <1>1, <1>5
    <3> QED BY <3>1 DEF InitialStates
  <2> HIDE DEF m
  <2>3. UpdateOf(m) = Update(m)
    BY <1>1, <2>1, UpdateOfMet DEF WInv
  <2>4. CASE Update(m) = << >>
    <3>1. InitialStates(n) = state_map[m]
      BY <2>2, <2>3, <2>4 DEF StatesBehind
    <3>2. m # Entry /\ msg.context[m] = msg.context[n]
      BY <1>3, <2>1, <2>4
    <3> QED BY <2>1, <3>1, <3>2 DEF RingsAt, IsStateOf
  <2>5. CASE Update(m) # << >>
    <3> DEFINE u == Update(m)[1]
    <3>1. InitialStates(n) =
            {normalize(params, content) : content \in Activated(state_map[m], u)}
      BY <1>1, <2>2, <2>3, <2>5 DEF StatesBehind, removeDuplicates
    <3>2. ~UpdateAsserts(state_map[m], u) /\ ~NormalizeCrashes(Activated(state_map[m], u))
      BY <2>1, <2>5
    <3>3. Top(msg.context[n]) = u.func
      BY <1>1, <2>1, <2>5, ForwardContext, UpdateFacts
    <3>4. Contents(state_map[m]) # {}
      BY DEF Contents
    <3>5. ASSUME NEW content \in Contents(state_map[m])
          PROVE  IsStateOf(n, Activate(content, u))
      <4> DEFINE fails == StackAsserts(params, content, u.func, u.act, u.previous)
                 after == Activate(content, u)
      <4>1. ~IsTooLarge(params, u.func) => ~fails
        BY <1>1, <3>2 DEF UpdateAsserts
      <4>2. /\ ~IsTooLarge(params, u.func) /\ ~fails =>
                  /\ IsRing(params, after) /\ after # << >>
                  /\ StackIsInState(after, u.func)
            /\ IsTooLarge(params, u.func) => after = content
            /\ NothingTooLarge => ~IsTooLarge(params, u.func)
        BY <2>1, <2>5, UpdateKeepsRing
      <4>3. IsRing(params, content)
        BY <2>1, StatesBefore
      <4>4. after # << >>
        BY <1>1, <3>2 DEF NormalizeCrashes, Activated
      <4> HIDE DEF fails, after, u
      <4>5. IsStateOf(n, after)
        BY <3>3, <4>1, <4>2, <4>3, <4>4 DEF IsStateOf
      <4> QED BY <4>5 DEF after
    <3> HIDE DEF u
    <3>6. /\ Activated(state_map[m], u) # {}
          /\ \A content \in Activated(state_map[m], u) : IsStateOf(n, content)
      BY <3>4, <3>5 DEF Activated
    <3>7. \A content \in Activated(state_map[m], u) : IsStateOf(n, normalize(params, content))
      BY <3>6, NormalizeKeepsState
    <3> QED BY <3>1, <3>6, <3>7
  <2> QED BY <2>4, <2>5
<1> QED BY <1>4, <1>5

(* Processing a node keeps all states rings.                               *)
LEMMA ProcessRings ==
  ASSUME WInv, RingInv, ProcessNode
  PROVE  RingInv'
<1>1. /\ msg' = msg /\ params' = params /\ ~NodeAsserts(Actual)
  BY DEF ProcessNode
<1>2. /\ Actual \in Node \ {Exit} /\ HasPredecessor(Actual)
      /\ isPredecessorMemStateKnown(Actual)
      /\ DOMAIN state_map' = DOMAIN state_map \cup {Actual}
      /\ state_map'[Actual] = InitialStates(Actual)
      /\ \A n \in DOMAIN state_map : state_map'[n] = state_map[n]
  BY ProcessEffect
<1> SUFFICES ASSUME RingConditions, NEW n \in DOMAIN state_map', n # Entry
             PROVE  /\ state_map'[n] # {}
                    /\ \A content \in state_map'[n] : IsStateOf(n, content)
  <2>1. RingConditions' <=> RingConditions
    BY <1>1 DEF RingConditions, FillsRing, Called
  <2>2. \A n, content : IsStateOf(n, content)' <=> IsStateOf(n, content)
    BY <1>1 DEF IsStateOf, NothingTooLarge, Called
  <2> QED BY <2>1, <2>2 DEF RingInv, RingsAt
<1>3. CASE n \in DOMAIN state_map
  BY <1>2, <1>3 DEF RingInv, RingsAt
<1>4. CASE n = Actual
  <2>1. \A m \in Node : HasForwardEdge(msg.in[n], m) /\ Update(m) # << >> =>
          /\ ~UpdateAsserts(state_map[m], Update(m)[1])
          /\ ~NormalizeCrashes(Activated(state_map[m], Update(m)[1]))
    BY <1>1, <1>2, <1>4, PassedUpdate
  <2>2. n \in Node /\ HasPredecessor(n) /\ isPredecessorMemStateKnown(n)
    BY <1>2, <1>4
  <2>3. InitialStates(n) # {} /\ \A content \in InitialStates(n) : IsStateOf(n, content)
    BY <2>1, <2>2, InitialRings
  <2> QED BY <1>2, <1>4, <2>3
<1> QED BY <1>2, <1>3, <1>4

(* An assertion on the way to a node without states is one of the update.  *)
LEMMA NodeAssertions ==
  ASSUME WInv, processing # << >>, Processed, NodeAsserts(Actual),
         Actual \notin DOMAIN state_map
  PROVE  \E m \in DOMAIN state_map :
           /\ Update(m) # << >>
           /\ \/ UpdateAsserts(state_map[m], Update(m)[1])
              \/ NormalizeCrashes(Activated(state_map[m], Update(m)[1]))
<1> DEFINE n == Actual
           pred == Predecessors(n)
           m == pred[1]
<1>1. /\ msg \in MSGs /\ n \in Node /\ isPredecessorMemStateKnown(n) /\ HasPredecessor(n)
      /\ n = Entry \/ n \in DOMAIN ctxMap
  BY ActualFacts DEF WInv, Processed
<1>2. pred \in Seq(Node)
  BY <1>1, FlowFactsOf
<1>3. ~(Len(pred) > 1 /\ \E i \in 1..Len(pred) : msg.type[pred[i]] # "Other")
  <2> SUFFICES ASSUME NEW i \in 1..Len(pred), msg.type[pred[i]] # "Other" PROVE ~(Len(pred) > 1)
    OBVIOUS
  <2>1. Len(pred) = 1
    BY <1>1, GraphFacts
  <2> QED BY <2>1
<1>4. ~(msg.type[n] = "Exit" /\ getContextForNode(n) = << >>)
  <2>1. getContextForNode(n) = msg.context[n]
    BY <1>1, UpdateOfMet DEF WInv
  <2> QED BY <1>1, <2>1, GraphFacts
<1>5. /\ ~(n = Entry \/ Len(pred) # 1) /\ UpdateOf(m) # << >>
      /\ \/ UpdateAsserts(state_map[m], UpdateOf(m)[1])
         \/ NormalizeCrashes(Activated(state_map[m], UpdateOf(m)[1]))
  BY <1>3, <1>4 DEF NodeAsserts
<1>6. m \in Node /\ m \in DOMAIN state_map
  <2>1. 1 \in 1..Len(pred)
    BY <1>5
  <2> QED BY <1>1, <1>2, <1>5, <2>1 DEF isPredecessorMemStateKnown
<1>7. UpdateOf(m) = Update(m)
  BY <1>1, <1>6, UpdateOfMet DEF WInv
<1> QED BY <1>5, <1>6, <1>7

(* Only an exit node with two edges into it stops the calculation of the   *)
(* penalties.                                                              *)
LEMMA PenaltyAssertions ==
  ASSUME WInv, NEW n \in Node, PenaltyAsserts(n), n = Exit \/ n \in DOMAIN state_map
  PROVE  msg.type[n] = "Exit" /\ Len(msg.in[n]) > 1
<1>1. msg \in MSGs /\ ContextsMatchCalls
  BY DEF WInv
<1>2. n # Exit
  <2> SUFFICES ASSUME n = Exit PROVE FALSE
    OBVIOUS
  <2>1. Pop(getContextForNode(Exit)) = << >>
    BY <1>1, GraphFacts DEF getContextForNode, ContextsMatchCalls, Pop
  <2>2. UpdateOf(Exit) = << >>
    BY <1>1, <2>1, GraphFacts DEF UpdateOf
  <2> QED BY <2>2 DEF PenaltyAsserts
<1>3. msg.type[n] = "Exit" /\ Len(msg.in[n]) # 1 /\ n \in DOMAIN state_map
  BY <1>2 DEF PenaltyAsserts
<1>4. HasPredecessor(n) /\ n # Entry
  BY <1>1, <1>3, GraphFacts DEF WInv, MetHavePredecessor
<1>5. 1 \in 1..Len(Predecessors(n)) /\ Predecessors(n)[1] \in Node
  <2>1. Predecessors(n) \in Seq(Node) /\ Len(Predecessors(n)) > 0
    BY <1>1, <1>4, FlowFactsOf DEF HasPredecessor
  <2> QED BY <2>1
<1>6. HasForwardEdge(msg.in[n], Predecessors(n)[1])
  BY <1>1, <1>5, FlowFactsOf
<1>7. PICK i \in 1..Len(msg.in[n]) : msg.in[n][i].type # "BackwardJump"
  BY <1>6 DEF HasForwardEdge
<1>8. msg.in[n] \in Seq(Edges)
  BY <1>1, GraphFacts
<1>9. Len(msg.in[n]) \in Nat
  BY <1>8
<1>10. Len(msg.in[n]) # 0
  BY <1>7, <1>9
<1> DEFINE edges == Len(msg.in[n])
<1>11. edges \in Nat /\ edges # 0 /\ edges # 1
  BY <1>3, <1>9, <1>10
<1> HIDE DEF edges
<1>12. edges > 1
  BY <1>11
<1> QED BY <1>3, <1>12 DEF edges

(* A failing update is due to a function that is too large.                *)
LEMMA UpdateAssertions ==
  ASSUME WInv, RingInv, params.rpol = "STACK" => RingConditions,
         NEW m \in DOMAIN state_map, Update(m) # << >>,
         \/ UpdateAsserts(state_map[m], Update(m)[1])
         \/ NormalizeCrashes(Activated(state_map[m], Update(m)[1]))
  PROVE  /\ \E f \in Function : Called(f) /\ IsTooLarge(params, f)
         /\ ~params.ignore \/ params.rpol = "STACK"
<1> DEFINE u == Update(m)[1]
<1>1. /\ msg \in MSGs /\ m \in Node /\ m \in DOMAIN ctxMap /\ params.rpol \in {"FIFO", "STACK"}
  BY ParamsAssumption DEF WInv
<1>2. u.func \in Function /\ Called(u.func)
  BY <1>1, UpdateFacts, UpdateIsCalled
<1>3. CASE params.rpol = "FIFO"
  <2>1. UpdateAsserts(state_map[m], u)
    BY <1>3 DEF NormalizeCrashes
  <2>2. OutsizedAsserts(params, u.func)
    BY <1>3, <2>1 DEF UpdateAsserts
  <2> QED BY <1>2, <2>2 DEF OutsizedAsserts
<1>4. CASE params.rpol = "STACK"
  <2> SUFFICES ASSUME NothingTooLarge PROVE FALSE
    BY <1>4 DEF NothingTooLarge
  <2>1. RingsAt(m) /\ RingConditions
    BY <1>4 DEF RingInv
  <2>2. \A content \in Contents(state_map[m]) :
          /\ ~IsTooLarge(params, u.func)
          /\ ~StackAsserts(params, content, u.func, u.act, u.previous)
          /\ Activate(content, u) # << >>
    BY <1>1, <2>1, UpdateKeepsRing
  <2>3. ~UpdateAsserts(state_map[m], u)
    <3>1. Contents(state_map[m]) # {}
      BY DEF Contents
    <3> HIDE DEF u
    <3>2. ~IsTooLarge(params, u.func)
      BY <2>2, <3>1
    <3> QED BY <2>2, <3>2 DEF UpdateAsserts, OutsizedAsserts
  <2>4. ~NormalizeCrashes(Activated(state_map[m], u))
    BY <2>2 DEF NormalizeCrashes, Activated
  <2> QED BY <2>3, <2>4
<1> QED BY <1>1, <1>3, <1>4

-----------------------------------------------------------------------------
(***************************************************************************)
(* Which assertions can fail.                                              *)
(***************************************************************************)

(* What is assumed of the graphs: every node is entered by a forward edge, *)
(* these form no cycle, and no later successor of a node leads back to an  *)
(* earlier one; of the parameters: the positions of a ring fit into 16     *)
(* bits.                                                                   *)
OrderedGraphs ==
  \A g \in MSGs : ForwardConnected(g) /\ ForwardAcyclic(g) /\ StepsBeforeJumps(g)

RingsFit == \A p \in ParamSets : p.rpol = "STACK" => p.size <= PositionRange

AssertionsHoldIfRing == ~FillsRing => OtherAssertionsHold

OrderInv ==
  /\ WInv
  /\ RingInv
  /\ phase # "aborted" => Separated
  /\ AssertionsHoldIfRing

LEMMA RingConditionsHold ==
  ASSUME WInv, RingsFit, ~FillsRing, params.rpol = "STACK"
  PROVE  RingConditions
<1>1. params \in ParamSets
  BY DEF WInv
<1>2. params.size \in Nat \ {0} /\ params.size <= PositionRange
  BY <1>1, ParamsAssumption DEF RingsFit
<1> QED BY <1>2 DEF RingConditions, IsRingSize

(* The rings stay rings.                                                   *)
LEMMA RingNext ==
  ASSUME WInv, RingInv, [Next]_vars
  PROVE  RingInv'
<1>1. CASE ProcessNode
  BY <1>1, ProcessRings
<1>2. CASE ~ProcessNode
  <2>1. msg' = msg /\ params' = params /\ state_map' = state_map
    BY <1>2 DEF Next, vars, DropNode, AssertionFails, CalculateMemPenalty
  <2>2. (RingConditions' <=> RingConditions) /\ \A n \in DOMAIN state_map : RingsAt(n)' <=> RingsAt(n)
    BY <2>1 DEF RingConditions, FillsRing, Called, RingsAt, IsStateOf, NothingTooLarge
  <2> QED BY <2>1, <2>2 DEF RingInv
<1> QED BY <1>1, <1>2

LEMMA OrderNext ==
  ASSUME OrderedGraphs, RingsFit, OrderInv, [Next]_vars
  PROVE  OrderInv'
<1>1. WInv /\ WInv' /\ RingInv /\ RingInv'
  BY WNext, RingNext DEF OrderInv
<1>2. msg' = msg /\ params' = params
  BY DEF Next, vars, DropNode, ProcessNode, AssertionFails, CalculateMemPenalty
<1>3. StepsBeforeJumps(msg) /\ ForwardConnected(msg) /\ ForwardAcyclic(msg)
  BY <1>1 DEF OrderedGraphs, WInv
<1>4. (phase # "aborted" => Separated) /\ AssertionsHoldIfRing
  BY DEF OrderInv
<1>5. CASE DropNode
  <2>1. phase' = phase /\ phase # "aborted" /\ phase' # "aborted"
    BY <1>5 DEF DropNode
  <2> QED BY <1>1, <1>4, <1>5, <2>1, DropSeparated
          DEF OrderInv, AssertionsHoldIfRing, OtherAssertionsHold
<1>6. CASE ProcessNode
  <2>1. phase' = phase /\ phase # "aborted" /\ phase' # "aborted"
    BY <1>6 DEF ProcessNode
  <2> QED BY <1>1, <1>3, <1>4, <1>6, <2>1, ProcessSeparated
          DEF OrderInv, AssertionsHoldIfRing, OtherAssertionsHold
<1>7. CASE AssertionFails
  <2>1. /\ processing # << >> /\ phase = "analyze" /\ phase' = "aborted"
        /\ Processed /\ NodeAsserts(Actual)
    BY <1>7 DEF AssertionFails
  <2>2. Len(processing) \in 1..Len(processing) /\ Actual = processing[Len(processing)]
    BY <1>1, <2>1, ActualFacts
  <2>3. Actual \notin DOMAIN state_map
    BY <1>4, <2>1, <2>2 DEF Separated
  <2>4. PICK m \in DOMAIN state_map :
          /\ Update(m) # << >>
          /\ \/ UpdateAsserts(state_map[m], Update(m)[1])
             \/ NormalizeCrashes(Activated(state_map[m], Update(m)[1]))
    BY <1>1, <2>1, <2>3, NodeAssertions
  <2>5. ~FillsRing =>
          /\ \E f \in Function : Called(f) /\ IsTooLarge(params, f)
          /\ ~params.ignore \/ params.rpol = "STACK"
    BY <1>1, <2>4, RingConditionsHold, UpdateAssertions
  <2>6. AssertionsHoldIfRing'
    BY <1>2, <2>5 DEF AssertionsHoldIfRing, OtherAssertionsHold, FillsRing, Called
  <2> QED BY <1>1, <2>1, <2>6 DEF OrderInv
<1>8. CASE CalculateMemPenalty
  <2>1. /\ processing = << >> /\ UNCHANGED <<msg, params, processing, state_map, ctxMap>>
        /\ phase' = "aborted" => \E n \in Node : PenaltyAsserts(n)
        /\ phase # "aborted"
    BY <1>8 DEF CalculateMemPenalty
  <2>2. ASSUME NEW n \in Node, PenaltyAsserts(n)
        PROVE  msg.type[n] = "Exit" /\ Len(msg.in[n]) > 1
    <3>1. n = Exit \/ n \in DOMAIN state_map
      BY <1>1, <1>3, <2>1, AllAnalyzed
    <3> QED BY <1>1, <2>2, <3>1, PenaltyAssertions
  <2>3. AssertionsHoldIfRing'
    BY <2>1, <2>2 DEF AssertionsHoldIfRing, OtherAssertionsHold
  <2>4. Separated'
    BY <1>4, <2>1 DEF Separated
  <2> QED BY <1>1, <2>3, <2>4 DEF OrderInv
<1>9. CASE UNCHANGED vars
  <2>1. (phase' # "aborted" => Separated') /\ AssertionsHoldIfRing'
    BY <1>4, <1>9 DEF vars, Separated, AssertionsHoldIfRing, OtherAssertionsHold, FillsRing, Called
  <2> QED BY <1>1, <2>1 DEF OrderInv
<1> QED BY <1>5, <1>6, <1>7, <1>8, <1>9 DEF Next

(* The analysis starts with nothing stored.                                *)
LEMMA OrderInit == Init => OrderInv
<1> SUFFICES ASSUME Init PROVE OrderInv
  OBVIOUS
<1>1. WInv
  BY WInit
<1>2. processing = <<Entry>> /\ DOMAIN state_map = {} /\ phase = "analyze"
  BY DEF Init
<1>3. Separated
  <2>1. Len(processing) = 1 /\ processing[1] = Entry
    BY <1>2
  <2> QED BY <1>2, <2>1, EndsAssumption DEF Separated
<1> QED BY <1>1, <1>2, <1>3 DEF OrderInv, RingInv, AssertionsHoldIfRing, OtherAssertionsHold

(* No state is stored twice or looked up too early, no neighbour is missing*)
(* from the ring, nothing is overwritten from within: only a function that *)
(* is too large and one with two returns can stop the analysis.            *)
THEOREM OnlyTwoCausesAbort ==
  OrderedGraphs /\ RingsFit => (Spec => [](~FillsRing => OtherAssertionsHold))
<1> SUFFICES ASSUME OrderedGraphs, RingsFit
             PROVE  Spec => [](~FillsRing => OtherAssertionsHold)
  OBVIOUS
<1>1. Init => OrderInv
  BY OrderInit
<1>2. OrderInv /\ [Next]_vars => OrderInv'
  BY OrderNext
<1>3. OrderInv => (~FillsRing => OtherAssertionsHold)
  BY DEF OrderInv, AssertionsHoldIfRing
<1> QED BY <1>1, <1>2, <1>3, PTL DEF Spec

(* Without any assumption on the order of the nodes: the states kept for a *)
(* stack memory never have two functions at one place.                     *)
THEOREM RingsStayRings == Spec => []RingInv
<1>1. Init => WInv /\ RingInv
  <2>1. Init => DOMAIN state_map = {}
    BY DEF Init
  <2> QED BY <2>1, WInit DEF RingInv
<1>2. WInv /\ RingInv /\ [Next]_vars => (WInv /\ RingInv)'
  BY WNext, RingNext
<1> QED BY <1>1, <1>2, PTL DEF Spec

-----------------------------------------------------------------------------
(***************************************************************************)
(* The execution of an analysed program.                                   *)
(***************************************************************************)

(* What is assumed of the graphs for the states to be those of the paths.  *)
Regular == \A g \in MSGs : ForwardConnected(g) /\ ForwardAcyclic(g)

(* A content of the analysis describes a memory of the hardware.           *)
Models(content, mem) ==
  IF params.rpol = "FIFO" THEN mem \in Seq(Function) /\ content = Reverse(mem)
  ELSE \E r \in 0..params.size - 1 : Holding(params, content, mem, r)

(* What the memory is once it was asked for the next function.             *)
Loaded ==
  CASE Request = << >> -> memory
    [] Request # << >> /\ params.rpol = "FIFO" -> LoadFifo(params, memory, Request[1].func)
    [] Request # << >> /\ params.rpol = "STACK" -> LoadRing(params, memory, Request[1])

(* One of the states kept for a node is that of the memory.                *)
Kept == at \notin {Entry, Exit} => \E content \in state_map[at] : Models(content, memory)

XInv ==
  /\ WInv
  /\ RingInv
  /\ at \in Node
  /\ stack = msg.context[at]
  /\ phase # "done" => at = Entry /\ ~looped
  /\ at = Entry /\ ~looped => memory = << >>
  /\ phase = "done" /\ ~looped /\ ~FillsRing => Kept

(* The real call stack is the one the analysis has.                        *)
LEMMA RequestIsUpdate ==
  ASSUME stack = msg.context[at]
  PROVE  Request = Update(at)
BY DEF Request, Update

LEMMA ParamsFacts ==
  ASSUME params \in ParamSets
  PROVE  /\ params.rpol \in {"FIFO", "STACK"}
         /\ params.size \in Nat \ {0} /\ params.table \in Nat /\ params.ignore \in BOOLEAN
BY ParamsAssumption

(* Before a call or return one of the states is that of the memory; the    *)
(* program starts with an empty one.                                       *)
LEMMA StateBefore ==
  ASSUME XInv, Regular, RingsFit, phase = "done", ~looped, ~FillsRing, at # Exit
  PROVE  /\ at \in DOMAIN state_map
         /\ at = Entry => state_map[at] = {} /\ memory = << >>
         /\ \E content \in Contents(state_map[at]) :
              /\ at = Entry => content = << >>
              /\ at # Entry => content \in state_map[at] /\ Models(content, memory)
<1>1. WInv /\ msg \in MSGs /\ at \in Node /\ processing = << >>
  BY DEF XInv, WInv, Finished
<1>2. at \in DOMAIN state_map
  BY <1>1, AllAnalyzed DEF Regular
<1>3. CASE at = Entry
  <2>1. state_map[at] = {}
    BY <1>1, <1>2, <1>3 DEF WInv, FlowConsistent, InitialStates
  <2> QED BY <1>2, <1>3, <2>1 DEF Contents, XInv
<1>4. CASE at # Entry
  BY <1>2, <1>4 DEF XInv, Kept, Contents
<1> QED BY <1>3, <1>4

(* Activating a function does to a state what loading it does to the       *)
(* memory.                                                                 *)
LEMMA UpdateIsLoad ==
  ASSUME XInv, Regular, RingsFit, phase = "done", ~looped, ~FillsRing,
         at # Exit, Update(at) # << >>,
         ~UpdateAsserts(state_map[at], Update(at)[1]),
         ~NormalizeCrashes(Activated(state_map[at], Update(at)[1]))
  PROVE  \E after \in removeDuplicates(Activated(state_map[at], Update(at)[1])) :
           Models(after, Loaded)
<1> DEFINE u == Update(at)[1]
<1>1. /\ WInv /\ RingInv /\ msg \in MSGs /\ params \in ParamSets /\ at \in Node
      /\ Request = Update(at)
  BY RequestIsUpdate DEF XInv, WInv
<1>2. /\ u.func \in Function /\ u.act \in {"CALL", "RETURN"} /\ (at = Entry => u.act = "CALL")
  BY <1>1, UpdateFacts
<1>3. /\ at \in DOMAIN state_map /\ at \in DOMAIN ctxMap
      /\ at = Entry => memory = << >>
  BY StateBefore DEF XInv, WInv
<1>4. PICK content \in Contents(state_map[at]) :
        /\ at = Entry => content = << >>
        /\ at # Entry => content \in state_map[at] /\ Models(content, memory)
  BY StateBefore
<1>5. /\ params.rpol \in {"FIFO", "STACK"} /\ params.size \in Nat /\ params.table \in Nat
  BY <1>1, ParamsFacts
<1>6. Activate(content, u) \in Activated(state_map[at], u)
  BY DEF Activated
<1>7. CASE params.rpol = "FIFO"
  <2>1. Loaded = LoadFifo(params, memory, u.func) /\ Activate(content, u) = FifoActivate(params, content, u.func)
    BY <1>1, <1>7 DEF Loaded, Activate
  <2>2. memory \in Seq(Function) /\ content = Reverse(memory)
    <3>1. CASE at = Entry
      <4>1. content = << >> /\ memory = << >>
        BY <1>3, <1>4, <3>1
      <4>2. << >> \in Seq(Function) /\ Reverse(<< >>) = << >>
        BY DEF Reverse
      <4> QED BY <4>1, <4>2
    <3>2. CASE at # Entry
      BY <1>4, <1>7, <3>2 DEF Models
    <3> QED BY <3>1, <3>2
  <2> HIDE DEF u
  <2>3. /\ LoadFifo(params, memory, u.func) \in Seq(Function)
        /\ FifoActivate(params, content, u.func) = Reverse(LoadFifo(params, memory, u.func))
    BY <1>2, <1>5, <2>2, FifoFollows
  <2>4. Models(Activate(content, u), Loaded)
    BY <1>7, <2>1, <2>3 DEF Models
  <2>5. removeDuplicates(Activated(state_map[at], u)) = Activated(state_map[at], u)
    BY <1>7 DEF removeDuplicates
  <2> QED BY <1>6, <2>4, <2>5 DEF u
<1>8. CASE params.rpol = "STACK"
  <2>1. Loaded = LoadRing(params, memory, u)
    BY <1>1, <1>8 DEF Loaded
  <2>2. RingConditions /\ IsRingSize(params)
    BY <1>1, <1>8, RingConditionsHold DEF RingConditions
  <2>3. RingsAt(at) /\ Called(u.func)
    BY <1>1, <1>3, <2>2, UpdateIsCalled DEF RingInv
  <2>4. Size(u.func) # params.size
    BY <1>2, <1>8, <2>3 DEF FillsRing, Size
  <2>5. /\ IsRing(params, content)
        /\ at # Entry => content # << >>
    BY <1>1, <1>3, <2>2, <2>3, StatesBefore DEF IsStateOf
  <2>6. ~IsTooLarge(params, u.func) => ~StackAsserts(params, content, u.func, u.act, u.previous)
    BY <1>8 DEF UpdateAsserts
  <2>7. /\ Activate(content, u) # << >>
        /\ Activate(content, u) = StackActivate(params, content, u.func, u.act, u.previous)
    <3>1. << >> \notin Activated(state_map[at], u)
      BY <1>8 DEF NormalizeCrashes
    <3> QED BY <1>6, <1>8, <3>1 DEF Activate
  <2>8. /\ ~IsTooLarge(params, u.func) => IsRing(params, Activate(content, u))
        /\ IsTooLarge(params, u.func) => Activate(content, u) = content
    BY <1>1, <1>3, <2>2, <2>3, <2>6, UpdateKeepsRing
  <2> DEFINE after == Activate(content, u)
  <2> HIDE DEF u
  <2>9. IsRing(params, after) /\ after # << >>
    BY <2>5, <2>7, <2>8
  <2>10. \E r \in 0..params.size - 1 : Holding(params, after, Loaded, r)
    <3>1. CASE at = Entry
      <4>1. content = << >> /\ memory = << >> /\ u.act = "CALL"
        BY <1>2, <1>3, <1>4, <3>1
      <4>2. ~IsTooLarge(params, u.func)
        BY <2>7, <2>8, <4>1
      <4>3. Size(u.func) < params.size
        BY <1>2, <1>5, <2>4, <4>2, SizePositive DEF IsTooLarge, Size
      <4>4. Holding(params, after, Loaded, 0)
        BY <1>2, <2>1, <2>2, <2>7, <4>1, <4>3, FirstLoad
      <4>5. 0 \in 0..params.size - 1
        BY <2>2 DEF IsRingSize
      <4> QED BY <4>4, <4>5
    <3>2. CASE at # Entry
      <4>1. PICK r \in 0..params.size - 1 : Holding(params, content, memory, r)
        BY <1>4, <1>8, <3>2 DEF Models
      <4>2. content # << >>
        BY <2>5, <3>2
      <4>3. Holding(params, StackActivate(params, content, u.func, u.act, u.previous),
                    LoadRing(params, memory, u), r)
        BY <1>2, <2>2, <2>4, <2>5, <2>6, <4>1, <4>2, LoadMatches
      <4> QED BY <2>1, <2>7, <4>3
    <3> QED BY <3>1, <3>2
  <2> HIDE DEF after
  <2>11. \E r \in 0..params.size - 1 : Holding(params, normalize(params, after), Loaded, r)
    BY <2>2, <2>9, <2>10, NormalizeMatches
  <2>12. Models(normalize(params, after), Loaded)
    BY <1>8, <2>11 DEF Models
  <2>13. removeDuplicates(Activated(state_map[at], u)) =
           {normalize(params, c) : c \in Activated(state_map[at], u)}
    BY <1>8 DEF removeDuplicates
  <2> QED BY <1>6, <2>12, <2>13 DEF u, after
<1> QED BY <1>5, <1>7, <1>8

(* Along a forward edge, the states of the node reached include that of    *)
(* the memory.                                                             *)
LEMMA KeptAlongEdge ==
  ASSUME XInv, Regular, RingsFit, phase = "done", ~looped, ~FillsRing,
         NEW m \in Node, HasForwardEdge(msg.in[m], at), m # Exit
  PROVE  \E content \in state_map[m] : Models(content, Loaded)
<1> DEFINE pred == Predecessors(m)
<1>1. /\ WInv /\ RingInv /\ msg \in MSGs /\ params \in ParamSets /\ at \in Node
      /\ Request = Update(at) /\ processing = << >>
  BY RequestIsUpdate DEF XInv, WInv, Finished
<1>2. /\ at # Exit /\ m # Entry /\ Len(pred) > 0 /\ pred \in Seq(Node)
      /\ Len(pred) = 1 => pred[1] = at
      /\ Len(pred) # 1 => msg.type[at] = "Other"
  BY <1>1, FlowFactsOf, OnlyPredecessor
<1>3. PICK j \in 1..Len(pred) : pred[j] = at
  BY <1>1, FlowFactsOf
<1>4. m \in DOMAIN state_map /\ at \in DOMAIN state_map /\ at \in DOMAIN ctxMap
  BY <1>1, <1>2, AllAnalyzed DEF Regular, WInv
<1>5. state_map[m] = InitialStates(m)
  BY <1>1, <1>4 DEF WInv, FlowConsistent
<1>6. params.rpol \in {"FIFO", "STACK"} /\ UpdateOf(at) = Update(at)
  BY <1>1, <1>4, ParamsFacts, UpdateOfMet DEF WInv
<1>7. CASE Update(at) # << >>
  <2>1. msg.type[at] # "Other"
    BY <1>1, <1>7, UpdateFacts
  <2>2. Len(pred) = 1 /\ pred[1] = at
    BY <1>2, <2>1
  <2>3. state_map[m] = removeDuplicates(Activated(state_map[at], Update(at)[1]))
    BY <1>2, <1>5, <1>6, <1>7, <2>2 DEF InitialStates, StatesBehind
  <2>4. /\ ~UpdateAsserts(state_map[at], Update(at)[1])
        /\ ~NormalizeCrashes(Activated(state_map[at], Update(at)[1]))
    BY <1>1, <1>4, <1>7 DEF WInv, NoneFailed
  <2> QED BY <1>2, <1>7, <2>3, <2>4, UpdateIsLoad
<1>8. CASE Update(at) = << >>
  <2>1. Loaded = memory
    BY <1>1, <1>8 DEF Loaded
  <2>2. at # Entry
    BY <1>1, <1>8, GraphFacts DEF Update
  <2>3. PICK content \in state_map[at] : Models(content, memory)
    BY <1>2, <2>2 DEF XInv, Kept
  <2>4. CASE Len(pred) = 1
    <3>1. state_map[m] = state_map[at]
      BY <1>2, <1>5, <1>6, <1>8, <2>4 DEF InitialStates, StatesBehind
    <3> QED BY <2>1, <2>3, <3>1
  <2>5. CASE Len(pred) # 1
    <3> DEFINE joined == UNION {state_map[pred[i]] : i \in 1..Len(pred)}
    <3>1. Len(pred) > 1
      <4>1. Len(pred) \in Nat /\ Len(pred) > 0
        BY <1>2
      <4> QED BY <2>5, <4>1
    <3>2. state_map[m] = removeDuplicates(joined)
      BY <1>2, <1>5, <3>1 DEF InitialStates, JoinedStates
    <3>3. content \in joined
      BY <1>3, <2>3
    <3> HIDE DEF joined
    <3>4. CASE params.rpol = "FIFO"
      BY <2>1, <2>3, <3>2, <3>3, <3>4 DEF removeDuplicates
    <3>5. CASE params.rpol = "STACK"
      <4>1. RingConditions /\ IsRingSize(params)
        BY <1>1, <3>5, RingConditionsHold DEF RingConditions
      <4>2. IsRing(params, content) /\ content # << >>
        BY <1>1, <1>4, <2>2, <4>1 DEF RingInv, RingsAt, IsStateOf
      <4>3. PICK r \in 0..params.size - 1 : Holding(params, content, memory, r)
        BY <2>3, <3>5 DEF Models
      <4>4. \E q \in 0..params.size - 1 : Holding(params, normalize(params, content), memory, q)
        BY <4>1, <4>2, <4>3, NormalizeMatches
      <4>5. Models(normalize(params, content), memory)
        BY <3>5, <4>4 DEF Models
      <4>6. normalize(params, content) \in state_map[m]
        BY <3>2, <3>3, <3>5 DEF removeDuplicates
      <4> QED BY <2>1, <4>5, <4>6
    <3> QED BY <1>6, <3>4, <3>5
  <2> QED BY <2>4, <2>5
<1> QED BY <1>7, <1>8

(* An execution starts with an empty memory.                               *)
LEMMA ExecInitInv == ExecInit => XInv
<1> SUFFICES ASSUME ExecInit PROVE XInv
  OBVIOUS
<1>1. WInv /\ phase = "analyze" /\ DOMAIN state_map = {} /\ msg \in MSGs
  BY WInit DEF ExecInit, Init
<1>2. msg.context[Entry] = << >>
  BY <1>1, GraphFacts
<1> QED BY <1>1, <1>2, EndsAssumption DEF ExecInit, XInv, RingInv

(* The analysis touches no memory; it ends with the execution at the entry.*)
LEMMA AnalyseInv ==
  ASSUME XInv, Analyse
  PROVE  XInv'
<1>1. Next /\ at' = at /\ stack' = stack /\ memory' = memory /\ looped' = looped
  BY DEF Analyse, execVars
<1>2. msg' = msg /\ params' = params /\ phase = "analyze"
  BY <1>1 DEF Next, DropNode, ProcessNode, AssertionFails, CalculateMemPenalty
<1>3. WInv' /\ RingInv'
  BY <1>1, WNext, RingNext DEF XInv
<1>4. at = Entry /\ ~looped
  BY <1>2 DEF XInv
<1> QED BY <1>1, <1>2, <1>3, <1>4 DEF XInv, Kept

(* A step of the program.                                                  *)
LEMMA TakeEdgeInv ==
  ASSUME Regular, RingsFit, XInv, TakeEdge
  PROVE  XInv'
<1>1. PICK i \in 1..Len(msg.out[at]) :
        /\ at' = msg.out[at][i].node
        /\ looped' = (looped \/ msg.out[at][i].type = "BackwardJump")
  BY DEF TakeEdge
<1>2. /\ phase = "done" /\ UNCHANGED vars /\ stack' = ContextAfter(msg, at, stack)
      /\ memory' = Loaded
  BY DEF TakeEdge, Loaded
<1>3. /\ msg' = msg /\ params' = params /\ state_map' = state_map /\ phase' = phase
  BY <1>2 DEF vars
<1>4. /\ WInv /\ WInv' /\ RingInv /\ RingInv'
      /\ msg \in MSGs /\ at \in Node /\ stack = msg.context[at]
  BY <1>2, WNext, RingNext DEF XInv, WInv
<1>5. at' \in Node /\ msg.context[at'] = ContextAfter(msg, at, msg.context[at])
  BY <1>1, <1>4, GraphFacts
<1>6. ~looped' => ~looped /\ HasForwardEdge(msg.in[at'], at) /\ at' # Entry
  <2> SUFFICES ASSUME ~looped'
               PROVE  ~looped /\ HasForwardEdge(msg.in[at'], at) /\ at' # Entry
    OBVIOUS
  <2>1. ~looped /\ msg.out[at][i].type # "BackwardJump"
    BY <1>1
  <2>2. HasForwardEdge(msg.out[at], at')
    BY <1>1, <2>1 DEF HasForwardEdge
  <2> QED BY <1>4, <1>5, <2>1, <2>2, FlowFactsOf
<1>7. stack' = (msg.context[at])'
  BY <1>2, <1>3, <1>4, <1>5
<1>8. (phase = "done" /\ ~looped /\ ~FillsRing => Kept)'
  <2> SUFFICES ASSUME ~looped', ~FillsRing', at' # Exit
               PROVE  \E content \in state_map[at'] : Models(content, memory)'
    BY <1>3 DEF Kept
  <2>1. ~looped /\ ~FillsRing
    BY <1>6, <1>3 DEF FillsRing, Called
  <2>2. HasForwardEdge(msg.in[at'], at)
    BY <1>6
  <2>3. \E content \in state_map[at'] : Models(content, Loaded)
    BY <1>2, <1>5, <2>1, <2>2, KeptAlongEdge
  <2>4. \A content : Models(content, memory)' <=> Models(content, Loaded)
    BY <1>2, <1>3 DEF Models
  <2> QED BY <2>3, <2>4
<1> QED BY <1>2, <1>3, <1>4, <1>5, <1>6, <1>7, <1>8 DEF XInv

LEMMA ExecNextInv ==
  Regular /\ RingsFit => (XInv /\ [ExecNext]_allVars => XInv')
<1> SUFFICES ASSUME Regular, RingsFit, XInv, [ExecNext]_allVars PROVE XInv'
  OBVIOUS
<1>1. CASE Analyse
  BY <1>1, AnalyseInv
<1>2. CASE TakeEdge
  BY <1>2, TakeEdgeInv
<1>3. CASE UNCHANGED allVars
  <2>1. /\ UNCHANGED vars /\ at' = at /\ stack' = stack /\ memory' = memory /\ looped' = looped
        /\ msg' = msg /\ params' = params /\ state_map' = state_map /\ phase' = phase
    BY <1>3 DEF allVars, vars
  <2>2. WInv' /\ RingInv'
    BY <2>1, WNext, RingNext DEF XInv
  <2>3. (FillsRing' <=> FillsRing) /\ (Kept' <=> Kept)
    BY <2>1 DEF FillsRing, Called, Kept, Models
  <2> QED BY <2>1, <2>2, <2>3 DEF XInv
<1> QED BY <1>1, <1>2, <1>3 DEF ExecNext

(* A content that models the memory describes it.                          *)
LEMMA ModelsDescribe ==
  ASSUME params \in ParamSets, NEW content, Models(content, memory)
  PROVE  /\ Describes(content)
         /\ \A f \in Function : Holds(content, f) => f \in Resident
<1>1. CASE params.rpol = "FIFO"
  <2>1. memory \in Seq(Function) /\ content = Reverse(memory)
    BY <1>1 DEF Models
  <2>2. \A f : Contains(content, f) <=> f \in ToSet(memory)
    BY <2>1, ReverseFacts
  <2> QED BY <1>1, <2>1, <2>2 DEF Describes, Holds, FifoIsInState, Resident
<1>2. CASE params.rpol # "FIFO"
  <2>1. PICK r \in 0..params.size - 1 : Holding(params, content, memory, r)
    BY <1>2 DEF Models
  <2>2. {content[i].address : i \in 1..Len(content)} = DOMAIN memory
    BY <2>1 DEF Holding, Entries
  <2>3. \A i \in 1..Len(content) :
          memory[content[i].address] = (content[i].pos_begin + r) % params.size
    BY <2>1 DEF Holding, Entries
  <2> QED BY <1>2, <2>2, <2>3 DEF Describes, Holds, StackIsInState, Resident
<1> QED BY <1>1, <1>2

(* The invariant of analysis and execution.                                *)
LEMMA ExecInvariance == Regular /\ RingsFit => (ExecSpec => []XInv)
<1> SUFFICES ASSUME Regular, RingsFit PROVE ExecSpec => []XInv
  OBVIOUS
<1>1. ExecInit => XInv
  BY ExecInitInv
<1>2. XInv /\ [ExecNext]_allVars => XInv'
  BY ExecNextInv
<1> QED BY <1>1, <1>2, PTL DEF ExecSpec

(* On every path without an edge backwards the states kept for a node      *)
(* include the real one: the queue of a FIFO memory or, unless a function  *)
(* fills it, the ring of a stack memory, at some rotation.                 *)
THEOREM ContentSoundness == Regular /\ RingsFit => (ExecSpec => []ContentIsKept)
<1> SUFFICES ASSUME Regular, RingsFit PROVE ExecSpec => []ContentIsKept
  OBVIOUS
<1>1. XInv => ContentIsKept
  <2> SUFFICES ASSUME XInv, phase = "done", ~looped, ~FillsRing, at # Exit, at # Entry
               PROVE  \E content \in state_map[at] : Describes(content)
    BY DEF ContentIsKept
  <2>1. params \in ParamSets
    BY DEF XInv, WInv
  <2> QED BY <2>1, ModelsDescribe DEF XInv, Kept
<1> QED BY <1>1, ExecInvariance, PTL

(* The penalty of a call or return pays for what the memory does on those  *)
(* paths, if a hit takes no longer than a load.                            *)
THEOREM PenaltySoundness ==
  Regular /\ RingsFit /\ HitsAreCheaper => (ExecSpec => []PenaltyCoversLoadIfRing)
<1> SUFFICES ASSUME Regular, RingsFit, HitsAreCheaper
             PROVE  ExecSpec => []PenaltyCoversLoadIfRing
  OBVIOUS
<1>1. XInv => PenaltyCoversLoadIfRing
  <2> SUFFICES ASSUME XInv, phase = "done", ~looped, ~FillsRing, Request # << >>
               PROVE  RealCost <= penalty[at]
    BY DEF PenaltyCoversLoadIfRing, PenaltyCoversLoad
  <2> DEFINE u == Request[1]
  <2>1. /\ WInv /\ msg \in MSGs /\ params \in ParamSets /\ at \in Node
        /\ Request = Update(at) /\ at # Exit
    BY RequestIsUpdate, UpdateFacts DEF XInv, WInv
  <2>2. /\ at \in DOMAIN ctxMap /\ (at = Entry => state_map[at] = {})
        /\ u.func \in Function
    BY <2>1, StateBefore, UpdateFacts DEF WInv
  <2>3. UpdateOf(at) = Request
    BY <2>1, <2>2, UpdateOfMet DEF WInv
  <2>4. penalty[at] = IF isInAllSets(u.func, at) THEN getDispHitPenalty(msg.type[at])
                      ELSE getDispMissAndLoadPenalty(u.func, msg.type[at])
    BY <2>1, <2>3 DEF WInv, Finished, DispCost
  <2>5. RealCost = IF u.func \in Resident THEN getDispHitPenalty(msg.type[at])
                   ELSE getDispMissAndLoadPenalty(u.func, msg.type[at])
    BY DEF RealCost
  <2>6. isInAllSets(u.func, at) => u.func \in Resident
    <3> SUFFICES ASSUME isInAllSets(u.func, at) PROVE u.func \in Resident
      OBVIOUS
    <3>1. at # Entry
      BY <2>2 DEF isInAllSets
    <3>2. PICK content \in state_map[at] : Models(content, memory)
      BY <2>1, <3>1 DEF XInv, Kept
    <3>3. Holds(content, u.func)
      BY DEF isInAllSets
    <3> QED BY <2>1, <2>2, <3>2, <3>3, ModelsDescribe
  <2>7. /\ getDispHitPenalty(msg.type[at]) \in Nat
        /\ getDispMissAndLoadPenalty(u.func, msg.type[at]) \in Nat
        /\ getDispHitPenalty(msg.type[at]) <= getDispMissAndLoadPenalty(u.func, msg.type[at])
    BY <2>2, HitPenaltyIsSmaller
  <2> QED BY <2>4, <2>5, <2>6, <2>7
<1> QED BY <1>1, ExecInvariance, PTL

=============================================================================
