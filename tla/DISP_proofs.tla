----------------------------- MODULE DISP_proofs ----------------------------
(***************************************************************************)
(* Proofs about DISPExecution: lemmas about the abstract LRU D-ISP of      *)
(* LRUDISP, whose updates and joins of the must and the may set bound the  *)
(* ages of the functions in the memory of FunctionMemory from above and    *)
(* from below; and, for every program whose calls are inlined:             *)
(* the call context the worklist keeps for a node is the chain of calls    *)
(* the node was copied for, and the call stack with which every execution  *)
(* comes to it; which assertions of the analysis can fail; and that the    *)
(* analysis is sound on every path without an edge backwards, and on every *)
(* path where the loops are peeled and have straight bodies.               *)
(***************************************************************************)
EXTENDS DISPExecution, FunctionMemory_proofs

-----------------------------------------------------------------------------
(***************************************************************************)
(* The states the analysis keeps: what is in a set fits behind what is     *)
(* younger, and any two functions of a must set fit together.              *)
(***************************************************************************)
DispSets ==
  {m \in UNION {[D -> Nat] : D \in SUBSET Function} :
     \A f \in DOMAIN m : m[f] + getFunctionMemSize(f) <= DispSize}

MustSets ==
  {m \in DispSets : \A f, g \in DOMAIN m :
     f # g => getFunctionMemSize(f) + getFunctionMemSize(g) <= DispSize}

DispStates == [must : MustSets, may : DispSets]

(* The members of these sets.                                              *)
LEMMA DispSetMembers ==
  ASSUME NEW m
  PROVE  m \in DispSets <=>
           IsMemSet(m) /\ \A f \in DOMAIN m : m[f] + getFunctionMemSize(f) <= DispSize
BY DEF DispSets, IsMemSet

(* The same, with the sizes as numbers.                                    *)
LEMMA DispSetFacts ==
  ASSUME NEW m \in DispSets
  PROVE  \A f \in DOMAIN m :
           /\ f \in Function /\ m[f] \in Nat /\ getFunctionMemSize(f) \in Nat \ {0}
           /\ m[f] + getFunctionMemSize(f) <= DispSize
<1> TAKE f \in DOMAIN m
<1>1. f \in Function /\ m[f] \in Nat /\ m[f] + getFunctionMemSize(f) <= DispSize
  BY DispSetMembers DEF IsMemSet
<1> QED BY <1>1, SizePositive

(* A must set keeps what every pair of functions is known to fit with; and *)
(* the blank state is a state.                                             *)
LEMMA BlankState == BlankMemState \in DispStates
<1>1. [f \in {} |-> 0] \in DispSets
  BY DispSetMembers DEF IsMemSet
<1>2. [f \in {} |-> 0] \in MustSets
  BY <1>1 DEF MustSets
<1> QED BY <1>1, <1>2 DEF BlankMemState, DispStates

(* The age moveAddrToFront gives.                                          *)
LEMMA AgeBehindFacts ==
  ASSUME NEW m \in DispSets, NEW f \in DOMAIN m, NEW g \in DOMAIN m, f # g,
         NEW analysis
  PROVE  /\ AgeBehind(m, f, g, analysis) \in Nat
         /\ analysis = "MUST" => AgeBehind(m, f, g, analysis) >= m[g]
<1>1. /\ m[f] \in Nat /\ getFunctionMemSize(f) \in Nat \ {0}
      /\ m[g] \in Nat /\ getFunctionMemSize(g) \in Nat \ {0}
  BY DispSetFacts
<1> DEFINE a == m[f]
           b == m[g]
           u == getFunctionMemSize(f)
           v == getFunctionMemSize(g)
<1> HIDE DEF a, b, u, v
<1>2. a \in Nat /\ b \in Nat /\ u \in Nat \ {0} /\ v \in Nat \ {0}
  BY <1>1 DEF a, b, u, v
<1>3. AgeBehind(m, f, g, analysis) =
        IF checkFunctionIntersection(a, a + u, b, b + v)
        THEN getIntersectionalAge(analysis, a, u, b, v)
        ELSE IF b < a THEN b + u ELSE b
  BY DEF AgeBehind, a, b, u, v
<1>4. /\ getIntersectionalAge(analysis, a, u, b, v) \in Nat
      /\ analysis = "MUST" => getIntersectionalAge(analysis, a, u, b, v) >= b
  BY <1>2 DEF getIntersectionalAge
<1> QED BY <1>2, <1>3, <1>4 DEF b

(* Moving a function to the front pushes none out of a must set: the third *)
(* assertion of update() never fails.                                      *)
LEMMA NonePushedOut ==
  ASSUME NEW m \in MustSets, NEW f \in DOMAIN m
  PROVE  PushedOut(m, f, "MUST") = {}
<1> SUFFICES ASSUME NEW g \in DOMAIN m, g # f
             PROVE  ~(AgeBehind(m, f, g, "MUST") + getFunctionMemSize(g) > DispSize)
  BY DEF PushedOut
<1> DEFINE a == m[f]
           b == m[g]
           u == getFunctionMemSize(f)
           v == getFunctionMemSize(g)
<1>1. m \in DispSets
  BY DEF MustSets
<1>2. /\ a \in Nat /\ b \in Nat /\ u \in Nat \ {0} /\ v \in Nat \ {0}
      /\ a + u <= DispSize /\ b + v <= DispSize /\ u + v <= DispSize
      /\ DispSize \in Nat
  <2>1. u + v <= DispSize
    BY DEF MustSets
  <2> QED BY <1>1, <2>1, DispSetFacts, DispAssumption
<1>3. AgeBehind(m, f, g, "MUST") =
        IF checkFunctionIntersection(a, a + u, b, b + v)
        THEN getIntersectionalAge("MUST", a, u, b, v)
        ELSE IF b < a THEN b + u ELSE b
  BY DEF AgeBehind
<1> HIDE DEF a, b, u, v
<1>4. ~checkFunctionIntersection(a, a + u, b, b + v) /\ b < a => b + v <= a
  BY <1>2 DEF checkFunctionIntersection
<1>5. getIntersectionalAge("MUST", a, u, b, v) + v <= DispSize
  BY <1>2 DEF getIntersectionalAge
<1>6. getIntersectionalAge("MUST", a, u, b, v) \in Nat
  BY <1>2 DEF getIntersectionalAge
<1>7. AgeBehind(m, f, g, "MUST") + v <= DispSize /\ AgeBehind(m, f, g, "MUST") \in Nat
  BY <1>2, <1>3, <1>4, <1>5, <1>6
<1> QED BY <1>2, <1>7 DEF v

(* update() of a set yields one.                                           *)
LEMMA UpdateSetState ==
  ASSUME NEW m \in DispSets, NEW f \in Function, NEW analysis
  PROVE  /\ DispUpdateSet(m, f, analysis) \in DispSets
         /\ m \in MustSets => DispUpdateSet(m, f, analysis) \in MustSets
<1>1. /\ \A g \in DOMAIN m :
           /\ g \in Function /\ m[g] \in Nat /\ getFunctionMemSize(g) \in Nat \ {0}
           /\ m[g] + getFunctionMemSize(g) <= DispSize
      /\ getFunctionMemSize(f) \in Nat \ {0} /\ DispSize \in Nat
  BY DispSetFacts, SizePositive, DispAssumption
<1>2. CASE f \in DOMAIN m
  <2> DEFINE d == DispMoveToFront(m, f, analysis)
             kept == DOMAIN m \ PushedOut(m, f, analysis)
  <2>1. DispUpdateSet(m, f, analysis) = d
    BY <1>2 DEF DispUpdateSet, isInSet
  <2>2. d = [g \in kept |-> IF g = f THEN 0 ELSE AgeBehind(m, f, g, analysis)]
    BY DEF DispMoveToFront
  <2>3. ASSUME NEW g \in kept
        PROVE  g \in DOMAIN m /\ d[g] \in Nat /\ d[g] + getFunctionMemSize(g) <= DispSize
    <3>1. CASE g = f
      BY <1>1, <1>2, <2>2, <3>1
    <3>2. CASE g # f
      <4>1. /\ g \in DOMAIN m /\ AgeBehind(m, f, g, analysis) \in Nat
            /\ d[g] = AgeBehind(m, f, g, analysis)
        BY <1>2, <2>2, <3>2, AgeBehindFacts
      <4>2. ~(AgeBehind(m, f, g, analysis) + getFunctionMemSize(g) > DispSize)
        BY <3>2 DEF PushedOut
      <4> QED BY <1>1, <4>1, <4>2
    <3> QED BY <3>1, <3>2
  <2>4. DOMAIN d = kept /\ kept \subseteq Function
    BY <1>1, <2>2
  <2> HIDE DEF d, kept
  <2>5. d \in DispSets
    <3>1. d = [g \in DOMAIN d |-> d[g]]
      BY <2>2
    <3>2. IsMemSet(d)
      BY <2>3, <2>4, <3>1 DEF IsMemSet
    <3> QED BY <2>3, <2>4, <3>2, DispSetMembers
  <2>6. m \in MustSets => d \in MustSets
    BY <2>3, <2>4, <2>5 DEF MustSets
  <2> QED BY <2>1, <2>5, <2>6
<1>3. CASE f \notin DOMAIN m /\ Outsized(f)
  BY <1>3 DEF DispUpdateSet, isInSet, DispAddAddr
<1>4. CASE f \notin DOMAIN m /\ ~Outsized(f)
  <2> DEFINE aged(g) == m[g] + getFunctionMemSize(f)
             kept == {g \in DOMAIN m : aged(g) + getFunctionMemSize(g) <= DispSize}
             d == [g \in kept \cup {f} |-> IF g = f THEN 0 ELSE aged(g)]
  <2>1. DispUpdateSet(m, f, analysis) = d
    BY <1>4 DEF DispUpdateSet, isInSet, DispAddAddr
  <2>2. getFunctionMemSize(f) <= DispSize
    BY <1>1, <1>4 DEF Outsized
  <2>3. ASSUME NEW g \in kept
        PROVE  /\ g \in DOMAIN m /\ g # f /\ d[g] \in Nat
               /\ d[g] + getFunctionMemSize(g) <= DispSize
               /\ getFunctionMemSize(f) + getFunctionMemSize(g) <= DispSize
    BY <1>1, <1>4
  <2>4. DOMAIN d = kept \cup {f} /\ kept \subseteq Function /\ d[f] = 0
    BY <1>1
  <2>5. d = [g \in DOMAIN d |-> d[g]]
    OBVIOUS
  <2> HIDE DEF d, kept
  <2>6. d \in DispSets
    <3>1. \A g \in DOMAIN d : d[g] \in Nat /\ d[g] + getFunctionMemSize(g) <= DispSize
      BY <1>1, <2>2, <2>3, <2>4
    <3>2. IsMemSet(d)
      BY <2>4, <2>5, <3>1 DEF IsMemSet
    <3> QED BY <3>1, <3>2, DispSetMembers
  <2>7. ASSUME m \in MustSets PROVE d \in MustSets
    <3> SUFFICES ASSUME NEW g \in DOMAIN d, NEW h \in DOMAIN d, g # h
                 PROVE  getFunctionMemSize(g) + getFunctionMemSize(h) <= DispSize
      BY <2>6 DEF MustSets
    <3>1. CASE g = f
      BY <2>3, <2>4, <3>1
    <3>2. CASE h = f
      <4>1. g \in kept
        BY <2>4, <3>2
      <4>2. getFunctionMemSize(f) + getFunctionMemSize(g) <= DispSize /\ getFunctionMemSize(g) \in Nat
        BY <1>1, <2>3, <4>1
      <4> QED BY <1>1, <3>2, <4>2
    <3>3. CASE g # f /\ h # f
      <4>1. g \in DOMAIN m /\ h \in DOMAIN m
        BY <2>3, <2>4, <3>3
      <4> QED BY <2>7, <4>1 DEF MustSets
    <3> QED BY <3>1, <3>2, <3>3
  <2> QED BY <2>1, <2>6, <2>7
<1> QED BY <1>2, <1>3, <1>4

(* update() yields a state.                                                *)
LEMMA UpdateState ==
  ASSUME NEW s \in DispStates, NEW f \in Function
  PROVE  DispUpdate(s, f) \in DispStates
<1>1. s.must \in MustSets /\ s.may \in DispSets /\ s.must \in DispSets
  BY DEF DispStates, MustSets
<1> QED BY <1>1, UpdateSetState DEF DispUpdate, DispStates

(* join() yields a state.                                                  *)
LEMMA JoinState ==
  ASSUME NEW s \in DispStates, NEW t \in DispStates
  PROVE  DispJoin(s, t) \in DispStates
<1>1. /\ s.must \in MustSets /\ s.may \in DispSets /\ s.must \in DispSets
      /\ t.must \in MustSets /\ t.may \in DispSets /\ t.must \in DispSets
  BY DEF DispStates, MustSets
<1>2. ASSUME NEW a \in DispSets, NEW b \in DispSets
      PROVE  DispJoinMust(a, b) \in DispSets /\ DispJoinMay(a, b) \in DispSets
  <2>1. /\ \A f \in DOMAIN a : f \in Function /\ a[f] \in Nat /\ a[f] + getFunctionMemSize(f) <= DispSize
        /\ \A f \in DOMAIN b : f \in Function /\ b[f] \in Nat /\ b[f] + getFunctionMemSize(f) <= DispSize
    BY DispSetFacts
  <2>2. DispJoinMust(a, b) \in DispSets
    <3> DEFINE d == DispJoinMust(a, b)
    <3>1. /\ DOMAIN d \subseteq DOMAIN a \cap DOMAIN b
          /\ \A f \in DOMAIN d : d[f] = a[f] \/ d[f] = b[f]
          /\ d = [f \in DOMAIN d |-> d[f]]
      BY DEF DispJoinMust, isInSet
    <3> HIDE DEF d
    <3>2. IsMemSet(d)
      BY <2>1, <3>1 DEF IsMemSet
    <3> QED BY <2>1, <3>1, <3>2, DispSetMembers DEF d
  <2>3. DispJoinMay(a, b) \in DispSets
    <3> DEFINE d == DispJoinMay(a, b)
    <3>1. /\ DOMAIN d \subseteq DOMAIN a \cup DOMAIN b
          /\ \A f \in DOMAIN d : \/ f \in DOMAIN a /\ d[f] = a[f]
                                 \/ f \in DOMAIN b /\ d[f] = b[f]
          /\ d = [f \in DOMAIN d |-> d[f]]
      BY DEF DispJoinMay, isInSet, UniqueMemAddrs
    <3> HIDE DEF d
    <3>2. IsMemSet(d)
      BY <2>1, <3>1 DEF IsMemSet
    <3> QED BY <2>1, <3>1, <3>2, DispSetMembers DEF d
  <2> QED BY <2>2, <2>3
<1>3. DispJoinMust(s.must, t.must) \in MustSets
  <2>1. DOMAIN DispJoinMust(s.must, t.must) \subseteq DOMAIN s.must
    BY DEF DispJoinMust, isInSet
  <2> QED BY <1>1, <1>2, <2>1 DEF MustSets
<1> QED BY <1>1, <1>2, <1>3 DEF DispJoin, DispStates

-----------------------------------------------------------------------------
(***************************************************************************)
(* What a state says of the functions in the memory and of their ages.     *)
(***************************************************************************)
MustBounds(m, c) ==
  \A f \in DOMAIN m : \E i \in 1..Len(c) : c[i] = f /\ UsedSizes(c)[i - 1] <= m[f]

MayBounds(m, c) ==
  \A i \in 1..Len(c) : c[i] \in DOMAIN m /\ m[c[i]] <= UsedSizes(c)[i - 1]

(* A function behind place k of the memory is at least as old as what the  *)
(* functions up to place k take.                                           *)
LEMMA AgesApart ==
  ASSUME NEW c \in Seq(Function)
  PROVE  /\ \A i \in 1..Len(c) : UsedSizes(c)[i - 1] \in Nat
         /\ \A i, k \in 1..Len(c) : i < k =>
              UsedSizes(c)[i - 1] + getFunctionMemSize(c[i]) <= UsedSizes(c)[k - 1]
<1>1. \A i \in 1..Len(c) : i - 1 \in 0..Len(c) /\ (i - 1) + 1 = i
  OBVIOUS
<1>2. ASSUME NEW i \in 1..Len(c), NEW k \in 1..Len(c), i < k
      PROVE  UsedSizes(c)[i - 1] + getFunctionMemSize(c[i]) <= UsedSizes(c)[k - 1]
  <2>1. i - 1 < k - 1 /\ i - 1 <= k - 1
    BY <1>2
  <2>2. UsedSizes(c)[i - 1] + getFunctionMemSize(c[(i - 1) + 1]) <= UsedSizes(c)[k - 1]
    BY <1>1, <2>1, UsedGrows
  <2> QED BY <1>1, <2>2
<1> QED BY <1>1, <1>2, UsedFacts

(* The new age, for a function used before the i-th one or not.            *)
LEMMA NewAgeCases ==
  ASSUME NEW c \in Seq(Function), NEW f \in Function, NEW i \in 1..Len(c)
  PROVE  /\ NewAge(c, f, i) \in Nat
         /\ NewAge(c, f, i) <= UsedSizes(c)[i - 1] + getFunctionMemSize(f)
         /\ NewAge(c, f, i) >= UsedSizes(c)[i - 1]
         /\ \A k \in 1..Len(c) : k < i /\ c[k] = f => NewAge(c, f, i) = UsedSizes(c)[i - 1]
         /\ (\A k \in 1..Len(c) : k < i => c[k] # f) =>
              NewAge(c, f, i) = UsedSizes(c)[i - 1] + getFunctionMemSize(f)
<1>1. UsedSizes(c)[i - 1] \in Nat /\ getFunctionMemSize(f) \in Nat
  BY AgesApart, SizePositive
<1>2. \A k : k \in 1..i - 1 <=> k \in 1..Len(c) /\ k < i
  OBVIOUS
<1>3. CASE \E k \in 1..i - 1 : c[k] = f
  <2>1. NewAge(c, f, i) = UsedSizes(c)[i - 1]
    BY <1>3 DEF NewAge
  <2> QED BY <1>1, <1>2, <1>3, <2>1
<1>4. CASE ~\E k \in 1..i - 1 : c[k] = f
  <2>1. NewAge(c, f, i) = UsedSizes(c)[i - 1] + getFunctionMemSize(f)
    BY <1>4 DEF NewAge
  <2> QED BY <1>1, <1>2, <1>4, <2>1
<1> QED BY <1>3, <1>4

(* The must age of a function bounds its new age ...                       *)
LEMMA MustAge ==
  ASSUME NEW m \in MustSets, NEW c \in Seq(Function), IsInjective(c),
         NEW f \in DOMAIN m, NEW g \in DOMAIN m, g # f,
         NEW i \in 1..Len(c), c[i] = g, UsedSizes(c)[i - 1] <= m[g],
         NEW k \in 1..Len(c), c[k] = f, UsedSizes(c)[k - 1] <= m[f]
  PROVE  NewAge(c, f, i) <= AgeBehind(m, f, g, "MUST")
<1> DEFINE a == m[f]
           b == m[g]
           u == getFunctionMemSize(f)
           v == getFunctionMemSize(g)
           x == UsedSizes(c)[i - 1]
           y == UsedSizes(c)[k - 1]
           z == NewAge(c, f, i)
<1>1. m \in DispSets
  BY DEF MustSets
<1>2. /\ a \in Nat /\ b \in Nat /\ u \in Nat \ {0} /\ v \in Nat \ {0}
      /\ x \in Nat /\ y \in Nat /\ z \in Nat /\ x <= b /\ y <= a /\ f \in Function
  BY <1>1, DispSetFacts, AgesApart, NewAgeCases
<1>3. AgeBehind(m, f, g, "MUST") =
        IF checkFunctionIntersection(a, a + u, b, b + v)
        THEN getIntersectionalAge("MUST", a, u, b, v)
        ELSE IF b < a THEN b + u ELSE b
  BY DEF AgeBehind
<1>4. k < i => z = x
  BY <1>2, NewAgeCases
<1>5. i < k => z <= x + u /\ x + v <= y
  BY <1>2, NewAgeCases, AgesApart
<1>6. i # k
  OBVIOUS
<1> HIDE DEF a, b, u, v, x, y, z
<1>7. ~checkFunctionIntersection(a, a + u, b, b + v) /\ ~(b < a) => a + u <= b
  BY <1>2 DEF checkFunctionIntersection
<1>8. getIntersectionalAge("MUST", a, u, b, v) >= z
  <2>1. CASE k < i
    BY <1>2, <1>4, <2>1 DEF getIntersectionalAge
  <2>2. CASE i < k
    BY <1>2, <1>5, <2>2 DEF getIntersectionalAge
  <2> QED BY <1>6, <2>1, <2>2
<1>9. getIntersectionalAge("MUST", a, u, b, v) \in Nat
  BY <1>2 DEF getIntersectionalAge
<1>10. (IF b < a THEN b + u ELSE b) >= z \/ checkFunctionIntersection(a, a + u, b, b + v)
  <2>1. CASE k < i
    BY <1>2, <1>4, <2>1
  <2>2. CASE i < k
    BY <1>2, <1>5, <1>7, <2>2
  <2> QED BY <1>6, <2>1, <2>2
<1> QED BY <1>2, <1>3, <1>8, <1>9, <1>10 DEF z

(* ... and the may age is one.                                             *)
LEMMA MayAge ==
  ASSUME NEW m \in DispSets, NEW c \in Seq(Function), MayBounds(m, c),
         NEW f \in DOMAIN m, NEW i \in 1..Len(c), c[i] # f
  PROVE  AgeBehind(m, f, c[i], "MAY") <= NewAge(c, f, i)
<1> DEFINE g == c[i]
           a == m[f]
           b == m[g]
           u == getFunctionMemSize(f)
           v == getFunctionMemSize(g)
           x == UsedSizes(c)[i - 1]
           z == NewAge(c, f, i)
<1>1. /\ a \in Nat /\ b \in Nat /\ u \in Nat \ {0} /\ v \in Nat \ {0}
      /\ x \in Nat /\ z \in Nat /\ b <= x /\ x <= z /\ z <= x + u /\ f \in Function
  <2>1. g \in DOMAIN m /\ b <= x
    BY DEF MayBounds
  <2>2. f \in Function
    BY DispSetFacts
  <2> QED BY <2>1, <2>2, DispSetFacts, AgesApart, NewAgeCases
<1>2. AgeBehind(m, f, g, "MAY") =
        IF checkFunctionIntersection(a, a + u, b, b + v)
        THEN getIntersectionalAge("MAY", a, u, b, v)
        ELSE IF b < a THEN b + u ELSE b
  BY DEF AgeBehind
<1>3. z = x + u \/ a + u <= x
  <2>1. CASE \E k \in 1..Len(c) : k < i /\ c[k] = f
    <3>1. PICK k \in 1..Len(c) : k < i /\ c[k] = f
      BY <2>1
    <3> DEFINE y == UsedSizes(c)[k - 1]
    <3>2. y \in Nat /\ y + u <= x /\ a <= y
      BY <3>1, AgesApart DEF MayBounds
    <3> HIDE DEF a, u, x, y
    <3> QED BY <1>1, <3>2
  <2>2. CASE ~\E k \in 1..Len(c) : k < i /\ c[k] = f
    BY <1>1, <2>2, NewAgeCases
  <2> QED BY <2>1, <2>2
<1> HIDE DEF g, a, b, u, v, x, z
<1>4. ~checkFunctionIntersection(a, a + u, b, b + v) /\ b < a => b + v <= a
  BY <1>1 DEF checkFunctionIntersection
<1>5. getIntersectionalAge("MAY", a, u, b, v) <= z
  BY <1>1, <1>3 DEF getIntersectionalAge
<1>6. AgeBehind(m, f, g, "MAY") <= z
  BY <1>1, <1>2, <1>3, <1>4, <1>5
<1> QED BY <1>6 DEF g, z

(* What is not too large for the maintainer fits into the memory.          *)
LEMMA Fits ==
  ASSUME NEW p, p.size = DispSize, NEW f \in Function, ~Outsized(f)
  PROVE  p.size \in Nat /\ getFunctionMemSize(f) <= p.size
BY SizePositive, DispAssumption DEF Outsized

-----------------------------------------------------------------------------
(* update() of the must set keeps it a bound.                              *)
LEMMA UpdateMust ==
  ASSUME NEW p, p.size = DispSize, NEW c, IsContent(p, c),
         NEW m \in MustSets, MustBounds(m, c), NEW f \in Function
  PROVE  MustBounds(DispUpdateSet(m, f, "MUST"), LoadLru(p, c, f))
<1> DEFINE d == LoadLru(p, c, f)
           n == DispUpdateSet(m, f, "MUST")
<1>1. c \in Seq(Function) /\ IsInjective(c) /\ m \in DispSets
  BY DEF IsContent, MustSets
<1>2. /\ \A g \in DOMAIN m :
           /\ g \in Function /\ m[g] \in Nat /\ getFunctionMemSize(g) \in Nat \ {0}
           /\ m[g] + getFunctionMemSize(g) <= DispSize
      /\ getFunctionMemSize(f) \in Nat \ {0} /\ DispSize \in Nat
  BY <1>1, DispSetFacts, SizePositive, DispAssumption
<1>3. CASE Outsized(f)
  <2>1. f \notin DOMAIN m
    BY <1>2, <1>3 DEF Outsized
  <2>2. n = m
    BY <1>3, <2>1 DEF DispUpdateSet, DispAddAddr, isInSet
  <2>3. d = c
    BY <1>3 DEF LoadLru, Outsized
  <2> HIDE DEF d, n
  <2> QED BY <2>2, <2>3 DEF d, n
<1>4. CASE ~Outsized(f)
  <2>1. /\ Len(d) >= 1 /\ d[1] = f /\ d \in Seq(Function)
        /\ \A i \in 1..Len(c) :
             c[i] # f /\ NewAge(c, f, i) + getFunctionMemSize(c[i]) <= DispSize =>
               \E j \in 1..Len(d) : d[j] = c[i] /\ UsedSizes(d)[j - 1] = NewAge(c, f, i)
    <3>1. p.size \in Nat /\ getFunctionMemSize(f) <= p.size
      BY <1>4, Fits
    <3>2. IsContent(p, d) /\ Len(d) >= 1 /\ d[1] = f
      BY <3>1, LoadLruAges
    <3>3. \A i \in 1..Len(c) :
             c[i] # f /\ NewAge(c, f, i) + getFunctionMemSize(c[i]) <= p.size =>
               \E j \in 1..Len(d) : d[j] = c[i] /\ UsedSizes(d)[j - 1] = NewAge(c, f, i)
      BY <3>1, LoadLruAges
    <3> HIDE DEF d
    <3> QED BY <3>2, <3>3 DEF IsContent
  <2> HIDE DEF d
  <2>2. 1 \in 1..Len(d) /\ UsedSizes(d)[1 - 1] = 0
    BY <2>1, UsedFacts
  <2>3. ASSUME NEW g \in DOMAIN n
        PROVE  /\ n[g] \in Nat /\ n[g] + getFunctionMemSize(g) <= DispSize
               /\ getFunctionMemSize(g) \in Nat
    <3>1. n \in DispSets
      BY <1>1, UpdateSetState
    <3> HIDE DEF n
    <3> QED BY <3>1, DispSetFacts
  <2>4. ASSUME NEW g \in DOMAIN n, g # f
        PROVE  /\ g \in DOMAIN m
               /\ \E i \in 1..Len(c) : c[i] = g /\ NewAge(c, f, i) <= n[g]
    <3>1. CASE f \in DOMAIN m
      <4>1. n = DispMoveToFront(m, f, "MUST")
        BY <3>1 DEF DispUpdateSet, isInSet
      <4>2. g \in DOMAIN m /\ n[g] = AgeBehind(m, f, g, "MUST")
        BY <2>4, <4>1 DEF DispMoveToFront
      <4>3. PICK i \in 1..Len(c) : c[i] = g /\ UsedSizes(c)[i - 1] <= m[g]
        BY <4>2 DEF MustBounds
      <4>4. PICK k \in 1..Len(c) : c[k] = f /\ UsedSizes(c)[k - 1] <= m[f]
        BY <3>1 DEF MustBounds
      <4>5. NewAge(c, f, i) <= AgeBehind(m, f, g, "MUST")
        BY <1>1, <2>4, <3>1, <4>2, <4>3, <4>4, MustAge
      <4> HIDE DEF n
      <4> QED BY <4>2, <4>3, <4>5
    <3>2. CASE f \notin DOMAIN m
      <4>1. n = DispAddAddr(m, f)
        BY <3>2 DEF DispUpdateSet, isInSet
      <4>2. g \in DOMAIN m /\ n[g] = m[g] + getFunctionMemSize(f)
        BY <1>4, <2>4, <4>1 DEF DispAddAddr
      <4>3. PICK i \in 1..Len(c) : c[i] = g /\ UsedSizes(c)[i - 1] <= m[g]
        BY <4>2 DEF MustBounds
      <4>4. /\ NewAge(c, f, i) \in Nat
            /\ NewAge(c, f, i) <= UsedSizes(c)[i - 1] + getFunctionMemSize(f)
            /\ UsedSizes(c)[i - 1] \in Nat
        BY <1>1, NewAgeCases, AgesApart
      <4> HIDE DEF n
      <4> QED BY <1>2, <4>2, <4>3, <4>4
    <3> QED BY <3>1, <3>2
  <2> HIDE DEF n
  <2>5. ASSUME NEW g \in DOMAIN n
        PROVE  \E j \in 1..Len(d) : d[j] = g /\ UsedSizes(d)[j - 1] <= n[g]
    <3>1. CASE g = f
      BY <2>1, <2>2, <2>3, <3>1
    <3>2. CASE g # f
      <4>1. PICK i \in 1..Len(c) : c[i] = g /\ NewAge(c, f, i) <= n[g]
        BY <2>4, <3>2
      <4>2. NewAge(c, f, i) + getFunctionMemSize(c[i]) <= DispSize
        <5>1. NewAge(c, f, i) \in Nat
          BY <1>1, NewAgeCases
        <5> QED BY <1>2, <2>3, <4>1, <5>1
      <4>3. PICK j \in 1..Len(d) : d[j] = g /\ UsedSizes(d)[j - 1] = NewAge(c, f, i)
        BY <2>1, <3>2, <4>1, <4>2
      <4> QED BY <4>1, <4>3
    <3> QED BY <3>1, <3>2
  <2> QED BY <2>5 DEF MustBounds, d, n
<1> QED BY <1>3, <1>4

(* update() of the may set keeps it a bound.                               *)
LEMMA UpdateMay ==
  ASSUME NEW p, p.size = DispSize, NEW c, IsContent(p, c),
         NEW m \in DispSets, MayBounds(m, c), NEW f \in Function
  PROVE  MayBounds(DispUpdateSet(m, f, "MAY"), LoadLru(p, c, f))
<1> DEFINE d == LoadLru(p, c, f)
           n == DispUpdateSet(m, f, "MAY")
<1>1. c \in Seq(Function) /\ IsInjective(c)
  BY DEF IsContent
<1>2. /\ \A g \in DOMAIN m :
           /\ g \in Function /\ m[g] \in Nat /\ getFunctionMemSize(g) \in Nat \ {0}
           /\ m[g] + getFunctionMemSize(g) <= DispSize
      /\ getFunctionMemSize(f) \in Nat \ {0} /\ DispSize \in Nat
  BY DispSetFacts, SizePositive, DispAssumption
<1>3. CASE Outsized(f)
  <2>1. f \notin DOMAIN m
    BY <1>2, <1>3 DEF Outsized
  <2>2. n = m
    BY <1>3, <2>1 DEF DispUpdateSet, DispAddAddr, isInSet
  <2>3. d = c
    BY <1>3 DEF LoadLru, Outsized
  <2> HIDE DEF d, n
  <2> QED BY <2>2, <2>3 DEF d, n
<1>4. CASE ~Outsized(f)
  <2>1. /\ Len(d) >= 1 /\ d[1] = f /\ d \in Seq(Function)
        /\ \A j \in 1..Len(d) : d[j] # f => \E i \in 1..Len(c) :
             /\ c[i] # f /\ d[j] = c[i] /\ UsedSizes(d)[j - 1] = NewAge(c, f, i)
             /\ NewAge(c, f, i) + getFunctionMemSize(c[i]) <= DispSize
    BY <1>4, Fits, LoadLruAges DEF IsContent
  <2> HIDE DEF d
  <2>2. f \in DOMAIN n /\ n[f] = 0
    <3>1. CASE f \in DOMAIN m
      <4>1. n = DispMoveToFront(m, f, "MAY")
        BY <3>1 DEF DispUpdateSet, isInSet
      <4>2. f \notin PushedOut(m, f, "MAY")
        BY DEF PushedOut
      <4> QED BY <3>1, <4>1, <4>2 DEF DispMoveToFront
    <3>2. CASE f \notin DOMAIN m
      BY <1>4, <3>2 DEF DispUpdateSet, isInSet, DispAddAddr
    <3> QED BY <3>1, <3>2
  <2>3. ASSUME NEW i \in 1..Len(c), c[i] # f,
               NewAge(c, f, i) + getFunctionMemSize(c[i]) <= DispSize
        PROVE  c[i] \in DOMAIN n /\ n[c[i]] <= NewAge(c, f, i)
    <3>1. /\ c[i] \in DOMAIN m /\ m[c[i]] <= UsedSizes(c)[i - 1]
          /\ UsedSizes(c)[i - 1] \in Nat /\ NewAge(c, f, i) \in Nat
      BY <1>1, AgesApart, NewAgeCases DEF MayBounds
    <3>2. CASE f \in DOMAIN m
      <4>1. n = DispMoveToFront(m, f, "MAY")
        BY <3>2 DEF DispUpdateSet, isInSet
      <4>2. AgeBehind(m, f, c[i], "MAY") <= NewAge(c, f, i)
        BY <1>1, <2>3, <3>2, MayAge
      <4>3. AgeBehind(m, f, c[i], "MAY") \in Nat
        BY <2>3, <3>1, <3>2, AgeBehindFacts
      <4>4. c[i] \notin PushedOut(m, f, "MAY")
        <5>1. AgeBehind(m, f, c[i], "MAY") + getFunctionMemSize(c[i]) <= DispSize
          BY <1>2, <2>3, <3>1, <4>2, <4>3
        <5>2. ~(AgeBehind(m, f, c[i], "MAY") + getFunctionMemSize(c[i]) > DispSize)
          BY <1>2, <3>1, <4>3, <5>1
        <5> QED BY <5>2 DEF PushedOut
      <4>5. c[i] \in DOMAIN n /\ n[c[i]] = AgeBehind(m, f, c[i], "MAY")
        BY <2>3, <3>1, <4>1, <4>4 DEF DispMoveToFront
      <4> QED BY <4>2, <4>5
    <3>3. CASE f \notin DOMAIN m
      <4>1. \A k \in 1..Len(c) : c[k] # f
        BY <3>3 DEF MayBounds
      <4>2. NewAge(c, f, i) = UsedSizes(c)[i - 1] + getFunctionMemSize(f)
        BY <1>1, <4>1, NewAgeCases
      <4>3. m[c[i]] + getFunctionMemSize(f) <= NewAge(c, f, i)
        BY <1>2, <3>1, <4>2
      <4>4. m[c[i]] + getFunctionMemSize(f) + getFunctionMemSize(c[i]) <= DispSize
        BY <1>2, <2>3, <3>1, <4>3
      <4>5. n = DispAddAddr(m, f)
        BY <3>3 DEF DispUpdateSet, isInSet
      <4>6. c[i] \in DOMAIN n /\ n[c[i]] = m[c[i]] + getFunctionMemSize(f)
        BY <1>4, <2>3, <3>1, <4>4, <4>5 DEF DispAddAddr
      <4> QED BY <4>3, <4>6
    <3> QED BY <3>2, <3>3
  <2> HIDE DEF n
  <2>4. ASSUME NEW j \in 1..Len(d)
        PROVE  d[j] \in DOMAIN n /\ n[d[j]] <= UsedSizes(d)[j - 1]
    <3>1. UsedSizes(d)[j - 1] \in Nat
      BY <2>1, AgesApart
    <3>2. CASE d[j] = f
      BY <2>2, <3>1, <3>2
    <3>3. CASE d[j] # f
      BY <2>1, <2>3, <3>3
    <3> QED BY <3>2, <3>3
  <2> QED BY <2>4 DEF MayBounds, d, n
<1> QED BY <1>3, <1>4

(* A state describes the memory if both sets bound it; the may set does so *)
(* if no function begins at the address 0.                                 *)
Describes(s, c) ==
  /\ MustBounds(s.must, c)
  /\ ZeroFunction \notin Function => MayBounds(s.may, c)

(* The memory stays one, and update() follows what it does.                *)
LEMMA LoadedContent ==
  ASSUME NEW p, p.size = DispSize, NEW c, IsContent(p, c), NEW f \in Function
  PROVE  IsContent(p, LoadLru(p, c, f))
<1>1. CASE Outsized(f)
  BY <1>1 DEF LoadLru, Outsized
<1>2. CASE ~Outsized(f)
  BY <1>2, Fits, LoadLruAges
<1> QED BY <1>1, <1>2

LEMMA UpdateDescribes ==
  ASSUME NEW p, p.size = DispSize, NEW c, IsContent(p, c),
         NEW s \in DispStates, Describes(s, c), NEW f \in Function
  PROVE  Describes(DispUpdate(s, f), LoadLru(p, c, f))
<1>1. s.must \in MustSets /\ s.may \in DispSets
  BY DEF DispStates
<1> QED BY <1>1, UpdateMust, UpdateMay DEF Describes, DispUpdate

(* The join of two states describes every memory that one of them does.    *)
LEMMA JoinDescribes ==
  ASSUME NEW s \in DispStates, NEW t \in DispStates, NEW c \in Seq(Function),
         Describes(s, c) \/ Describes(t, c)
  PROVE  Describes(DispJoin(s, t), c)
<1>1. /\ s.must \in DispSets /\ t.must \in DispSets /\ s.may \in DispSets /\ t.may \in DispSets
  BY DEF DispStates, MustSets
<1>2. MustBounds(DispJoinMust(s.must, t.must), c)
  <2> DEFINE d == DispJoinMust(s.must, t.must)
  <2> SUFFICES ASSUME NEW f \in DOMAIN d
               PROVE  \E i \in 1..Len(c) : c[i] = f /\ UsedSizes(c)[i - 1] <= d[f]
    BY DEF MustBounds
  <2>1. /\ f \in DOMAIN s.must /\ f \in DOMAIN t.must
        /\ d[f] = IF s.must[f] > t.must[f] THEN s.must[f] ELSE t.must[f]
    BY DEF DispJoinMust, isInSet
  <2>2. s.must[f] \in Nat /\ t.must[f] \in Nat
    BY <1>1, <2>1, DispSetFacts
  <2> HIDE DEF d
  <2>3. \E i \in 1..Len(c) : c[i] = f /\
          (UsedSizes(c)[i - 1] <= s.must[f] \/ UsedSizes(c)[i - 1] <= t.must[f])
    BY <2>1 DEF Describes, MustBounds
  <2>4. \A i \in 1..Len(c) : UsedSizes(c)[i - 1] \in Nat
    BY AgesApart
  <2> QED BY <2>1, <2>2, <2>3, <2>4
<1>3. ASSUME ZeroFunction \notin Function PROVE MayBounds(DispJoinMay(s.may, t.may), c)
  <2> DEFINE d == DispJoinMay(s.may, t.may)
  <2> SUFFICES ASSUME NEW i \in 1..Len(c)
               PROVE  c[i] \in DOMAIN d /\ d[c[i]] <= UsedSizes(c)[i - 1]
    BY DEF MayBounds
  <2>1. c[i] \in Function /\ c[i] # ZeroFunction /\ UsedSizes(c)[i - 1] \in Nat
    BY <1>3, AgesApart
  <2>2. \/ c[i] \in DOMAIN s.may /\ s.may[c[i]] <= UsedSizes(c)[i - 1]
        \/ c[i] \in DOMAIN t.may /\ t.may[c[i]] <= UsedSizes(c)[i - 1]
    BY <1>3 DEF Describes, MayBounds
  <2>3. /\ c[i] \in DOMAIN s.may => s.may[c[i]] \in Nat
        /\ c[i] \in DOMAIN t.may => t.may[c[i]] \in Nat
    BY <1>1, DispSetFacts
  <2>4. /\ c[i] \in DOMAIN d
        /\ d[c[i]] = IF c[i] \in DOMAIN s.may /\ c[i] \in DOMAIN t.may
                     THEN IF s.may[c[i]] > t.may[c[i]] THEN t.may[c[i]] ELSE s.may[c[i]]
                     ELSE IF c[i] \in DOMAIN s.may THEN s.may[c[i]] ELSE t.may[c[i]]
    BY <2>1, <2>2 DEF DispJoinMay, isInSet, UniqueMemAddrs
  <2> HIDE DEF d
  <2> QED BY <2>1, <2>2, <2>3, <2>4
<1> QED BY <1>2, <1>3 DEF Describes, DispJoin

(* The blank state describes the empty memory.                             *)
LEMMA BlankDescribes ==
  ASSUME NEW p, p.size \in Nat
  PROVE  /\ IsContent(p, << >>)
         /\ Describes(BlankMemState, << >>)
         /\ \A c : MustBounds(BlankMemState.must, c)
<1>1. << >> \in Seq(Function) /\ Len(<< >>) = 0 /\ IsInjective(<< >>)
  BY DEF IsInjective
<1>2. UsedSize(<< >>) = 0
  BY <1>1, UsedFacts DEF UsedSize
<1>3. IsContent(p, << >>)
  BY <1>1, <1>2 DEF IsContent
<1>4. \A c : MustBounds(BlankMemState.must, c)
  BY DEF MustBounds, BlankMemState
<1>5. MayBounds(BlankMemState.may, << >>)
  BY <1>1 DEF MayBounds
<1> QED BY <1>3, <1>4, <1>5 DEF Describes

-----------------------------------------------------------------------------
(***************************************************************************)
(* The memory as the ages of the functions in it; the ages after some      *)
(* functions do not change when the same functions are used again.         *)
(***************************************************************************)
Ages(c) ==
  [f \in {c[i] : i \in 1..Len(c)} |-> UsedSizes(c)[(CHOOSE i \in 1..Len(c) : c[i] = f) - 1]]

(* They fit into the memory, one function behind the other.                *)
AreAges(m) ==
  /\ m = [f \in DOMAIN m |-> m[f]]
  /\ \A f \in DOMAIN m : f \in Function /\ m[f] \in Nat /\ m[f] + getFunctionMemSize(f) <= DispSize
  /\ \A f, g \in DOMAIN m : f # g =>
       m[f] + getFunctionMemSize(f) <= m[g] \/ m[g] + getFunctionMemSize(g) <= m[f]

(* What a load makes of them.                                              *)
AgesLoaded(m, f) ==
  IF Outsized(f) THEN m
  ELSE IF f \in DOMAIN m
  THEN [g \in DOMAIN m |-> IF g = f THEN 0
                          ELSE IF m[g] < m[f] THEN m[g] + getFunctionMemSize(f) ELSE m[g]]
  ELSE [g \in {h \in DOMAIN m :
                 m[h] + getFunctionMemSize(f) + getFunctionMemSize(h) <= DispSize} \cup {f} |->
          IF g = f THEN 0 ELSE m[g] + getFunctionMemSize(f)]

(* The ages of a memory are the sizes of what is in front.                 *)
LEMMA AgesFacts ==
  ASSUME NEW c \in Seq(Function), IsInjective(c)
  PROVE  /\ DOMAIN Ages(c) = {c[i] : i \in 1..Len(c)}
         /\ Ages(c) = [f \in DOMAIN Ages(c) |-> Ages(c)[f]]
         /\ \A i \in 1..Len(c) : Ages(c)[c[i]] = UsedSizes(c)[i - 1]
<1>1. ASSUME NEW i \in 1..Len(c) PROVE Ages(c)[c[i]] = UsedSizes(c)[i - 1]
  <2> DEFINE k == CHOOSE k \in 1..Len(c) : c[k] = c[i]
  <2>1. k \in 1..Len(c) /\ c[k] = c[i]
    OBVIOUS
  <2>2. k = i
    BY <2>1 DEF IsInjective
  <2>3. Ages(c)[c[i]] = UsedSizes(c)[k - 1]
    BY DEF Ages
  <2> HIDE DEF k
  <2> QED BY <2>2, <2>3
<1> QED BY <1>1 DEF Ages

LEMMA ContentAges ==
  ASSUME NEW c, IsContent(Memory, c)
  PROVE  AreAges(Ages(c))
<1>1. c \in Seq(Function) /\ IsInjective(c) /\ UsedSizes(c)[Len(c)] <= DispSize
  BY DEF IsContent, UsedSize, Memory
<1> DEFINE m == Ages(c)
           U == UsedSizes(c)
<1>2. /\ DOMAIN m = {c[i] : i \in 1..Len(c)}
      /\ m = [f \in DOMAIN m |-> m[f]]
      /\ \A i \in 1..Len(c) : m[c[i]] = U[i - 1]
  BY <1>1, AgesFacts
<1>3. /\ \A i \in 1..Len(c) : U[i - 1] \in Nat /\ getFunctionMemSize(c[i]) \in Nat
      /\ \A i, k \in 1..Len(c) : i < k => U[i - 1] + getFunctionMemSize(c[i]) <= U[k - 1]
  BY <1>1, AgesApart, SizePositive
<1>4. ASSUME NEW i \in 1..Len(c) PROVE U[i - 1] + getFunctionMemSize(c[i]) <= DispSize
  <2>1. i - 1 \in 0..Len(c) /\ Len(c) \in 0..Len(c) /\ i - 1 < Len(c) /\ i - 1 <= Len(c)
        /\ (i - 1) + 1 = i
    BY <1>1
  <2>2. U[i - 1] + getFunctionMemSize(c[(i - 1) + 1]) <= U[Len(c)]
    BY <1>1, <2>1, UsedGrows
  <2>3. U[Len(c)] \in Nat /\ DispSize \in Nat
    BY <1>1, <2>1, UsedFacts, DispAssumption
  <2> HIDE DEF U
  <2> QED BY <1>1, <1>3, <2>1, <2>2, <2>3 DEF U
<1> HIDE DEF m, U
<1>5. \A f \in DOMAIN m : f \in Function /\ m[f] \in Nat /\ m[f] + getFunctionMemSize(f) <= DispSize
  <2> TAKE f \in DOMAIN m
  <2>1. PICK i \in 1..Len(c) : c[i] = f
    BY <1>2
  <2>2. c[i] \in Function /\ m[c[i]] = U[i - 1]
    BY <1>1, <1>2
  <2> QED BY <1>3, <1>4, <2>1, <2>2
<1>6. ASSUME NEW f \in DOMAIN m, NEW g \in DOMAIN m, f # g
      PROVE  m[f] + getFunctionMemSize(f) <= m[g] \/ m[g] + getFunctionMemSize(g) <= m[f]
  <2>1. PICK i \in 1..Len(c) : c[i] = f
    BY <1>2
  <2>2. PICK k \in 1..Len(c) : c[k] = g
    BY <1>2
  <2>3. i < k \/ k < i
    BY <1>6, <2>1, <2>2
  <2> QED BY <1>2, <1>3, <2>1, <2>2, <2>3
<1> QED BY <1>2, <1>5, <1>6 DEF AreAges, m

(* Memories with the same ages are described by the same states.           *)
LEMMA SameAges ==
  ASSUME NEW c, IsContent(Memory, c), NEW d, IsContent(Memory, d), Ages(c) = Ages(d), NEW m
  PROVE  /\ MustBounds(m, c) => MustBounds(m, d)
         /\ MayBounds(m, c) => MayBounds(m, d)
<1>1. /\ c \in Seq(Function) /\ IsInjective(c)
      /\ d \in Seq(Function) /\ IsInjective(d)
  BY DEF IsContent
<1>2. /\ DOMAIN Ages(c) = {c[i] : i \in 1..Len(c)} /\ DOMAIN Ages(c) = {d[i] : i \in 1..Len(d)}
      /\ \A i \in 1..Len(c) : Ages(c)[c[i]] = UsedSizes(c)[i - 1]
      /\ \A i \in 1..Len(d) : Ages(c)[d[i]] = UsedSizes(d)[i - 1]
  BY <1>1, AgesFacts
<1>3. ASSUME MustBounds(m, c), NEW f \in DOMAIN m
      PROVE  \E i \in 1..Len(d) : d[i] = f /\ UsedSizes(d)[i - 1] <= m[f]
  <2>1. PICK i \in 1..Len(c) : c[i] = f /\ UsedSizes(c)[i - 1] <= m[f]
    BY <1>3 DEF MustBounds
  <2>2. PICK k \in 1..Len(d) : d[k] = f
    BY <1>2, <2>1
  <2>3. UsedSizes(d)[k - 1] = UsedSizes(c)[i - 1]
    BY <1>2, <2>1, <2>2
  <2> QED BY <2>1, <2>2, <2>3
<1>4. ASSUME MayBounds(m, c), NEW k \in 1..Len(d)
      PROVE  d[k] \in DOMAIN m /\ m[d[k]] <= UsedSizes(d)[k - 1]
  <2>1. PICK i \in 1..Len(c) : c[i] = d[k]
    BY <1>2
  <2> QED BY <1>2, <1>4, <2>1 DEF MayBounds
<1> QED BY <1>3, <1>4 DEF MustBounds, MayBounds

(* The ages follow the memory.                                             *)
LEMMA LoadAges ==
  ASSUME NEW c, IsContent(Memory, c), NEW f \in Function
  PROVE  Ages(LoadLru(Memory, c, f)) = AgesLoaded(Ages(c), f)
<1> DEFINE m == Ages(c)
           d == LoadLru(Memory, c, f)
           n == Ages(d)
           U == UsedSizes(c)
           s == getFunctionMemSize(f)
<1>1. /\ c \in Seq(Function) /\ IsInjective(c)
      /\ Memory.size = DispSize /\ DispSize \in Nat /\ s \in Nat \ {0}
  BY DispAssumption, SizePositive DEF IsContent, Memory
<1>2. CASE Outsized(f)
  BY <1>1, <1>2 DEF LoadLru, Outsized, AgesLoaded
<1>3. CASE ~Outsized(f)
  <2>1. s <= Memory.size /\ Memory.size \in Nat
    BY <1>1, <1>3 DEF Outsized
  <2>2. /\ IsContent(Memory, d) /\ Len(d) >= 1 /\ d[1] = f
        /\ \A i \in 1..Len(c) :
             c[i] # f /\ NewAge(c, f, i) + getFunctionMemSize(c[i]) <= Memory.size =>
               \E j \in 1..Len(d) : d[j] = c[i] /\ UsedSizes(d)[j - 1] = NewAge(c, f, i)
        /\ \A j \in 1..Len(d) : d[j] # f => \E i \in 1..Len(c) :
             /\ c[i] # f /\ d[j] = c[i] /\ UsedSizes(d)[j - 1] = NewAge(c, f, i)
             /\ NewAge(c, f, i) + getFunctionMemSize(c[i]) <= Memory.size
    BY <2>1, LoadLruAges
  <2>3. d \in Seq(Function) /\ IsInjective(d)
    BY <2>2 DEF IsContent
  <2> HIDE DEF d, m, n, U
  <2>4. /\ DOMAIN m = {c[i] : i \in 1..Len(c)} /\ DOMAIN n = {d[i] : i \in 1..Len(d)}
        /\ n = [g \in DOMAIN n |-> n[g]]
        /\ \A i \in 1..Len(c) : m[c[i]] = U[i - 1]
        /\ \A i \in 1..Len(d) : n[d[i]] = UsedSizes(d)[i - 1]
    BY <1>1, <2>3, AgesFacts DEF m, n, U
  <2>5. AreAges(m)
    BY ContentAges DEF m
  <2>6. /\ \A i \in 1..Len(c) : U[i - 1] \in Nat /\ getFunctionMemSize(c[i]) \in Nat \ {0}
        /\ \A i, k \in 1..Len(c) : i < k => U[i - 1] + getFunctionMemSize(c[i]) <= U[k - 1]
    BY <1>1, AgesApart, SizePositive DEF U
  <2>7. ASSUME NEW i \in 1..Len(c), c[i] # f
        PROVE  NewAge(c, f, i) = IF f \in DOMAIN m /\ ~(m[c[i]] < m[f])
                                 THEN m[c[i]] ELSE m[c[i]] + s
    <3>1. /\ \A k \in 1..Len(c) : k < i /\ c[k] = f => NewAge(c, f, i) = U[i - 1]
          /\ (\A k \in 1..Len(c) : k < i => c[k] # f) => NewAge(c, f, i) = U[i - 1] + s
      BY <1>1, NewAgeCases DEF U
    <3>2. CASE f \in DOMAIN m
      <4>1. PICK k \in 1..Len(c) : c[k] = f
        BY <2>4, <3>2
      <4>2. CASE k < i
        <5>1. NewAge(c, f, i) = U[i - 1] /\ U[k - 1] + getFunctionMemSize(c[k]) <= U[i - 1]
          BY <2>6, <3>1, <4>1, <4>2
        <5>2. ~(U[i - 1] < U[k - 1])
          BY <2>6, <4>1, <5>1
        <5>3. m[c[i]] = U[i - 1] /\ m[f] = U[k - 1]
          BY <2>4, <4>1
        <5> HIDE DEF s
        <5> QED BY <3>2, <5>1, <5>2, <5>3
      <4>3. CASE i < k
        <5>1. \A l \in 1..Len(c) : c[l] = f => l = k
          BY <1>1, <4>1 DEF IsInjective
        <5>2. NewAge(c, f, i) = U[i - 1] + s /\ U[i - 1] + getFunctionMemSize(c[i]) <= U[k - 1]
          BY <2>6, <3>1, <4>1, <4>3, <5>1
        <5>3. U[i - 1] < U[k - 1]
          BY <2>6, <5>2
        <5>4. m[c[i]] = U[i - 1] /\ m[f] = U[k - 1]
          BY <2>4, <4>1
        <5> HIDE DEF s
        <5> QED BY <5>2, <5>3, <5>4
      <4>4. k # i
        BY <2>7, <4>1
      <4> QED BY <4>2, <4>3, <4>4
    <3>3. CASE f \notin DOMAIN m
      BY <2>4, <3>1, <3>3
    <3> QED BY <3>2, <3>3
  <2>8. n[f] = 0 /\ f \in DOMAIN n
    <3>1. 1 \in 1..Len(d) /\ 1 - 1 = 0
      BY <2>2, <2>3
    <3>2. UsedSizes(d)[0] = 0
      BY <2>3, UsedFacts
    <3> QED BY <2>2, <2>4, <3>1, <3>2
  <2>9. ASSUME f \in DOMAIN m, NEW i \in 1..Len(c), c[i] # f
        PROVE  NewAge(c, f, i) + getFunctionMemSize(c[i]) <= DispSize
    <3>1. c[i] \in DOMAIN m
      BY <2>4
    <3>2. /\ m[c[i]] \in Nat /\ m[f] \in Nat /\ getFunctionMemSize(c[i]) \in Nat \ {0}
          /\ m[c[i]] + getFunctionMemSize(c[i]) <= DispSize /\ m[f] + s <= DispSize
          /\ \/ m[f] + s <= m[c[i]]
             \/ m[c[i]] + getFunctionMemSize(c[i]) <= m[f]
      BY <2>5, <2>6, <2>9, <3>1 DEF AreAges
    <3> DEFINE t == getFunctionMemSize(c[i])
    <3> HIDE DEF s, t
    <3> QED BY <1>1, <2>7, <2>9, <3>2 DEF t
  <2> DEFINE kept == IF f \in DOMAIN m THEN DOMAIN m
                     ELSE {h \in DOMAIN m : m[h] + s + getFunctionMemSize(h) <= DispSize} \cup {f}
             e == AgesLoaded(m, f)
  <2>10. DOMAIN n = kept
    <3>1. ASSUME NEW g \in DOMAIN n, g # f PROVE g \in kept
      <4>1. PICK i \in 1..Len(c) :
              c[i] = g /\ NewAge(c, f, i) + getFunctionMemSize(c[i]) <= DispSize
        BY <1>1, <2>2, <2>4, <3>1
      <4> QED BY <2>4, <2>7, <3>1, <4>1
    <3>2. ASSUME NEW g \in kept, g # f PROVE g \in DOMAIN n
      <4>1. PICK i \in 1..Len(c) : c[i] = g
        BY <2>4, <3>2
      <4>2. NewAge(c, f, i) + getFunctionMemSize(c[i]) <= DispSize
        <5>1. CASE f \in DOMAIN m
          BY <2>9, <3>2, <4>1, <5>1
        <5>2. CASE f \notin DOMAIN m
          <6>1. NewAge(c, f, i) = m[g] + s /\ m[g] + s + getFunctionMemSize(g) <= DispSize
            BY <2>7, <3>2, <4>1, <5>2
          <6> QED BY <4>1, <6>1
        <5> QED BY <5>1, <5>2
      <4>3. c[i] # f /\ NewAge(c, f, i) + getFunctionMemSize(c[i]) <= Memory.size
        BY <1>1, <3>2, <4>1, <4>2
      <4>4. PICK j \in 1..Len(d) : d[j] = c[i]
        BY <2>2, <4>3
      <4> QED BY <2>4, <4>1, <4>4
    <3> QED BY <2>8, <3>1, <3>2
  <2>11. ASSUME NEW g \in DOMAIN n, g # f
         PROVE  n[g] = IF f \in DOMAIN m /\ ~(m[g] < m[f]) THEN m[g] ELSE m[g] + s
    <3>1. PICK j \in 1..Len(d) : d[j] = g
      BY <2>4
    <3>2. PICK i \in 1..Len(c) : c[i] = g /\ UsedSizes(d)[j - 1] = NewAge(c, f, i)
      BY <2>2, <2>11, <3>1
    <3> QED BY <2>4, <2>7, <2>11, <3>1, <3>2
  <2>12. n = e
    <3>1. CASE f \in DOMAIN m
      <4>1. e = [g \in DOMAIN m |-> IF g = f THEN 0
                                   ELSE IF m[g] < m[f] THEN m[g] + s ELSE m[g]]
        BY <1>3, <3>1 DEF AgesLoaded
      <4>2. DOMAIN n = DOMAIN m
        BY <2>10, <3>1
      <4>3. \A g \in DOMAIN m :
              n[g] = IF g = f THEN 0 ELSE IF m[g] < m[f] THEN m[g] + s ELSE m[g]
        BY <2>8, <2>11, <3>1, <4>2
      <4> HIDE DEF s, e
      <4> QED BY <2>4, <4>1, <4>2, <4>3
    <3>2. CASE f \notin DOMAIN m
      <4>1. e = [g \in kept |-> IF g = f THEN 0 ELSE m[g] + s]
        BY <1>3, <3>2 DEF AgesLoaded
      <4>2. \A g \in kept : n[g] = IF g = f THEN 0 ELSE m[g] + s
        BY <2>8, <2>10, <2>11, <3>2
      <4> HIDE DEF s, e, kept
      <4> QED BY <2>4, <2>10, <4>1, <4>2
    <3> QED BY <3>1, <3>2
  <2> QED BY <2>12 DEF m, n, d
<1> QED BY <1>2, <1>3

-----------------------------------------------------------------------------
AgreeOn(m, n, S) ==
  \A g \in S : /\ g \in DOMAIN m <=> g \in DOMAIN n
               /\ g \in DOMAIN m => m[g] = n[g]

(* The functions used are younger than all others, and the memory does not *)
(* lose one of them as long as it holds any other function.                *)
InFront(m, D) ==
  /\ \A g \in D, h \in DOMAIN m : g \in DOMAIN m /\ h \notin D => m[g] < m[h]
  /\ D \subseteq DOMAIN m \/ DOMAIN m \subseteq D

(* The functions used that the memory can hold, and one more.              *)
WithUsed(D, f) == IF Outsized(f) THEN D ELSE D \cup {f}

(* The numbers the arithmetic of the ages is about.                        *)
LEMMA AgeNumbers ==
  ASSUME NEW m, AreAges(m)
  PROVE  /\ \A g \in DOMAIN m : /\ g \in Function /\ m[g] \in Nat
                                /\ getFunctionMemSize(g) \in Nat \ {0}
                                /\ m[g] + getFunctionMemSize(g) <= DispSize
         /\ \A g, h \in DOMAIN m : g # h =>
              m[g] + getFunctionMemSize(g) <= m[h] \/ m[h] + getFunctionMemSize(h) <= m[g]
         /\ DispSize \in Nat
BY SizePositive, DispAssumption DEF AreAges

(* A load yields ages.                                                     *)
LEMMA AgesLoadedType ==
  ASSUME NEW m, AreAges(m), NEW f \in Function
  PROVE  AreAges(AgesLoaded(m, f))
<1> DEFINE s == getFunctionMemSize(f)
           e == AgesLoaded(m, f)
<1>1. /\ \A g \in DOMAIN m : /\ g \in Function /\ m[g] \in Nat
                             /\ getFunctionMemSize(g) \in Nat \ {0}
                             /\ m[g] + getFunctionMemSize(g) <= DispSize
      /\ \A g, h \in DOMAIN m : g # h =>
           m[g] + getFunctionMemSize(g) <= m[h] \/ m[h] + getFunctionMemSize(h) <= m[g]
      /\ DispSize \in Nat /\ s \in Nat \ {0}
  BY AgeNumbers, SizePositive
<1>2. CASE Outsized(f)
  BY <1>2 DEF AgesLoaded
<1>3. CASE ~Outsized(f) /\ f \in DOMAIN m
  <2>1. e = [g \in DOMAIN m |-> IF g = f THEN 0 ELSE IF m[g] < m[f] THEN m[g] + s ELSE m[g]]
    BY <1>3 DEF AgesLoaded
  <2> HIDE DEF e
  <2>2. ASSUME NEW g \in DOMAIN e
        PROVE  g \in Function /\ e[g] \in Nat /\ e[g] + getFunctionMemSize(g) <= DispSize
    BY <1>1, <1>3, <2>1
  <2>3. ASSUME NEW g \in DOMAIN e, NEW h \in DOMAIN e, g # h
        PROVE  e[g] + getFunctionMemSize(g) <= e[h] \/ e[h] + getFunctionMemSize(h) <= e[g]
    BY <1>1, <1>3, <2>1, <2>3
  <2>4. e = [g \in DOMAIN e |-> e[g]]
    BY <2>1
  <2> QED BY <2>2, <2>3, <2>4 DEF AreAges, e
<1>4. CASE ~Outsized(f) /\ f \notin DOMAIN m
  <2>1. e = [g \in {h \in DOMAIN m : m[h] + s + getFunctionMemSize(h) <= DispSize} \cup {f} |->
               IF g = f THEN 0 ELSE m[g] + s]
    BY <1>4 DEF AgesLoaded
  <2>2. s <= DispSize
    BY <1>1, <1>4 DEF Outsized
  <2> HIDE DEF e
  <2>3. ASSUME NEW g \in DOMAIN e
        PROVE  g \in Function /\ e[g] \in Nat /\ e[g] + getFunctionMemSize(g) <= DispSize
    BY <1>1, <1>4, <2>1, <2>2
  <2>4. ASSUME NEW g \in DOMAIN e, NEW h \in DOMAIN e, g # h
        PROVE  e[g] + getFunctionMemSize(g) <= e[h] \/ e[h] + getFunctionMemSize(h) <= e[g]
    BY <1>1, <1>4, <2>1, <2>4
  <2>5. e = [g \in DOMAIN e |-> e[g]]
    BY <2>1
  <2> QED BY <2>3, <2>4, <2>5 DEF AreAges, e
<1> QED BY <1>2, <1>3, <1>4

(* A load puts its function in front.                                      *)
LEMMA FrontStep ==
  ASSUME NEW m, AreAges(m), NEW D \in SUBSET Function, NEW f \in Function, InFront(m, D)
  PROVE  InFront(AgesLoaded(m, f), WithUsed(D, f))
<1> DEFINE s == getFunctionMemSize(f)
           e == AgesLoaded(m, f)
           E == D \cup {f}
<1>1. /\ \A g \in DOMAIN m : /\ g \in Function /\ m[g] \in Nat
                             /\ getFunctionMemSize(g) \in Nat \ {0}
                             /\ m[g] + getFunctionMemSize(g) <= DispSize
      /\ \A g, h \in DOMAIN m : g # h =>
           m[g] + getFunctionMemSize(g) <= m[h] \/ m[h] + getFunctionMemSize(h) <= m[g]
      /\ DispSize \in Nat /\ s \in Nat \ {0}
  BY AgeNumbers, SizePositive
<1>2. /\ \A g \in D, h \in DOMAIN m : g \in DOMAIN m /\ h \notin D => m[g] < m[h]
      /\ D \subseteq DOMAIN m \/ DOMAIN m \subseteq D
  BY DEF InFront
<1>3. CASE Outsized(f)
  BY <1>3 DEF AgesLoaded, WithUsed
<1>4. CASE ~Outsized(f) /\ f \in DOMAIN m
  <2>1. e = [g \in DOMAIN m |-> IF g = f THEN 0 ELSE IF m[g] < m[f] THEN m[g] + s ELSE m[g]]
    BY <1>4 DEF AgesLoaded
  <2> HIDE DEF e
  <2>2. ASSUME NEW g \in E, NEW h \in DOMAIN e, g \in DOMAIN e, h \notin E
        PROVE  e[g] < e[h]
    <3>1. CASE f \in D
      BY <1>1, <1>2, <1>4, <2>1, <2>2, <3>1
    <3>2. CASE f \notin D
      BY <1>1, <1>2, <1>4, <2>1, <2>2, <3>2
    <3> QED BY <3>1, <3>2
  <2>3. E \subseteq DOMAIN e \/ DOMAIN e \subseteq E
    BY <1>2, <1>4, <2>1
  <2> QED BY <1>4, <2>2, <2>3 DEF InFront, WithUsed, e
<1>5. CASE ~Outsized(f) /\ f \notin DOMAIN m
  <2>1. e = [g \in {h \in DOMAIN m : m[h] + s + getFunctionMemSize(h) <= DispSize} \cup {f} |->
               IF g = f THEN 0 ELSE m[g] + s]
    BY <1>5 DEF AgesLoaded
  <2> HIDE DEF e
  <2>2. ASSUME NEW g \in E, NEW h \in DOMAIN e, g \in DOMAIN e, h \notin E
        PROVE  e[g] < e[h]
    BY <1>1, <1>2, <1>5, <2>1, <2>2
  <2>3. E \subseteq DOMAIN e \/ DOMAIN e \subseteq E
    <3>1. CASE DOMAIN m \subseteq D
      BY <2>1, <3>1
    <3>2. CASE D \subseteq DOMAIN m /\ \A g \in D : m[g] + s + getFunctionMemSize(g) <= DispSize
      BY <2>1, <3>2
    <3>3. CASE D \subseteq DOMAIN m /\ \E g \in D : ~(m[g] + s + getFunctionMemSize(g) <= DispSize)
      <4>1. PICK z \in D : z \in DOMAIN m /\ ~(m[z] + s + getFunctionMemSize(z) <= DispSize)
        BY <3>3
      <4>2. ASSUME NEW h \in DOMAIN m, h \notin D
            PROVE  ~(m[h] + s + getFunctionMemSize(h) <= DispSize)
        <5>1. m[z] + getFunctionMemSize(z) <= m[h]
          BY <1>1, <1>2, <4>1, <4>2
        <5> QED BY <1>1, <4>1, <4>2, <5>1
      <4> QED BY <2>1, <4>2
    <3> QED BY <1>2, <3>1, <3>2, <3>3
  <2> QED BY <1>5, <2>2, <2>3 DEF InFront, WithUsed, e
<1> QED BY <1>3, <1>4, <1>5

(* Ages that agree on the functions used agree on them and one more.       *)
LEMMA SameStep ==
  ASSUME NEW m, AreAges(m), NEW n, AreAges(n), NEW D \in SUBSET Function, NEW f \in Function,
         InFront(m, D), InFront(n, D), AgreeOn(m, n, D)
  PROVE  AgreeOn(AgesLoaded(m, f), AgesLoaded(n, f), WithUsed(D, f))
<1> DEFINE s == getFunctionMemSize(f)
           d == AgesLoaded(m, f)
           e == AgesLoaded(n, f)
<1>1. /\ \A g \in DOMAIN m : /\ g \in Function /\ m[g] \in Nat
                             /\ getFunctionMemSize(g) \in Nat \ {0}
                             /\ m[g] + getFunctionMemSize(g) <= DispSize
      /\ \A g, h \in DOMAIN m : g # h =>
           m[g] + getFunctionMemSize(g) <= m[h] \/ m[h] + getFunctionMemSize(h) <= m[g]
      /\ \A g \in DOMAIN n : /\ g \in Function /\ n[g] \in Nat
                             /\ getFunctionMemSize(g) \in Nat \ {0}
                             /\ n[g] + getFunctionMemSize(g) <= DispSize
      /\ \A g, h \in DOMAIN n : g # h =>
           n[g] + getFunctionMemSize(g) <= n[h] \/ n[h] + getFunctionMemSize(h) <= n[g]
      /\ DispSize \in Nat /\ s \in Nat \ {0}
  BY AgeNumbers, SizePositive
<1>2. /\ \A g \in D, h \in DOMAIN m : g \in DOMAIN m /\ h \notin D => m[g] < m[h]
      /\ \A g \in D, h \in DOMAIN n : g \in DOMAIN n /\ h \notin D => n[g] < n[h]
      /\ \A g \in D : /\ g \in DOMAIN m <=> g \in DOMAIN n
                      /\ g \in DOMAIN m => m[g] = n[g]
  BY DEF InFront, AgreeOn
<1>3. CASE Outsized(f)
  BY <1>3 DEF AgesLoaded, WithUsed
<1>4. CASE ~Outsized(f)
  <2>1. f \in DOMAIN d /\ d[f] = 0 /\ f \in DOMAIN e /\ e[f] = 0
    BY <1>4 DEF AgesLoaded
  <2>2. /\ f \in DOMAIN m =>
             d = [g \in DOMAIN m |-> IF g = f THEN 0 ELSE IF m[g] < m[f] THEN m[g] + s ELSE m[g]]
        /\ f \notin DOMAIN m =>
             d = [g \in {h \in DOMAIN m : m[h] + s + getFunctionMemSize(h) <= DispSize} \cup {f} |->
                    IF g = f THEN 0 ELSE m[g] + s]
        /\ f \in DOMAIN n =>
             e = [g \in DOMAIN n |-> IF g = f THEN 0 ELSE IF n[g] < n[f] THEN n[g] + s ELSE n[g]]
        /\ f \notin DOMAIN n =>
             e = [g \in {h \in DOMAIN n : n[h] + s + getFunctionMemSize(h) <= DispSize} \cup {f} |->
                    IF g = f THEN 0 ELSE n[g] + s]
    BY <1>4 DEF AgesLoaded
  <2> HIDE DEF d, e, s
  <2>3. ASSUME NEW g \in D, g # f
        PROVE  /\ g \in DOMAIN d <=> g \in DOMAIN e
               /\ g \in DOMAIN d => d[g] = e[g]
    <3>1. CASE f \in DOMAIN m /\ f \in DOMAIN n
      BY <1>1, <1>2, <2>2, <2>3, <3>1
    <3>2. CASE f \in DOMAIN m /\ f \notin DOMAIN n
      <4>1. f \notin D
        BY <1>2, <3>2
      <4>2. g \in DOMAIN m => /\ m[g] < m[f] /\ m[g] + getFunctionMemSize(g) <= m[f]
                              /\ m[g] + s + getFunctionMemSize(g) <= DispSize
        BY <1>1, <1>2, <2>3, <3>2, <4>1 DEF s
      <4> QED BY <1>2, <2>2, <2>3, <3>2, <4>2
    <3>3. CASE f \notin DOMAIN m /\ f \in DOMAIN n
      <4>1. f \notin D
        BY <1>2, <3>3
      <4>2. g \in DOMAIN n => /\ n[g] < n[f] /\ n[g] + getFunctionMemSize(g) <= n[f]
                              /\ n[g] + s + getFunctionMemSize(g) <= DispSize
        BY <1>1, <1>2, <2>3, <3>3, <4>1 DEF s
      <4> QED BY <1>2, <2>2, <2>3, <3>3, <4>2
    <3>4. CASE f \notin DOMAIN m /\ f \notin DOMAIN n
      BY <1>2, <2>2, <2>3, <3>4
    <3> QED BY <3>1, <3>2, <3>3, <3>4
  <2>4. WithUsed(D, f) = D \cup {f}
    BY <1>4 DEF WithUsed
  <2> QED BY <2>1, <2>3, <2>4 DEF AgreeOn, d, e
<1> QED BY <1>3, <1>4

(* A function that is in front already moves nothing behind the front.     *)
LEMMA RestStep ==
  ASSUME NEW m, AreAges(m), NEW D \in SUBSET Function, NEW f \in Function,
         InFront(m, D), Outsized(f) \/ f \in D
  PROVE  AgreeOn(AgesLoaded(m, f), m, Function \ D)
<1>1. /\ \A g \in DOMAIN m : m[g] \in Nat
      /\ \A g \in D, h \in DOMAIN m : g \in DOMAIN m /\ h \notin D => m[g] < m[h]
      /\ D \subseteq DOMAIN m \/ DOMAIN m \subseteq D
  BY AgeNumbers DEF InFront
<1>2. CASE Outsized(f)
  BY <1>2 DEF AgesLoaded, AgreeOn
<1>3. CASE ~Outsized(f) /\ f \in DOMAIN m
  BY <1>1, <1>3 DEF AgesLoaded, AgreeOn
<1>4. CASE ~Outsized(f) /\ f \notin DOMAIN m
  BY <1>1, <1>4 DEF AgesLoaded, AgreeOn
<1> QED BY <1>2, <1>3, <1>4

-----------------------------------------------------------------------------
(* The ages along the use of some functions.                               *)
IsRun(r, calls, n) ==
  AreAges(r[0]) /\ \A k \in 1..n : r[k] = AgesLoaded(r[k - 1], calls[k])

UsedUpTo(calls, n) == {f \in Function : ~Outsized(f) /\ \E k \in 1..n : calls[k] = f}

(* One function more in a run.                                             *)
LEMMA UpToNext ==
  ASSUME NEW calls, NEW k \in Nat, calls[k + 1] \in Function
  PROVE  UsedUpTo(calls, k + 1) = WithUsed(UsedUpTo(calls, k), calls[k + 1])
<1>1. \A i : i \in 1..k + 1 <=> i \in 1..k \/ i = k + 1
  OBVIOUS
<1> QED BY <1>1 DEF UsedUpTo, WithUsed

(* All of a run are ages, with what was used in front.                     *)
LEMMA RunFacts ==
  ASSUME NEW calls \in Seq(Function), NEW n \in 0..Len(calls), NEW r, IsRun(r, calls, n),
         NEW k \in 0..n
  PROVE  /\ AreAges(r[k])
         /\ InFront(r[k], UsedUpTo(calls, k))
<1> DEFINE Good == {j \in Nat : j <= n => AreAges(r[j]) /\ InFront(r[j], UsedUpTo(calls, j))}
<1>0. \A j : UsedUpTo(calls, j) \in SUBSET Function
  BY DEF UsedUpTo
<1>1. 0 \in Good
  <2>1. UsedUpTo(calls, 0) = {}
    BY DEF UsedUpTo
  <2> QED BY <2>1 DEF IsRun, InFront
<1>2. ASSUME NEW j \in Good PROVE j + 1 \in Good
  <2> SUFFICES ASSUME j + 1 <= n
               PROVE  AreAges(r[j + 1]) /\ InFront(r[j + 1], UsedUpTo(calls, j + 1))
    OBVIOUS
  <2>1. /\ j \in Nat /\ j <= n /\ j + 1 \in 1..n /\ (j + 1) - 1 = j
        /\ calls[j + 1] \in Function
    OBVIOUS
  <2>2. AreAges(r[j]) /\ InFront(r[j], UsedUpTo(calls, j))
    BY <2>1
  <2>3. r[j + 1] = AgesLoaded(r[j], calls[j + 1])
    BY <2>1 DEF IsRun
  <2> HIDE DEF Good
  <2> QED BY <1>0, <2>1, <2>2, <2>3, UpToNext, AgesLoadedType, FrontStep
<1>3. Good = Nat
  <2>1. Good \in SUBSET Nat
    OBVIOUS
  <2> HIDE DEF Good
  <2> QED BY <1>1, <1>2, <2>1, SetInduction
<1> QED BY <1>3

(* The second time the functions of a loop are used they leave the memory  *)
(* as the first time left it.                                              *)
LEMMA SecondTime ==
  ASSUME NEW calls \in Seq(Function), NEW g, IsRun(g, calls, Len(calls)),
         NEW r, IsRun(r, calls, Len(calls)), r[0] = g[Len(calls)]
  PROVE  r[Len(calls)] = g[Len(calls)]
<1> DEFINE n == Len(calls)
           D == UsedUpTo(calls, n)
           m == g[n]
           Good == {j \in Nat : j <= n =>
                      /\ AgreeOn(r[j], g[j], UsedUpTo(calls, j))
                      /\ AgreeOn(r[j], m, Function \ D)
                      /\ InFront(r[j], D)}
<1>0. \A j : UsedUpTo(calls, j) \in SUBSET Function
  BY DEF UsedUpTo
<1>1. n \in Nat /\ n \in 0..n /\ n \in 0..Len(calls)
  OBVIOUS
<1>2. \A k \in 0..n : /\ AreAges(r[k]) /\ InFront(r[k], UsedUpTo(calls, k))
                      /\ AreAges(g[k]) /\ InFront(g[k], UsedUpTo(calls, k))
  BY <1>1, RunFacts
<1>3. AreAges(m) /\ InFront(m, D) /\ D \in SUBSET Function
  BY <1>0, <1>1, <1>2
<1>4. 0 \in Good
  <2>1. UsedUpTo(calls, 0) = {}
    BY DEF UsedUpTo
  <2> QED BY <1>3, <2>1 DEF AgreeOn
<1>5. ASSUME NEW j \in Good PROVE j + 1 \in Good
  <2> SUFFICES ASSUME j + 1 <= n
               PROVE  /\ AgreeOn(r[j + 1], g[j + 1], UsedUpTo(calls, j + 1))
                      /\ AgreeOn(r[j + 1], m, Function \ D)
                      /\ InFront(r[j + 1], D)
    OBVIOUS
  <2>1. /\ j \in Nat /\ j <= n /\ j \in 0..n /\ j + 1 \in 1..n /\ (j + 1) - 1 = j
        /\ calls[j + 1] \in Function
    BY <1>1
  <2>2. /\ AgreeOn(r[j], g[j], UsedUpTo(calls, j))
        /\ AgreeOn(r[j], m, Function \ D)
        /\ InFront(r[j], D)
    BY <2>1
  <2>3. /\ r[j + 1] = AgesLoaded(r[j], calls[j + 1])
        /\ g[j + 1] = AgesLoaded(g[j], calls[j + 1])
    BY <2>1 DEF IsRun
  <2>4. /\ Outsized(calls[j + 1]) \/ calls[j + 1] \in D
        /\ WithUsed(D, calls[j + 1]) = D
    BY <2>1 DEF UsedUpTo, WithUsed
  <2> HIDE DEF D, m, Good, n
  <2>5. AgreeOn(r[j + 1], g[j + 1], UsedUpTo(calls, j + 1))
    BY <1>0, <1>2, <2>1, <2>2, <2>3, UpToNext, SameStep
  <2>6. InFront(r[j + 1], D)
    <3>1. InFront(r[j + 1], WithUsed(D, calls[j + 1]))
      BY <1>2, <1>3, <2>1, <2>2, <2>3, FrontStep
    <3> QED BY <2>4, <3>1
  <2>7. AgreeOn(r[j + 1], r[j], Function \ D)
    BY <1>2, <1>3, <2>1, <2>2, <2>3, <2>4, RestStep
  <2>8. AgreeOn(r[j + 1], m, Function \ D)
    BY <2>2, <2>7 DEF AgreeOn
  <2> QED BY <2>5, <2>6, <2>8
<1>6. Good = Nat
  <2>1. Good \in SUBSET Nat
    OBVIOUS
  <2> HIDE DEF Good
  <2> QED BY <1>4, <1>5, <2>1, SetInduction
<1>7. AgreeOn(r[n], m, D) /\ AgreeOn(r[n], m, Function \ D)
  <2>1. n <= n
    BY <1>1
  <2>2. n \in Good
    <3> HIDE DEF Good, n
    <3> QED BY <1>1, <1>6
  <2> HIDE DEF n
  <2> QED BY <2>1, <2>2
<1>8. AreAges(r[n]) /\ AreAges(m)
  BY <1>1, <1>2
<1> HIDE DEF D, m, n
<1>9. AgreeOn(r[n], m, Function)
  BY <1>7 DEF AgreeOn
<1>10. /\ DOMAIN m \subseteq Function /\ m = [h \in DOMAIN m |-> m[h]]
       /\ DOMAIN r[n] \subseteq Function /\ r[n] = [h \in DOMAIN r[n] |-> r[n][h]]
  BY <1>8 DEF AreAges
<1>11. DOMAIN r[n] = DOMAIN m /\ \A h \in DOMAIN m : r[n][h] = m[h]
  BY <1>9, <1>10 DEF AgreeOn
<1>12. r[n] = m
  BY <1>10, <1>11
<1> QED BY <1>12 DEF m, n

(* A run of no function, and one of a function more.                       *)
LEMMA NewRun ==
  ASSUME NEW m, AreAges(m), NEW calls
  PROVE  \E r : IsRun(r, calls, 0) /\ r[0] = m
<1> WITNESS [k \in {0} |-> m]
<1> QED BY DEF IsRun

LEMMA RunMore ==
  ASSUME NEW calls, NEW n \in Nat, NEW r, IsRun(r, calls, n)
  PROVE  \E h : /\ IsRun(h, calls, n + 1) /\ h[0] = r[0]
                /\ h[n + 1] = AgesLoaded(r[n], calls[n + 1])
<1> DEFINE m == AgesLoaded(r[n], calls[n + 1])
           h == [k \in 0..n + 1 |-> IF k = n + 1 THEN m ELSE r[k]]
<1>1. /\ \A k \in 0..n : h[k] = r[k]
      /\ h[n + 1] = m /\ (n + 1) - 1 = n
  OBVIOUS
<1>2. \A k \in 1..n + 1 : k - 1 \in 0..n /\ (k = n + 1 \/ k \in 1..n) /\ (k \in 1..n => k \in 0..n)
  OBVIOUS
<1> HIDE DEF h, m
<1>3. h[0] = r[0]
  BY <1>1
<1>4. IsRun(h, calls, n + 1)
  <2>1. AreAges(h[0])
    BY <1>3 DEF IsRun
  <2>2. ASSUME NEW k \in 1..n + 1 PROVE h[k] = AgesLoaded(h[k - 1], calls[k])
    <3>1. h[k - 1] = r[k - 1]
      BY <1>1, <1>2
    <3>2. CASE k = n + 1
      BY <1>1, <3>1, <3>2 DEF m
    <3>3. CASE k \in 1..n
      <4>1. h[k] = r[k]
        BY <1>1, <1>2, <3>3
      <4> QED BY <3>1, <3>3, <4>1 DEF IsRun
    <3> QED BY <1>2, <3>2, <3>3
  <2> QED BY <2>1, <2>2 DEF IsRun
<1> QED BY <1>1, <1>3, <1>4 DEF m

-----------------------------------------------------------------------------
(***************************************************************************)
(* The contexts of the worklist.                                           *)
(***************************************************************************)

(* The worklist holds the entry and nodes that have a context.             *)
CInv ==
  /\ msg \in MSGs
  /\ processing \in Seq(Node)
  /\ memStateVal \in [Node -> BOOLEAN]
  /\ DOMAIN ctxMap \subseteq Node
  /\ \A i \in 1..Len(processing) :
       processing[i] = Entry \/ processing[i] \in DOMAIN ctxMap
  /\ ContextsMatchCalls

(* What the graph says of contexts and forward edges.                      *)
LEMMA CallGraphFacts ==
  ASSUME msg \in MSGs
  PROVE  /\ msg.type \in [Node -> NodeTypes] /\ msg.func \in [Node -> Function]
         /\ msg.context \in [Node -> Seq(Function)]
         /\ msg.out \in [Node -> Seq(Edges)] /\ msg.in \in [Node -> Seq(Edges)]
         /\ msg.context[Entry] = << >>
         /\ \A n \in Node : \A i \in 1..Len(msg.out[n]) :
              /\ msg.out[n][i].node \in Node
              /\ msg.context[msg.out[n][i].node] = ContextAfter(msg, n, msg.context[n])
         /\ \A n \in Node : ForwardEdges(msg.out[n]) \in Seq(Node)
         /\ \A n \in Node : \A i \in 1..Len(ForwardEdges(msg.out[n])) :
              msg.context[ForwardEdges(msg.out[n])[i]] = ContextAfter(msg, n, msg.context[n])
<1>1. IsCallGraph(msg)
  BY GraphAssumption
<1>2. /\ msg.type \in [Node -> NodeTypes] /\ msg.func \in [Node -> Function]
      /\ msg.context \in [Node -> Seq(Function)]
      /\ msg.out \in [Node -> Seq(Edges)] /\ msg.in \in [Node -> Seq(Edges)]
  BY <1>1 DEF IsCallGraph, CallGraphs
<1>3. \A n \in Node : \A i \in 1..Len(msg.out[n]) :
        /\ msg.out[n][i].node \in Node
        /\ msg.context[msg.out[n][i].node] = ContextAfter(msg, n, msg.context[n])
  <2> TAKE n \in Node
  <2> TAKE i \in 1..Len(msg.out[n])
  <2>1. msg.out[n][i] \in Edges
    BY <1>2
  <2> QED BY <1>1, <2>1 DEF IsCallGraph, Edges
<1>4. \A n \in Node : ForwardEdges(msg.out[n]) \in Seq(Node)
  BY <1>2, ForwardEdgesMembers
<1>5. ASSUME NEW n \in Node, NEW i \in 1..Len(ForwardEdges(msg.out[n]))
      PROVE  msg.context[ForwardEdges(msg.out[n])[i]] = ContextAfter(msg, n, msg.context[n])
  <2>1. ForwardEdges(msg.out[n])[i] \in Node
    BY <1>4
  <2>2. HasForwardEdge(msg.out[n], ForwardEdges(msg.out[n])[i])
    BY <1>2, <2>1, ForwardEdgesMembers
  <2> QED BY <1>3, <2>2 DEF HasForwardEdge
<1>6. msg.context[Entry] = << >>
  BY <1>1 DEF IsCallGraph
<1> QED BY <1>2, <1>3, <1>4, <1>5, <1>6

-----------------------------------------------------------------------------
(* Only the entry has a context to come.                                   *)
LEMMA CInit == Init => CInv
BY EndsAssumption DEF Init, CInv, ContextsMatchCalls

(* The popped node is the entry or has a context, and in both cases        *)
(* getContextForNode finds the chain of calls of the node.                 *)
LEMMA PoppedContext ==
  ASSUME CInv, processing # << >>
  PROVE  /\ Actual \in Node
         /\ Rest \in Seq(Node)
         /\ \A i \in 1..Len(Rest) : Rest[i] = processing[i] /\ i \in 1..Len(processing)
         /\ getContextForNode(Actual) = msg.context[Actual]
<1>1. Actual \in Node /\ Len(processing) \in 1..Len(processing)
  BY DEF CInv, Actual
<1>2. Rest \in Seq(Node) /\ \A i \in 1..Len(Rest) : Rest[i] = processing[i] /\ i \in 1..Len(processing)
  BY DEF CInv, Rest
<1>3. getContextForNode(Actual) = msg.context[Actual]
  <2>1. CASE Actual \in DOMAIN ctxMap
    BY <2>1 DEF CInv, ContextsMatchCalls, getContextForNode
  <2>2. CASE Actual \notin DOMAIN ctxMap
    <3>1. Actual = Entry
      BY <1>1, <2>2 DEF CInv, Actual
    <3> QED BY <2>2, <3>1, CallGraphFacts DEF CInv, getContextForNode
  <2> QED BY <2>1, <2>2
<1> QED BY <1>1, <1>2, <1>3

(* Giving a node its state gives its successors the context of the calls   *)
(* they were copied for.                                                   *)
LEMMA SetStateContexts ==
  ASSUME CInv, processing # << >>, NEW state, SetState(Actual, state)
  PROVE  CInv'
<1> DEFINE pushed == ForwardEdges(msg.out[Actual])
           next == {pushed[i] : i \in 1..Len(pushed)}
<1>1. /\ Actual \in Node /\ Rest \in Seq(Node)
      /\ \A i \in 1..Len(Rest) : Rest[i] = processing[i] /\ i \in 1..Len(processing)
      /\ getContextForNode(Actual) = msg.context[Actual]
  BY PoppedContext
<1>2. /\ pushed \in Seq(Node)
      /\ \A i \in 1..Len(pushed) : pushed[i] \in Node
      /\ \A m \in next : m \in Node /\ msg.context[m] = ContextAfter(msg, Actual, msg.context[Actual])
  <2>1. pushed \in Seq(Node)
    BY <1>1, CallGraphFacts DEF CInv
  <2>2. \A i \in 1..Len(pushed) :
          msg.context[pushed[i]] = ContextAfter(msg, Actual, msg.context[Actual])
    BY <1>1, CallGraphFacts DEF CInv
  <2> HIDE DEF pushed
  <2> QED BY <2>1, <2>2
<1>3. /\ memStateVal' = [memStateVal EXCEPT ![Actual] = TRUE]
      /\ processing' = Rest \o pushed
      /\ msg' = msg
      /\ ctxMap' = [m \in DOMAIN ctxMap \cup next \cup {Actual} |->
                      IF m \in DOMAIN ctxMap \/ m = Actual THEN getContextForNode(m)
                      ELSE updateContextForNode(Actual)]
  BY DEF SetState, addContextForNode
<1>4. DOMAIN ctxMap' = DOMAIN ctxMap \cup next \cup {Actual}
  BY <1>3
<1>5. ASSUME NEW m \in DOMAIN ctxMap' PROVE ctxMap'[m] = msg.context[m]
  <2>1. CASE m \in DOMAIN ctxMap
    BY <1>3, <2>1 DEF CInv, ContextsMatchCalls, getContextForNode
  <2>2. CASE m = Actual
    BY <1>1, <1>3, <1>4, <2>2
  <2>3. CASE m \notin DOMAIN ctxMap /\ m # Actual
    <3>1. ctxMap'[m] = updateContextForNode(Actual) /\ m \in next
      BY <1>3, <1>4, <2>3
    <3> QED BY <1>1, <1>2, <3>1 DEF updateContextForNode
  <2> QED BY <2>1, <2>2, <2>3
<1>6. processing' \in Seq(Node)
  BY <1>1, <1>2, <1>3
<1>7. ASSUME NEW i \in 1..Len(processing')
      PROVE  processing'[i] = Entry \/ processing'[i] \in DOMAIN ctxMap'
  <2>1. CASE i \in 1..Len(Rest)
    <3>1. processing'[i] = processing[i] /\ i \in 1..Len(processing)
      BY <1>1, <1>2, <1>3, <2>1
    <3> QED BY <1>4, <3>1 DEF CInv
  <2>2. CASE i \notin 1..Len(Rest)
    <3>1. i - Len(Rest) \in 1..Len(pushed) /\ processing'[i] = pushed[i - Len(Rest)]
      BY <1>1, <1>2, <1>3, <2>2
    <3> QED BY <1>4, <3>1
  <2> QED BY <2>1, <2>2
<1>8. /\ memStateVal' \in [Node -> BOOLEAN]
      /\ \A n \in Node : memStateVal'[n] => n \in DOMAIN ctxMap'
  BY <1>1, <1>3, <1>4 DEF CInv, ContextsMatchCalls
<1>9. DOMAIN ctxMap' \subseteq Node
  BY <1>1, <1>2, <1>4 DEF CInv
<1> QED BY <1>3, <1>5, <1>6, <1>7, <1>8, <1>9 DEF CInv, ContextsMatchCalls

(* Every step of the analysis keeps the contexts right.                    *)
LEMMA CNext == CInv /\ [Next]_vars => CInv'
<1> SUFFICES ASSUME CInv, [Next]_vars PROVE CInv'
  OBVIOUS
<1>1. CASE DropNode
  <2>1. processing # << >> /\ processing' = Rest /\ UNCHANGED <<msg, memStateVal, ctxMap>>
    BY <1>1 DEF DropNode, Pending
  <2> QED BY <2>1, PoppedContext DEF CInv, ContextsMatchCalls
<1>2. CASE JoinAndSetInitialMemState
  BY <1>2, SetStateContexts DEF JoinAndSetInitialMemState, Pending
<1>3. CASE SetInitialMemState
  BY <1>3, SetStateContexts DEF SetInitialMemState, Pending
<1>4. CASE AssertionFails
  BY <1>4 DEF AssertionFails, CInv, ContextsMatchCalls
<1>5. CASE CalculateMemPenalty
  BY <1>5 DEF CalculateMemPenalty, CInv, ContextsMatchCalls
<1>6. CASE UNCHANGED vars
  BY <1>6 DEF vars, CInv, ContextsMatchCalls
<1> QED BY <1>1, <1>2, <1>3, <1>4, <1>5, <1>6 DEF Next

(* The first context addContextForNode keeps for a node is the right one,  *)
(* however many predecessors bring one.                                    *)
THEOREM ContextsAreCallChains == Spec => []ContextsMatchCalls
<1>1. CInv => ContextsMatchCalls
  BY DEF CInv
<1> QED BY <1>1, CInit, CNext, PTL DEF Spec

-----------------------------------------------------------------------------
(* The execution is at a node with the call stack of the node.             *)
XCInv ==
  /\ CInv
  /\ at \in Node
  /\ stack = msg.context[at]

(* The execution starts at the entry with nothing called.                  *)
LEMMA XCInit == ExecInit => XCInv
<1> SUFFICES ASSUME ExecInit PROVE XCInv
  OBVIOUS
<1>1. CInv
  BY CInit DEF ExecInit
<1> QED BY <1>1, EndsAssumption, CallGraphFacts DEF XCInv, CInv, ExecInit

(* Analysing leaves the execution alone; an edge leads to a node of the    *)
(* context behind its source.                                              *)
LEMMA XCNext == XCInv /\ [ExecNext]_allVars => XCInv'
<1> SUFFICES ASSUME XCInv, [ExecNext]_allVars PROVE XCInv'
  OBVIOUS
<1>1. CInv /\ [Next]_vars => CInv'
  BY CNext
<1>2. CASE Analyse
  <2>1. [Next]_vars /\ UNCHANGED <<at, stack>>
    BY <1>2 DEF Analyse, execVars
  <2>2. msg' = msg
    BY <2>1 DEF Next, vars, DropNode, JoinAndSetInitialMemState, SetInitialMemState,
              AssertionFails, CalculateMemPenalty, SetState
  <2> QED BY <1>1, <2>1, <2>2 DEF XCInv
<1>3. CASE TakeEdge
  <2>1. PICK i \in 1..Len(msg.out[at]) : at' = msg.out[at][i].node
    BY <1>3 DEF TakeEdge
  <2>2. UNCHANGED vars /\ msg' = msg /\ stack' = ContextAfter(msg, at, stack)
    BY <1>3 DEF TakeEdge, vars
  <2>3. at' \in Node /\ msg.context[at'] = ContextAfter(msg, at, msg.context[at])
    BY <2>1, CallGraphFacts DEF XCInv, CInv
  <2> QED BY <1>1, <2>2, <2>3 DEF XCInv
<1>4. CASE UNCHANGED allVars
  <2>1. UNCHANGED vars /\ UNCHANGED <<at, stack>> /\ msg' = msg
    BY <1>4 DEF allVars, vars
  <2> QED BY <1>1, <2>1 DEF XCInv
<1> QED BY <1>2, <1>3, <1>4 DEF ExecNext

(* On every path, back edges included, the function the analysis returns   *)
(* to at an exit node is the one the program returns to.                   *)
THEOREM ReturnsToTheCaller == ExecSpec => []ContextIsCallStack
<1>1. XCInv => ContextIsCallStack
  BY DEF XCInv, CInv, ContextIsCallStack, ContextsMatchCalls, getContextForNode
<1> QED BY <1>1, XCInit, XCNext, PTL DEF ExecSpec

-----------------------------------------------------------------------------
(***************************************************************************)
(* The analysis solves the flow equations of the D-ISP.                    *)
(***************************************************************************)

(* The join of a vector is the last state of a trace of joins.             *)
LEMMA JoinStatesTrace ==
  ASSUME NEW states \in Seq(DispStates), Len(states) > 0
  PROVE  \E f \in [1..Len(states) -> DispStates] :
           /\ f[1] = states[1]
           /\ \A k \in 2..Len(states) : f[k] = DispJoin(f[k - 1], states[k])
           /\ JoinStates(states) = f[Len(states)]
<1> DEFINE n == Len(states)
           step == [p \in (2..n) \X DispStates |-> DispJoin(p[2], states[p[1]])]
           Eq(f) == f = [i \in 1..n |->
                           IF i = 1 THEN states[1] ELSE DispJoin(f[i - 1], states[i])]
           g == CHOOSE g : Eq(g)
<1>1. n \in Nat /\ 1 <= n /\ states[1] \in DispStates
  OBVIOUS
<1>2. step \in [(2..n) \X DispStates -> DispStates]
  BY JoinState
<1>3. PICK f \in [1..n -> DispStates] : IsTrace(f, states[1], 1, n, step)
  <2> HIDE DEF step, n
  <2> QED BY <1>1, <1>2, FoldExistsFrom1
<1>4. \A k \in 2..n : f[k] = DispJoin(f[k - 1], states[k])
  <2> TAKE k \in 2..n
  <2>1. k - 1 \in 1..n /\ f[k - 1] \in DispStates
    BY <1>1
  <2>2. <<k, f[k - 1]>> \in (2..n) \X DispStates
    BY <2>1
  <2>3. f[k] = step[<<k, f[k - 1]>>]
    <3> HIDE DEF step, n
    <3> QED BY <1>3 DEF IsTrace
  <2> HIDE DEF n
  <2> QED BY <2>2, <2>3
<1>5. Eq(f)
  BY <1>3, <1>4 DEF IsTrace
<1>6. Eq(g)
  BY <1>5
<1>7. \A k \in 1..n : g[k] = f[k]
  <2> DEFINE Same == {k \in Nat : k + 1 \in 1..n => g[k + 1] = f[k + 1]}
  <2> HIDE DEF g
  <2>1. 0 \in Same
    BY <1>1, <1>3, <1>6 DEF IsTrace
  <2>2. ASSUME NEW k \in Same PROVE k + 1 \in Same
    <3> SUFFICES ASSUME (k + 1) + 1 \in 1..n PROVE g[(k + 1) + 1] = f[(k + 1) + 1]
      OBVIOUS
    <3>1. /\ g[k + 1] = f[k + 1] /\ (k + 1) + 1 # 1
          /\ ((k + 1) + 1) - 1 = k + 1 /\ (k + 1) + 1 \in 2..n
      BY <1>1
    <3>2. g[(k + 1) + 1] = DispJoin(g[k + 1], states[(k + 1) + 1])
      BY <1>6, <3>1
    <3> QED BY <3>1, <3>2, <1>4
  <2>3. Same \in SUBSET Nat
    OBVIOUS
  <2>4. Same = Nat
    <3> HIDE DEF Same
    <3> QED BY <2>1, <2>2, <2>3, SetInduction
  <2>5. ASSUME NEW k \in 1..n PROVE g[k] = f[k]
    <3>1. k - 1 \in Nat /\ (k - 1) + 1 = k
      OBVIOUS
    <3> QED BY <2>4, <3>1
  <2> QED BY <2>5
<1>8. JoinStates(states) = g[n]
  BY DEF JoinStates
<1>9. f[1] = states[1]
  BY <1>3 DEF IsTrace
<1> HIDE DEF g
<1> QED BY <1>1, <1>3, <1>4, <1>7, <1>8, <1>9

(* The join of a vector is a state; it describes every memory that one of  *)
(* the joined states describes, and one state is its own join.             *)
LEMMA JoinStatesDescribes ==
  ASSUME NEW states \in Seq(DispStates), Len(states) > 0
  PROVE  /\ JoinStates(states) \in DispStates
         /\ Len(states) = 1 => JoinStates(states) = states[1]
         /\ \A c \in Seq(Function) : \A i \in 1..Len(states) :
              Describes(states[i], c) => Describes(JoinStates(states), c)
<1>1. PICK f \in [1..Len(states) -> DispStates] :
        /\ f[1] = states[1]
        /\ \A k \in 2..Len(states) : f[k] = DispJoin(f[k - 1], states[k])
        /\ JoinStates(states) = f[Len(states)]
  BY JoinStatesTrace
<1>2. Len(states) \in Nat /\ Len(states) \in 1..Len(states)
  OBVIOUS
<1>3. ASSUME NEW c \in Seq(Function), NEW i \in 1..Len(states), Describes(states[i], c)
      PROVE  Describes(f[Len(states)], c)
  <2> DEFINE Good == {d \in Nat : i + d \in 1..Len(states) => Describes(f[i + d], c)}
  <2>1. 0 \in Good
    <3>1. CASE i = 1
      BY <1>1, <1>3, <3>1
    <3>2. CASE i # 1
      <4>1. i \in 2..Len(states) /\ i - 1 \in 1..Len(states) /\ f[i] = DispJoin(f[i - 1], states[i])
        BY <1>1, <3>2
      <4>2. f[i - 1] \in DispStates /\ states[i] \in DispStates
        BY <4>1
      <4>3. Describes(f[i], c)
        BY <1>3, <4>1, <4>2, JoinDescribes
      <4> QED BY <4>3
    <3> QED BY <3>1, <3>2
  <2>2. ASSUME NEW d \in Good PROVE d + 1 \in Good
    <3> SUFFICES ASSUME i + (d + 1) \in 1..Len(states) PROVE Describes(f[i + (d + 1)], c)
      OBVIOUS
    <3> DEFINE k == i + (d + 1)
    <3>1. k \in 2..Len(states) /\ k - 1 = i + d /\ i + d \in 1..Len(states)
      OBVIOUS
    <3>2. Describes(f[k - 1], c) /\ f[k - 1] \in DispStates /\ states[k] \in DispStates
      BY <3>1
    <3>3. f[k] = DispJoin(f[k - 1], states[k])
      BY <1>1, <3>1
    <3> HIDE DEF k
    <3>4. Describes(f[k], c)
      BY <3>2, <3>3, JoinDescribes
    <3> QED BY <3>4 DEF k
  <2>3. Good = Nat
    <3>1. Good \in SUBSET Nat
      OBVIOUS
    <3> HIDE DEF Good
    <3> QED BY <2>1, <2>2, <3>1, SetInduction
  <2>4. Len(states) - i \in Nat /\ i + (Len(states) - i) = Len(states)
    BY <1>2
  <2>5. Len(states) - i \in Good
    BY <2>3, <2>4
  <2> QED BY <1>2, <2>4, <2>5
<1> QED BY <1>1, <1>2, <1>3

(* What leaving a node activates, by the chain of calls of the node.       *)
Called(n) == CalledAt(msg, n)

StateBehind(n) ==
  IF Called(n) = << >> THEN memState[n] ELSE DispUpdate(memState[n], Called(n)[1])

StatesBehind(n) ==
  [i \in 1..Len(Predecessors(n)) |-> StateBehind(Predecessors(n)[i])]

(* The state of a node in terms of those of its forward predecessors.      *)
FlowValue(n) ==
  IF n = Entry THEN BlankMemState ELSE JoinStates(StatesBehind(n))

HasPredecessor(n) == n = Entry \/ Len(Predecessors(n)) > 0

(* A node without a state is blank.                                        *)
StatesOK ==
  /\ memState \in [Node -> DispStates]
  /\ \A n \in Node : memStateVal[n] \/ memState[n] = BlankMemState

FlowConsistent ==
  \A n \in Node : memStateVal[n] =>
    /\ n # Exit
    /\ HasPredecessor(n)
    /\ isPredecessorMemStateKnown(n)
    /\ memState[n] = FlowValue(n)

(* The nodes on the worklist, and the ones that have a context, were       *)
(* reached along a forward edge.                                           *)
MetHavePredecessor ==
  /\ \A i \in 1..Len(processing) : HasPredecessor(processing[i])
  /\ \A n \in DOMAIN ctxMap : HasPredecessor(n)

SuccessorsAreMet ==
  \A n, m \in Node :
    memStateVal[n] /\ HasForwardEdge(msg.in[m], n) => m \in DOMAIN ctxMap

(* A node that could be processed is on the worklist.                      *)
ReadyIsPending ==
  \A n \in Node \ {Exit} :
    HasPredecessor(n) /\ isPredecessorMemStateKnown(n) /\ ~memStateVal[n] =>
      \E i \in 1..Len(processing) : processing[i] = n

(* The functions returned to were entered before.                          *)
CallsWereEntered ==
  \A n \in DOMAIN ctxMap : \A i \in 1..Len(msg.context[n]) :
    \E m \in Node : msg.type[m] = "Entry" /\ msg.func[m] = msg.context[n][i]

PenaltiesSet ==
  phase = "done" => processing = << >> /\ penalty = [n \in Node |-> DispCost(n)]

DInv ==
  /\ CInv
  /\ TypeOK
  /\ StatesOK
  /\ FlowConsistent
  /\ MetHavePredecessor
  /\ SuccessorsAreMet
  /\ ReadyIsPending
  /\ CallsWereEntered
  /\ PenaltiesSet
  /\ OtherAssertionsHold

(* What the graph says of the forward edges of a node.                     *)
LEMMA CallFlowFacts ==
  ASSUME msg \in MSGs
  PROVE  /\ \A n \in Node : Predecessors(n) \in Seq(Node)
         /\ \A n \in Node : ForwardEdges(msg.out[n]) \in Seq(Node)
         /\ \A n, m \in Node :
              (\E i \in 1..Len(Predecessors(n)) : Predecessors(n)[i] = m)
                <=> HasForwardEdge(msg.in[n], m)
         /\ \A n, m \in Node :
              (\E i \in 1..Len(ForwardEdges(msg.out[n])) : ForwardEdges(msg.out[n])[i] = m)
                <=> HasForwardEdge(msg.in[m], n)
         /\ Len(Predecessors(Entry)) = 0
         /\ \A n \in Node : ~HasForwardEdge(msg.in[n], Exit)
<1>1. IsFlowGraph(msg)
  BY GraphAssumption DEF IsCallGraph
<1> QED BY <1>1, FlowGraphFacts DEF Predecessors

(* What it says of entry and exit nodes.                                   *)
LEMMA CallNodeFacts ==
  ASSUME msg \in MSGs
  PROVE  /\ msg \in CallGraphs
         /\ msg.type[Entry] = "Entry" /\ msg.type[Exit] = "Exit"
         /\ \A n \in Node : msg.type[n] = "Entry" => Len(msg.out[n]) = 1
         /\ \A n \in Node : msg.type[n] = "Exit" => msg.context[n] # << >>
         /\ \A n \in Node : \A i \in 1..Len(Predecessors(n)) :
              msg.type[Predecessors(n)[i]] # "Other" => Len(Predecessors(n)) = 1
<1>1. IsCallGraph(msg)
  BY GraphAssumption
<1> QED BY <1>1 DEF IsCallGraph, Predecessors

(* A forward edge leads to the context behind its source.                  *)
LEMMA ForwardContext ==
  ASSUME msg \in MSGs, NEW n \in Node, NEW m \in Node, HasForwardEdge(msg.in[m], n)
  PROVE  msg.context[m] = ContextAfter(msg, n, msg.context[n])
<1>1. PICK i \in 1..Len(ForwardEdges(msg.out[n])) : ForwardEdges(msg.out[n])[i] = m
  BY CallFlowFacts
<1> QED BY <1>1, CallGraphFacts

(* The function below the top of a stack.                                  *)
LEMMA BelowTop ==
  ASSUME NEW c \in Seq(Function), Pop(c) # << >>
  PROVE  /\ Len(c) - 1 \in 1..Len(c)
         /\ Pop(c)[Len(c) - 1] = c[Len(c) - 1]
<1>1. c # << >> /\ Pop(c) = SubSeq(c, 1, Len(c) - 1)
  BY DEF Pop
<1>2. Len(c) - 1 \in 1..Len(c)
  <2>1. Len(c) \in Nat /\ Len(c) # 0
    BY <1>1
  <2>2. Len(c) # 1
    BY <1>1
  <2> DEFINE k == Len(c)
  <2>3. k \in Nat /\ k # 0 /\ k # 1
    BY <2>1, <2>2
  <2> HIDE DEF k
  <2>4. k - 1 \in 1..k
    BY <2>3
  <2> QED BY <2>4 DEF k
<1> QED BY <1>1, <1>2

(* The function called or returned to is one, and comes from the context.  *)
LEMMA CalledFacts ==
  ASSUME msg \in MSGs, NEW n \in Node
  PROVE  /\ msg.type[n] = "Other" => Called(n) = << >>
         /\ Called(n) # << >> =>
              /\ Called(n)[1] \in Function
              /\ Called(n) = <<Called(n)[1]>>
              /\ \/ msg.type[n] = "Entry" /\ Called(n)[1] = msg.func[n]
                 \/ msg.type[n] = "Exit" /\
                    \E i \in 1..Len(msg.context[n]) : msg.context[n][i] = Called(n)[1]
<1> DEFINE c == msg.context[n]
<1>1. c \in Seq(Function) /\ msg.func[n] \in Function /\ msg.type[n] \in NodeTypes
  BY CallGraphFacts
<1>2. CASE msg.type[n] = "Entry"
  BY <1>1, <1>2 DEF Called, CalledAt
<1>3. CASE msg.type[n] = "Exit" /\ Pop(c) # << >>
  <2>1. Called(n) = <<Pop(c)[Len(c) - 1]>>
    BY <1>3 DEF Called, CalledAt
  <2> HIDE DEF c
  <2>2. Len(c) - 1 \in 1..Len(c) /\ Pop(c)[Len(c) - 1] = c[Len(c) - 1]
    BY <1>1, <1>3, BelowTop
  <2> QED BY <1>1, <1>3, <2>1, <2>2 DEF c
<1>4. CASE ~(msg.type[n] = "Entry") /\ ~(msg.type[n] = "Exit" /\ Pop(c) # << >>)
  BY <1>4 DEF Called, CalledAt
<1> QED BY <1>2, <1>3, <1>4

(* For a node that was met, it is what the analysis activates.             *)
LEMMA ActivatedIsCalled ==
  ASSUME CInv, NEW n \in Node, n \in DOMAIN ctxMap \/ n = Entry
  PROVE  getContextForNode(n) = msg.context[n] /\ Activated(n) = Called(n)
<1>1. getContextForNode(n) = msg.context[n]
  BY CallGraphFacts DEF CInv, ContextsMatchCalls, getContextForNode
<1> QED BY <1>1 DEF Activated, Called, CalledAt

(* The states behind the nodes are states.                                 *)
LEMMA StateBehindType ==
  ASSUME msg \in MSGs, memState \in [Node -> DispStates], NEW n \in Node
  PROVE  StateBehind(n) \in DispStates
BY CalledFacts, UpdateState DEF StateBehind

(* The flow equation of a node that was reached has a value, the state     *)
(* behind the predecessor if there is one only.                            *)
LEMMA FlowValueType ==
  ASSUME msg \in MSGs, memState \in [Node -> DispStates], NEW n \in Node, HasPredecessor(n)
  PROVE  /\ FlowValue(n) \in DispStates
         /\ n # Entry /\ Len(Predecessors(n)) = 1
              => FlowValue(n) = StateBehind(Predecessors(n)[1])
         /\ n # Entry => \A c \in Seq(Function) : \A m \in Node :
              HasForwardEdge(msg.in[n], m) /\ Describes(StateBehind(m), c)
                => Describes(FlowValue(n), c)
<1>1. CASE n = Entry
  BY <1>1, BlankState DEF FlowValue
<1>2. CASE n # Entry
  <2> DEFINE states == StatesBehind(n)
  <2>1. Predecessors(n) \in Seq(Node) /\ Len(Predecessors(n)) > 0
    BY <1>2, CallFlowFacts DEF HasPredecessor
  <2>2. \A i \in 1..Len(Predecessors(n)) : StateBehind(Predecessors(n)[i]) \in DispStates
    BY <2>1, StateBehindType
  <2>3. /\ states \in Seq(DispStates) /\ Len(states) = Len(Predecessors(n))
        /\ \A i \in 1..Len(Predecessors(n)) : states[i] = StateBehind(Predecessors(n)[i])
    BY <2>1, <2>2 DEF StatesBehind
  <2>4. FlowValue(n) = JoinStates(states)
    BY <1>2 DEF FlowValue
  <2> HIDE DEF states
  <2>5. /\ JoinStates(states) \in DispStates
        /\ Len(states) = 1 => JoinStates(states) = states[1]
        /\ \A c \in Seq(Function) : \A i \in 1..Len(states) :
              Describes(states[i], c) => Describes(JoinStates(states), c)
    BY <2>1, <2>3, JoinStatesDescribes
  <2>6. ASSUME NEW m \in Node, HasForwardEdge(msg.in[n], m)
        PROVE  \E i \in 1..Len(states) : states[i] = StateBehind(m)
    <3>1. PICK i \in 1..Len(Predecessors(n)) : Predecessors(n)[i] = m
      BY <2>6, CallFlowFacts
    <3> QED BY <2>3, <3>1
  <2>7. Len(Predecessors(n)) = 1 => FlowValue(n) = StateBehind(Predecessors(n)[1])
    <3> SUFFICES ASSUME Len(Predecessors(n)) = 1 PROVE FlowValue(n) = StateBehind(Predecessors(n)[1])
      OBVIOUS
    <3>1. 1 \in 1..Len(Predecessors(n))
      OBVIOUS
    <3> QED BY <2>3, <2>4, <2>5, <3>1
  <2>8. ASSUME NEW c \in Seq(Function), NEW m \in Node, HasForwardEdge(msg.in[n], m),
               Describes(StateBehind(m), c)
        PROVE  Describes(FlowValue(n), c)
    BY <2>4, <2>5, <2>6, <2>8
  <2> QED BY <1>2, <2>4, <2>5, <2>7, <2>8
<1> QED BY <1>1, <1>2

(* The value of a flow equation depends on the predecessors only.          *)
LEMMA FlowValueStable ==
  ASSUME msg \in MSGs, UNCHANGED msg, NEW n \in Node,
         \A m \in Node : HasForwardEdge(msg.in[n], m) => memState'[m] = memState[m]
  PROVE  FlowValue(n)' = FlowValue(n)
<1>1. Predecessors(n) \in Seq(Node) /\ Predecessors(n)' = Predecessors(n)
  BY CallFlowFacts DEF Predecessors
<1>2. ASSUME NEW i \in 1..Len(Predecessors(n))
      PROVE  StateBehind(Predecessors(n)[i])' = StateBehind(Predecessors(n)[i])
  <2> DEFINE m == Predecessors(n)[i]
  <2>1. m \in Node /\ HasForwardEdge(msg.in[n], m)
    BY <1>1, CallFlowFacts
  <2> QED BY <1>1, <2>1 DEF StateBehind, Called, CalledAt
<1> QED BY <1>1, <1>2 DEF FlowValue, StatesBehind

-----------------------------------------------------------------------------
(* The states have their types.                                            *)
LEMMA DispStateType ==
  ASSUME NEW s \in DispStates
  PROVE  IsAbsMemSet(s)
<1>1. s = [must |-> s.must, may |-> s.may] /\ s.must \in DispSets /\ s.may \in DispSets
  BY DEF DispStates, MustSets
<1> QED BY <1>1, DispSetMembers DEF IsAbsMemSet

(* The analysis starts with the invariant.                                 *)
LEMMA DInit == Init => DInv
<1> SUFFICES ASSUME Init PROVE DInv
  OBVIOUS
<1> USE DEF Init
<1>1. CInv /\ msg \in MSGs /\ msg \in CallGraphs
  BY CInit, CallNodeFacts
<1>2. StatesOK
  BY BlankState DEF StatesOK
<1>3. TypeOK
  <2>1. \A n \in Node : IsAbsMemSet(memState[n])
    BY BlankState, DispStateType
  <2>2. processing \in Seq(Node)
    BY EndsAssumption
  <2> QED BY <1>1, <2>1, <2>2 DEF TypeOK
<1>4. MetHavePredecessor
  BY DEF MetHavePredecessor, HasPredecessor
<1>5. ReadyIsPending
  <2> SUFFICES ASSUME NEW n \in Node \ {Exit}, n # Entry,
                      isPredecessorMemStateKnown(n), Len(Predecessors(n)) > 0
               PROVE  FALSE
    <3>1. Entry = processing[1] /\ Len(processing) = 1
      OBVIOUS
    <3> QED BY <3>1 DEF ReadyIsPending, HasPredecessor
  <2>1. 1 \in 1..Len(Predecessors(n)) /\ Predecessors(n)[1] \in Node
    BY <1>1, CallFlowFacts
  <2> QED BY <2>1 DEF isPredecessorMemStateKnown
<1>6. FlowConsistent /\ SuccessorsAreMet /\ CallsWereEntered
  BY DEF FlowConsistent, SuccessorsAreMet, CallsWereEntered
<1>7. PenaltiesSet /\ OtherAssertionsHold
  BY DEF PenaltiesSet, OtherAssertionsHold
<1> QED BY <1>1, <1>2, <1>3, <1>4, <1>5, <1>6, <1>7 DEF DInv

(* Both handlers store the value of the flow equation.                     *)
Process ==
  /\ phase = "analyze"
  /\ processing # << >>
  /\ isPredecessorMemStateKnown(Actual)
  /\ Actual # Exit
  /\ SetState(Actual, FlowValue(Actual))

(* The popped node was reached, and what remains of the worklist is what   *)
(* was below it.                                                           *)
LEMMA ActualFacts ==
  ASSUME DInv, processing # << >>
  PROVE  /\ Actual \in Node
         /\ HasPredecessor(Actual)
         /\ Actual \in DOMAIN ctxMap \/ Actual = Entry
         /\ processing \in Seq(Node)
         /\ Rest \in Seq(Node)
         /\ Len(Rest) = Len(processing) - 1
         /\ \A i \in 1..Len(Rest) : Rest[i] = processing[i] /\ i \in 1..Len(processing)
<1>1. processing \in Seq(Node)
  BY DEF DInv, TypeOK
<1>2. Len(processing) \in 1..Len(processing)
  BY <1>1
<1>3. Actual \in Node /\ HasPredecessor(Actual)
  BY <1>1, <1>2 DEF Actual, DInv, MetHavePredecessor
<1>4. Actual \in DOMAIN ctxMap \/ Actual = Entry
  BY <1>2 DEF Actual, DInv, CInv
<1>5. /\ Rest \in Seq(Node)
      /\ Len(Rest) = Len(processing) - 1
      /\ \A i \in 1..Len(Rest) : Rest[i] = processing[i]
  BY <1>1, SequenceBelow DEF Rest
<1>6. \A i \in 1..Len(Rest) : i \in 1..Len(processing)
  BY <1>1, <1>2, <1>5
<1> QED BY <1>1, <1>3, <1>4, <1>5, <1>6

(* The predecessors of a node that can be processed have their contexts.   *)
LEMMA PredecessorIsMet ==
  ASSUME DInv, NEW n \in Node, n # Entry, isPredecessorMemStateKnown(n),
         NEW i \in 1..Len(Predecessors(n))
  PROVE  /\ Predecessors(n)[i] \in Node
         /\ memStateVal[Predecessors(n)[i]]
         /\ Predecessors(n)[i] \in DOMAIN ctxMap
         /\ Activated(Predecessors(n)[i]) = Called(Predecessors(n)[i])
         /\ StateAfter(Predecessors(n)[i]) = StateBehind(Predecessors(n)[i])
<1>1. CInv /\ msg \in MSGs
  BY DEF DInv, CInv
<1>2. Predecessors(n)[i] \in Node /\ memStateVal[Predecessors(n)[i]]
  BY <1>1, CallFlowFacts DEF isPredecessorMemStateKnown
<1>3. Predecessors(n)[i] \in DOMAIN ctxMap
  BY <1>1, <1>2 DEF CInv, ContextsMatchCalls
<1>4. Activated(Predecessors(n)[i]) = Called(Predecessors(n)[i])
  BY <1>1, <1>2, <1>3, ActivatedIsCalled
<1> QED BY <1>2, <1>3, <1>4 DEF StateAfter, StateBehind

(* Join and inheritance are both the solution of the flow equation.        *)
LEMMA ProcessStep ==
  ASSUME DInv, JoinAndSetInitialMemState \/ SetInitialMemState
  PROVE  Process
<1>1. processing # << >> /\ msg \in MSGs /\ memState \in [Node -> DispStates]
  BY DEF JoinAndSetInitialMemState, SetInitialMemState, Pending, DInv, CInv, StatesOK
<1>2. Actual \in Node /\ HasPredecessor(Actual)
  BY <1>1, ActualFacts
<1>3. Predecessors(Actual) \in Seq(Node)
  BY <1>1, <1>2, CallFlowFacts
<1>4. CASE JoinAndSetInitialMemState
  <2>1. Actual # Entry /\ isPredecessorMemStateKnown(Actual)
    BY <1>1, <1>4, CallFlowFacts DEF JoinAndSetInitialMemState
  <2>2. ASSUME NEW i \in 1..Len(Predecessors(Actual))
        PROVE  memState[Predecessors(Actual)[i]] = StateBehind(Predecessors(Actual)[i])
    <3>1. Predecessors(Actual)[i] \in Node /\ msg.type[Predecessors(Actual)[i]] = "Other"
      BY <1>3, <1>4 DEF JoinAndSetInitialMemState, JoinAsserts
    <3> QED BY <1>1, <3>1, CalledFacts DEF StateBehind
  <2>3. [i \in 1..Len(Predecessors(Actual)) |-> memState[Predecessors(Actual)[i]]]
          = StatesBehind(Actual)
    BY <2>2 DEF StatesBehind
  <2> QED BY <1>4, <2>1, <2>3 DEF JoinAndSetInitialMemState, Process, FlowValue, Pending
<1>5. CASE SetInitialMemState
  <2>1. Actual # Entry => Len(Predecessors(Actual)) = 1
    <3>1. Len(Predecessors(Actual)) <= 1
      BY <1>5 DEF SetInitialMemState
    <3>2. Len(Predecessors(Actual)) \in Nat
      BY <1>3
    <3> QED BY <1>2, <3>1, <3>2 DEF HasPredecessor
  <2>2. Actual # Entry => StateAfter(Predecessors(Actual)[1]) = StateBehind(Predecessors(Actual)[1])
    <3> SUFFICES ASSUME Actual # Entry
                 PROVE  StateAfter(Predecessors(Actual)[1]) = StateBehind(Predecessors(Actual)[1])
      OBVIOUS
    <3>1. 1 \in 1..Len(Predecessors(Actual)) /\ isPredecessorMemStateKnown(Actual)
      BY <1>5, <2>1 DEF SetInitialMemState
    <3> QED BY <1>2, <3>1, PredecessorIsMet
  <2>3. FlowValue(Actual) = IF Actual = Entry THEN BlankMemState
                            ELSE StateAfter(Predecessors(Actual)[1])
    BY <1>1, <1>2, <2>1, <2>2, FlowValueType DEF FlowValue
  <2> QED BY <1>5, <2>3 DEF SetInitialMemState, Process, Pending
<1> QED BY <1>4, <1>5

(* Processing a node changes nothing but its own state, and nothing at all *)
(* when it had one; its forward successors are met and pushed.             *)
LEMMA ProcessEffect ==
  ASSUME DInv, Process
  PROVE  /\ Actual \in Node
         /\ memState' \in [Node -> DispStates]
         /\ memStateVal' \in [Node -> BOOLEAN]
         /\ memState'[Actual] = FlowValue(Actual)
         /\ memStateVal'[Actual]
         /\ \A n \in Node \ {Actual} : /\ memState'[n] = memState[n]
                                      /\ memStateVal'[n] = memStateVal[n]
         /\ memStateVal[Actual] => memState'[Actual] = memState[Actual]
         /\ UNCHANGED <<msg, penalty, phase>>
<1>1. /\ processing # << >> /\ msg \in MSGs /\ FlowConsistent
      /\ memState \in [Node -> DispStates] /\ memStateVal \in [Node -> BOOLEAN]
  BY DEF Process, DInv, CInv, StatesOK
<1>2. Actual \in Node /\ FlowValue(Actual) \in DispStates
  BY <1>1, ActualFacts, FlowValueType
<1>3. /\ memState' = [memState EXCEPT ![Actual] = FlowValue(Actual)]
      /\ memStateVal' = [memStateVal EXCEPT ![Actual] = TRUE]
      /\ UNCHANGED <<msg, penalty, phase>>
  BY DEF Process, SetState
<1>4. memStateVal[Actual] => memState[Actual] = FlowValue(Actual)
  BY <1>1, <1>2 DEF FlowConsistent
<1> QED BY <1>1, <1>2, <1>3, <1>4

LEMMA ProcessPushes ==
  ASSUME DInv, Process
  PROVE  /\ processing' \in Seq(Node)
         /\ \A n \in Node :
              (\E i \in 1..Len(processing') : processing'[i] = n)
                <=> \/ \E i \in 1..Len(Rest) : Rest[i] = n
                    \/ HasForwardEdge(msg.in[n], Actual)
         /\ \A n \in Node :
              n \in DOMAIN ctxMap' <=> \/ n \in DOMAIN ctxMap
                                      \/ n = Actual
                                      \/ HasForwardEdge(msg.in[n], Actual)
         /\ DOMAIN ctxMap' \subseteq Node
         /\ ctxMap' = [n \in DOMAIN ctxMap' |-> ctxMap'[n]]
<1> DEFINE pushed == ForwardEdges(msg.out[Actual])
           next == {pushed[i] : i \in 1..Len(pushed)}
<1>1. processing # << >> /\ msg \in MSGs /\ DOMAIN ctxMap \subseteq Node
  BY DEF Process, DInv, CInv
<1>2. Rest \in Seq(Node) /\ Actual \in Node
  BY <1>1, ActualFacts
<1>3. pushed \in Seq(Node)
  BY <1>1, <1>2, CallFlowFacts
<1>4. processing' = Rest \o pushed
  BY DEF Process, SetState
<1>5. \A n \in Node :
        (\E i \in 1..Len(pushed) : pushed[i] = n) <=> HasForwardEdge(msg.in[n], Actual)
  BY <1>1, <1>2, CallFlowFacts
<1>6. \A n \in Node :
        (\E i \in 1..Len(Rest \o pushed) : (Rest \o pushed)[i] = n)
          <=> (\E i \in 1..Len(Rest) : Rest[i] = n) \/ (\E i \in 1..Len(pushed) : pushed[i] = n)
  <2> HIDE DEF pushed
  <2> TAKE n \in Node
  <2> QED BY <1>2, <1>3, ConcatMembers
<1>7. Rest \o pushed \in Seq(Node)
  BY <1>2, <1>3
<1>8. /\ DOMAIN ctxMap' = DOMAIN ctxMap \cup next \cup {Actual}
      /\ ctxMap' = [n \in DOMAIN ctxMap' |-> ctxMap'[n]]
  BY DEF Process, SetState, addContextForNode
<1> HIDE DEF pushed
<1>9. next \subseteq Node /\ \A n \in Node : n \in next <=> HasForwardEdge(msg.in[n], Actual)
  BY <1>3, <1>5
<1> HIDE DEF next
<1> QED BY <1>1, <1>2, <1>4, <1>5, <1>6, <1>7, <1>8, <1>9

(* The contexts stay sequences of functions.                               *)
LEMMA ContextMapType ==
  ASSUME CInv', ctxMap' = [n \in DOMAIN ctxMap' |-> ctxMap'[n]]
  PROVE  ctxMap' \in [DOMAIN ctxMap' -> Seq(Function)]
<1>1. /\ msg' \in MSGs /\ DOMAIN ctxMap' \subseteq Node
      /\ \A n \in DOMAIN ctxMap' : ctxMap'[n] = msg'.context[n]
  BY DEF CInv, ContextsMatchCalls
<1>2. msg' \in CallGraphs
  BY <1>1, GraphAssumption DEF IsCallGraph
<1>3. \A n \in Node : msg'.context[n] \in Seq(Function)
  BY <1>2 DEF CallGraphs
<1> QED BY <1>1, <1>3

(* What is known of the functions of a context is known of those of the    *)
(* context behind a node that was met.                                     *)
LEMMA EnteredBehind ==
  ASSUME DInv, NEW n \in Node, n \in DOMAIN ctxMap \/ n = Entry,
         NEW m \in Node, m = n \/ HasForwardEdge(msg.in[m], n),
         NEW i \in 1..Len(msg.context[m])
  PROVE  \E e \in Node : msg.type[e] = "Entry" /\ msg.func[e] = msg.context[m][i]
<1> DEFINE c == msg.context[n]
           Known(f) == \E e \in Node : msg.type[e] = "Entry" /\ msg.func[e] = f
<1>1. msg \in MSGs /\ c \in Seq(Function) /\ msg.func[n] \in Function
  BY CallGraphFacts DEF DInv, CInv
<1>2. \A k \in 1..Len(c) : Known(c[k])
  <2>1. CASE n \in DOMAIN ctxMap
    BY <2>1 DEF DInv, CallsWereEntered
  <2>2. CASE n = Entry
    <3>1. Len(c) = 0
      BY <1>1, <2>2, CallGraphFacts
    <3> QED BY <3>1
  <2> QED BY <2>1, <2>2
<1>3. CASE m = n
  BY <1>2, <1>3
<1>4. CASE m # n
  <2>1. msg.context[m] = ContextAfter(msg, n, c)
    BY <1>1, <1>4, ForwardContext
  <2>2. CASE msg.type[n] = "Entry"
    <3>1. Known(msg.func[n])
      BY <2>2
    <3>2. msg.context[m] = Append(c, msg.func[n])
      BY <2>1, <2>2 DEF ContextAfter
    <3> HIDE DEF c, Known
    <3>3. CASE i \in 1..Len(c)
      <4>1. msg.context[m][i] = c[i]
        BY <1>1, <3>2, <3>3
      <4>2. Known(msg.context[m][i])
        BY <1>2, <3>3, <4>1
      <4> QED BY <4>2 DEF Known
    <3>4. CASE i \notin 1..Len(c)
      <4>1. msg.context[m][i] = msg.func[n]
        <5>1. i = Len(c) + 1
          BY <1>1, <3>2, <3>4
        <5> QED BY <1>1, <3>2, <5>1
      <4> QED BY <3>1, <4>1 DEF Known
    <3> QED BY <3>3, <3>4
  <2>3. CASE msg.type[n] = "Exit" /\ c # << >>
    <3>1. msg.context[m] = SubSeq(c, 1, Len(c) - 1)
      BY <2>1, <2>3 DEF ContextAfter, Pop
    <3> HIDE DEF c, Known
    <3>2. msg.context[m][i] = c[i] /\ i \in 1..Len(c)
      <4>1. /\ Len(SubSeq(c, 1, Len(c) - 1)) = Len(c) - 1
            /\ \A k \in 1..Len(SubSeq(c, 1, Len(c) - 1)) : SubSeq(c, 1, Len(c) - 1)[k] = c[k]
        BY <1>1, <2>3, SequenceBelow
      <4>2. i \in 1..Len(c) - 1
        BY <3>1, <4>1
      <4> QED BY <1>1, <3>1, <4>1, <4>2
    <3>3. Known(msg.context[m][i])
      BY <1>2, <3>2
    <3> QED BY <3>3 DEF Known
  <2>4. CASE ~(msg.type[n] = "Entry") /\ ~(msg.type[n] = "Exit" /\ c # << >>)
    <3>1. msg.context[m] = c
      BY <2>1, <2>4 DEF ContextAfter, Pop
    <3> QED BY <1>2, <3>1
  <2> QED BY <2>2, <2>3, <2>4
<1> QED BY <1>3, <1>4

(* Processing a node keeps the invariant: the nodes it makes ready are     *)
(* among the successors it pushes.                                         *)
LEMMA ProcessInv ==
  ASSUME DInv, Process
  PROVE  DInv'
<1> DEFINE p == Actual
<1>1. /\ processing # << >> /\ msg \in MSGs /\ msg \in CallGraphs
      /\ CInv /\ TypeOK /\ StatesOK /\ FlowConsistent
      /\ MetHavePredecessor /\ SuccessorsAreMet /\ ReadyIsPending
      /\ phase = "analyze" /\ isPredecessorMemStateKnown(p) /\ p # Exit
      /\ SetState(Actual, FlowValue(Actual))
  BY DEF Process, DInv, CInv, TypeOK
<1>2. /\ p \in Node
      /\ memState' \in [Node -> DispStates] /\ memStateVal' \in [Node -> BOOLEAN]
      /\ memState'[p] = FlowValue(p)
      /\ memStateVal'[p]
      /\ \A n \in Node \ {p} : memState'[n] = memState[n] /\ memStateVal'[n] = memStateVal[n]
      /\ memStateVal[p] => memState'[p] = memState[p]
      /\ msg' = msg /\ phase' = phase /\ penalty' = penalty
  BY ProcessEffect
<1>3. HasPredecessor(p) /\ (p \in DOMAIN ctxMap \/ p = Entry)
  BY <1>1, ActualFacts
<1>4. CInv'
  BY <1>1, SetStateContexts
<1> HIDE DEF p
<1>5. \A n \in Node : /\ Predecessors(n)' = Predecessors(n) /\ Predecessors(n) \in Seq(Node)
                      /\ HasPredecessor(n)' = HasPredecessor(n)
  BY <1>1, <1>2, CallFlowFacts DEF Predecessors, HasPredecessor
<1>6. ASSUME NEW n \in Node, HasForwardEdge(msg.in[n], Actual)
      PROVE  HasPredecessor(n)
  <2>1. PICK i \in 1..Len(Predecessors(n)) : Predecessors(n)[i] = Actual
    BY <1>1, <1>2, <1>6, CallFlowFacts DEF p
  <2> QED BY <1>5, <2>1 DEF HasPredecessor
<1>7. ASSUME NEW n \in Node, isPredecessorMemStateKnown(n)
      PROVE  isPredecessorMemStateKnown(n)'
  <2>1. CASE n = Entry
    BY <2>1 DEF isPredecessorMemStateKnown
  <2>2. CASE n # Entry
    <3>1. ASSUME NEW i \in 1..Len(Predecessors(n))
          PROVE  memStateVal'[Predecessors(n)[i]]
      <4>1. Predecessors(n)[i] \in Node /\ memStateVal[Predecessors(n)[i]]
        BY <1>5, <1>7, <2>2 DEF isPredecessorMemStateKnown
      <4> QED BY <1>2, <4>1
    <3> QED BY <1>5, <3>1 DEF isPredecessorMemStateKnown
  <2> QED BY <2>1, <2>2
<1>8. StatesOK'
  BY <1>1, <1>2 DEF StatesOK
<1>9. TypeOK'
  <2>1. \A n \in Node : IsAbsMemSet(memState'[n])
    BY <1>2, DispStateType
  <2>2. ctxMap' \in [DOMAIN ctxMap' -> Seq(Function)]
    BY <1>4, ContextMapType, ProcessPushes
  <2> QED BY <1>1, <1>2, <2>1, <2>2, ProcessPushes DEF TypeOK
<1>10. FlowConsistent'
  <2> SUFFICES ASSUME NEW n \in Node, memStateVal'[n]
               PROVE  /\ n # Exit /\ HasPredecessor(n)' /\ isPredecessorMemStateKnown(n)'
                      /\ memState'[n] = FlowValue(n)'
    BY DEF FlowConsistent
  <2>1. /\ n # Exit /\ HasPredecessor(n) /\ isPredecessorMemStateKnown(n)
        /\ memState'[n] = FlowValue(n)
    BY <1>1, <1>2, <1>3 DEF FlowConsistent
  <2>2. ASSUME NEW m \in Node, HasForwardEdge(msg.in[n], m)
        PROVE  memState'[m] = memState[m]
    <3>1. PICK i \in 1..Len(Predecessors(n)) : Predecessors(n)[i] = m
      BY <1>1, <2>2, CallFlowFacts
    <3>2. n # Entry
      BY <1>1, <3>1, CallFlowFacts
    <3>3. memStateVal[m]
      BY <2>1, <3>1, <3>2 DEF isPredecessorMemStateKnown
    <3> QED BY <1>2, <3>3
  <2>3. FlowValue(n)' = FlowValue(n)
    BY <1>1, <1>2, <2>2, FlowValueStable
  <2> QED BY <1>5, <1>7, <2>1, <2>3
<1>11. MetHavePredecessor'
  <2>1. ASSUME NEW j \in 1..Len(processing') PROVE HasPredecessor(processing'[j])
    <3> DEFINE n == processing'[j]
    <3>1. n \in Node /\ \E i \in 1..Len(processing') : processing'[i] = n
      BY ProcessPushes
    <3> HIDE DEF n
    <3>2. CASE \E i \in 1..Len(Rest) : Rest[i] = n
      <4>1. PICK i \in 1..Len(processing) : processing[i] = n
        BY <1>1, <3>2, ActualFacts
      <4>2. HasPredecessor(n)
        BY <1>1, <4>1 DEF MetHavePredecessor
      <4> QED BY <4>2 DEF n
    <3>3. CASE HasForwardEdge(msg.in[n], Actual)
      BY <1>6, <3>1, <3>3 DEF n
    <3> QED BY <3>1, <3>2, <3>3, ProcessPushes
  <2>2. ASSUME NEW n \in DOMAIN ctxMap' PROVE HasPredecessor(n)
    <3>1. n \in Node
      BY ProcessPushes
    <3>2. n \in DOMAIN ctxMap \/ n = Actual \/ HasForwardEdge(msg.in[n], Actual)
      BY <3>1, ProcessPushes
    <3> QED BY <1>1, <1>3, <1>6, <3>1, <3>2 DEF MetHavePredecessor, p
  <2> QED BY <1>2, <2>1, <2>2 DEF MetHavePredecessor, HasPredecessor, Predecessors
<1>12. SuccessorsAreMet'
  <2> SUFFICES ASSUME NEW n \in Node, NEW m \in Node,
                      memStateVal'[n], HasForwardEdge(msg.in[m], n)
               PROVE  m \in DOMAIN ctxMap'
    BY <1>2 DEF SuccessorsAreMet
  <2>1. CASE n = p
    BY <2>1, ProcessPushes DEF p
  <2>2. CASE n # p
    <3>1. m \in DOMAIN ctxMap
      BY <1>1, <1>2, <2>2 DEF SuccessorsAreMet
    <3> QED BY <3>1, ProcessPushes
  <2> QED BY <2>1, <2>2
<1>13. ReadyIsPending'
  <2> SUFFICES ASSUME NEW n \in Node \ {Exit}, HasPredecessor(n),
                      isPredecessorMemStateKnown(n)', ~memStateVal'[n]
               PROVE  \E i \in 1..Len(processing') : processing'[i] = n
    BY <1>5 DEF ReadyIsPending
  <2>1. n # p /\ ~memStateVal[n]
    BY <1>2
  <2>2. CASE isPredecessorMemStateKnown(n)
    <3>1. PICK i \in 1..Len(processing) : processing[i] = n
      BY <1>1, <2>1, <2>2 DEF ReadyIsPending
    <3>2. i # Len(processing)
      BY <2>1, <3>1 DEF p, Actual
    <3>3. i \in 1..Len(Rest) /\ Rest[i] = n
      <4>1. /\ Len(Rest) = Len(processing) - 1 /\ processing \in Seq(Node)
            /\ \A k \in 1..Len(Rest) : Rest[k] = processing[k]
        BY <1>1, ActualFacts
      <4>2. i \in 1..Len(Rest)
        BY <3>1, <3>2, <4>1
      <4> QED BY <3>1, <4>1, <4>2
    <3> QED BY <3>3, ProcessPushes
  <2>3. CASE ~isPredecessorMemStateKnown(n)
    <3>1. PICK i \in 1..Len(Predecessors(n)) : ~memStateVal[Predecessors(n)[i]]
      BY <2>3 DEF isPredecessorMemStateKnown
    <3>2. memStateVal'[Predecessors(n)[i]]
      BY <1>5, <2>3, <3>1 DEF isPredecessorMemStateKnown
    <3>3. Predecessors(n)[i] = p
      BY <1>2, <1>5, <3>1, <3>2
    <3>4. HasForwardEdge(msg.in[n], Actual)
      BY <1>1, <1>2, <3>1, <3>3, CallFlowFacts DEF p
    <3> QED BY <3>4, ProcessPushes
  <2> QED BY <2>2, <2>3
<1>14. CallsWereEntered'
  <2> SUFFICES ASSUME NEW n \in DOMAIN ctxMap', NEW i \in 1..Len(msg.context[n])
               PROVE  \E m \in Node : msg.type[m] = "Entry" /\ msg.func[m] = msg.context[n][i]
    BY <1>2 DEF CallsWereEntered
  <2>1. n \in Node /\ (n \in DOMAIN ctxMap \/ n = p \/ HasForwardEdge(msg.in[n], p))
    BY ProcessPushes DEF p
  <2>2. CASE n \in DOMAIN ctxMap
    BY <2>2 DEF DInv, CallsWereEntered
  <2>3. CASE n = p \/ HasForwardEdge(msg.in[n], p)
    BY <1>2, <1>3, <2>1, <2>3, EnteredBehind
  <2> QED BY <2>1, <2>2, <2>3
<1>15. PenaltiesSet' /\ OtherAssertionsHold'
  BY <1>1, <1>2 DEF PenaltiesSet, OtherAssertionsHold
<1> QED BY <1>4, <1>8, <1>9, <1>10, <1>11, <1>12, <1>13, <1>14, <1>15 DEF DInv

(* A step that leaves the graph and the states alone leaves the solution.  *)
LEMMA FlowConsistentKept ==
  ASSUME msg \in MSGs, FlowConsistent, UNCHANGED <<msg, memState, memStateVal>>
  PROVE  FlowConsistent'
<1>1. msg' = msg /\ memState' = memState /\ memStateVal' = memStateVal
  OBVIOUS
<1>2. \A n \in Node : FlowValue(n)' = FlowValue(n)
  BY <1>1, FlowValueStable
<1> QED BY <1>1, <1>2 DEF FlowConsistent, HasPredecessor, isPredecessorMemStateKnown, Predecessors

(* Dropping a node keeps the invariant: a node that is ready is not        *)
(* dropped.                                                                *)
LEMMA DropInv ==
  ASSUME DInv, DropNode
  PROVE  DInv'
<1>1. /\ processing # << >> /\ CInv /\ TypeOK /\ StatesOK /\ FlowConsistent
      /\ MetHavePredecessor /\ SuccessorsAreMet /\ ReadyIsPending
      /\ ~isPredecessorMemStateKnown(Actual) \/ Actual = Exit
      /\ processing' = Rest /\ phase = "analyze"
      /\ UNCHANGED <<msg, memState, memStateVal, ctxMap, penalty, phase>>
  BY DEF DropNode, Pending, DInv
<1>2. /\ processing \in Seq(Node) /\ Rest \in Seq(Node) /\ Len(Rest) = Len(processing) - 1
      /\ \A i \in 1..Len(Rest) : Rest[i] = processing[i] /\ i \in 1..Len(processing)
  BY <1>1, ActualFacts
<1>3. CInv'
  BY <1>1, CNext DEF Next
<1>4. TypeOK' /\ StatesOK'
  BY <1>1, <1>2 DEF TypeOK, StatesOK
<1>5. FlowConsistent'
  BY <1>1, FlowConsistentKept DEF CInv
<1>6. MetHavePredecessor'
  <2>1. \A i \in 1..Len(Rest) : HasPredecessor(Rest[i])
    BY <1>1, <1>2 DEF MetHavePredecessor
  <2> QED BY <1>1, <2>1 DEF MetHavePredecessor, HasPredecessor, Predecessors
<1>7. ReadyIsPending'
  <2> SUFFICES ASSUME NEW n \in Node \ {Exit}, isPredecessorMemStateKnown(n),
                      HasPredecessor(n), ~memStateVal[n]
               PROVE  \E i \in 1..Len(Rest) : Rest[i] = n
    BY <1>1 DEF ReadyIsPending, HasPredecessor, Predecessors, isPredecessorMemStateKnown
  <2>1. PICK i \in 1..Len(processing) : processing[i] = n
    BY <1>1 DEF ReadyIsPending
  <2>2. i # Len(processing)
    BY <1>1, <2>1 DEF Actual
  <2>3. i \in 1..Len(Rest)
    BY <1>2, <2>1, <2>2
  <2> QED BY <1>2, <2>1, <2>3
<1>8. SuccessorsAreMet' /\ CallsWereEntered' /\ PenaltiesSet' /\ OtherAssertionsHold'
  BY <1>1 DEF DInv, SuccessorsAreMet, CallsWereEntered, PenaltiesSet, OtherAssertionsHold
<1> QED BY <1>3, <1>4, <1>5, <1>6, <1>7, <1>8 DEF DInv

(* Only an outsized function stops the analysis of a node: its context is  *)
(* that of an open call, a join sees no entry or exit node, and the must   *)
(* sets are such that no function pushes another one out.                  *)
LEMMA NodeAssertions ==
  ASSUME DInv, AssertionFails
  PROVE  /\ ~IgnoreOutsized
         /\ \E n \in Node : msg.type[n] = "Entry" /\ Outsized(msg.func[n])
<1>1. /\ processing # << >> /\ msg \in MSGs /\ CInv /\ memState \in [Node -> DispStates]
      /\ isPredecessorMemStateKnown(Actual)
      /\ \/ Len(Predecessors(Actual)) > 1 /\ JoinAsserts(Actual)
         \/ Len(Predecessors(Actual)) <= 1 /\ ActivationAsserts(Actual)
         \/ ContextAsserts(Actual)
  BY DEF AssertionFails, Pending, DInv, CInv, StatesOK
<1>2. /\ Actual \in Node /\ HasPredecessor(Actual)
      /\ Actual \in DOMAIN ctxMap \/ Actual = Entry
  BY <1>1, ActualFacts
<1>3. Predecessors(Actual) \in Seq(Node)
  BY <1>1, <1>2, CallFlowFacts
<1>4. ~ContextAsserts(Actual)
  BY <1>1, <1>2, ActivatedIsCalled, CallNodeFacts DEF ContextAsserts
<1>5. ~(Len(Predecessors(Actual)) > 1 /\ JoinAsserts(Actual))
  <2> SUFFICES ASSUME JoinAsserts(Actual), Len(Predecessors(Actual)) > 1 PROVE FALSE
    OBVIOUS
  <2>1. Len(Predecessors(Actual)) = 1
    BY <1>1, <1>2, CallNodeFacts DEF JoinAsserts
  <2> QED BY <2>1
<1>6. Len(Predecessors(Actual)) <= 1 /\ ActivationAsserts(Actual)
  BY <1>1, <1>4, <1>5
<1> DEFINE p == Predecessors(Actual)[1]
           f == Called(p)[1]
<1>7. 1 \in 1..Len(Predecessors(Actual)) /\ Actual # Entry
  BY <1>2, <1>3, <1>6 DEF HasPredecessor, ActivationAsserts
<1>8. p \in Node /\ p \in DOMAIN ctxMap /\ Activated(p) = Called(p)
  BY <1>1, <1>2, <1>7, PredecessorIsMet
<1>9. Called(p) # << >> /\ UpdateAsserts(memState[p], f)
  BY <1>6, <1>8 DEF ActivationAsserts
<1> HIDE DEF p
<1>10. Outsized(f) /\ ~IgnoreOutsized
  <2>1. memState[p].must \in MustSets
    BY <1>1, <1>8 DEF DispStates
  <2> HIDE DEF f
  <2> QED BY <1>9, <2>1, NonePushedOut DEF UpdateAsserts, isInSet
<1>11. \E n \in Node : msg.type[n] = "Entry" /\ msg.func[n] = f
  <2>1. CASE msg.type[p] = "Entry" /\ f = msg.func[p]
    BY <1>8, <2>1
  <2>2. CASE \E i \in 1..Len(msg.context[p]) : msg.context[p][i] = f
    <3>1. PICK i \in 1..Len(msg.context[p]) : msg.context[p][i] = f
      BY <2>2
    <3> HIDE DEF f
    <3> QED BY <1>8, <3>1, EnteredBehind
  <2> QED BY <1>1, <1>8, <1>9, <2>1, <2>2, CalledFacts
<1> QED BY <1>10, <1>11

(* Stopping keeps the invariant.                                           *)
LEMMA AssertionInv ==
  ASSUME DInv, AssertionFails
  PROVE  DInv'
<1>1. /\ CInv /\ TypeOK /\ StatesOK /\ FlowConsistent
      /\ MetHavePredecessor /\ SuccessorsAreMet /\ ReadyIsPending /\ CallsWereEntered
      /\ phase' = "aborted"
      /\ UNCHANGED <<msg, processing, memState, memStateVal, ctxMap, penalty>>
  BY DEF AssertionFails, DInv
<1>2. CInv'
  BY <1>1, CNext DEF Next
<1>3. TypeOK' /\ StatesOK'
  BY <1>1 DEF TypeOK, StatesOK
<1>4. FlowConsistent'
  BY <1>1, FlowConsistentKept DEF CInv
<1>5. MetHavePredecessor' /\ SuccessorsAreMet' /\ ReadyIsPending' /\ CallsWereEntered'
  BY <1>1 DEF MetHavePredecessor, SuccessorsAreMet, ReadyIsPending, CallsWereEntered,
              HasPredecessor, Predecessors, isPredecessorMemStateKnown
<1>6. PenaltiesSet' /\ OtherAssertionsHold'
  BY <1>1, NodeAssertions DEF PenaltiesSet, OtherAssertionsHold
<1> QED BY <1>2, <1>3, <1>4, <1>5, <1>6 DEF DInv

(* The penalties are numbers.                                              *)
LEMMA DispCostType ==
  ASSUME DInv, NEW n \in Node
  PROVE  DispCost(n) \in Nat
<1>1. CInv /\ msg \in MSGs
  BY DEF DInv, CInv
<1>2. \A t : Latency(t) \in Nat
  BY ArchAssumption DEF Latency
<1>3. \A a, b \in Nat : Excess(a, b) \in Nat
  BY DEF Excess
<1>4. \A t : getDispHitPenalty(t) \in Nat
  BY <1>2, <1>3, ArchAssumption DEF getDispHitPenalty
<1>5. ASSUME NEW f \in Function, NEW t PROVE getDispMissAndLoadPenalty(f, t) \in Nat
  <2> DEFINE blocks == getFunctionMemSize(f) \div BlockSize
  <2>1. blocks \in Nat
    <3>1. getFunctionMemSize(f) \in Nat /\ BlockSize \in Nat \ {0}
      BY SizePositive, FunctionAssumption
    <3> QED BY <3>1
  <2> HIDE DEF blocks
  <2>2. MissLatency + 1 \in Nat /\ CtrlMissCycles \in Nat
    BY ArchAssumption
  <2>3. blocks * (MissLatency + 1) \in Nat
    BY <2>1, <2>2
  <2>4. blocks * (MissLatency + 1) + CtrlMissCycles \in Nat
    BY <2>2, <2>3
  <2> QED BY <1>2, <1>3, <2>4 DEF getDispMissAndLoadPenalty, blocks
<1>6. Activated(n) # << >> => Activated(n)[1] \in Function
  <2>1. CASE n \in DOMAIN ctxMap
    BY <1>1, <2>1, ActivatedIsCalled, CalledFacts
  <2>2. CASE n \notin DOMAIN ctxMap
    <3>1. Pop(getContextForNode(n)) = << >>
      BY <2>2 DEF getContextForNode, Pop
    <3>2. msg.func[n] \in Function
      BY <1>1, CallGraphFacts
    <3> QED BY <3>1, <3>2 DEF Activated
  <2> QED BY <2>1, <2>2
<1> QED BY <1>4, <1>5, <1>6 DEF DispCost

(* Only an exit node with two edges into it stops the calculation of the   *)
(* penalties.                                                              *)
LEMMA PenaltyAssertions ==
  ASSUME DInv, NEW n \in Node, PenaltyAsserts(n)
  PROVE  msg.type[n] = "Exit" /\ Len(msg.in[n]) > 1
<1>1. CInv /\ msg \in MSGs /\ MetHavePredecessor
  BY DEF DInv, CInv
<1>2. msg.type[n] = "Exit" /\ Activated(n) # << >> /\ Len(msg.in[n]) # 1
  BY <1>1, CallNodeFacts DEF PenaltyAsserts
<1>3. n \in DOMAIN ctxMap
  BY <1>2 DEF Activated, getContextForNode, Pop
<1>4. HasPredecessor(n) /\ n # Entry
  BY <1>1, <1>2, <1>3, CallNodeFacts DEF MetHavePredecessor
<1>5. 1 \in 1..Len(Predecessors(n)) /\ Predecessors(n)[1] \in Node
  <2>1. Predecessors(n) \in Seq(Node) /\ Len(Predecessors(n)) > 0
    BY <1>1, <1>4, CallFlowFacts DEF HasPredecessor
  <2> QED BY <2>1
<1>6. HasForwardEdge(msg.in[n], Predecessors(n)[1])
  BY <1>1, <1>5, CallFlowFacts
<1>7. PICK i \in 1..Len(msg.in[n]) : msg.in[n][i].type # "BackwardJump"
  BY <1>6 DEF HasForwardEdge
<1>8. msg.in[n] \in Seq(Edges)
  BY <1>1, CallGraphFacts
<1>9. Len(msg.in[n]) \in Nat
  BY <1>8
<1>10. Len(msg.in[n]) # 0
  BY <1>7, <1>9
<1> DEFINE edges == Len(msg.in[n])
<1>11. edges \in Nat /\ edges # 0 /\ edges # 1
  BY <1>2, <1>9, <1>10
<1> HIDE DEF edges
<1>12. edges > 1
  BY <1>11
<1> QED BY <1>2, <1>12 DEF edges

(* The calculation of the penalties keeps the invariant.                   *)
LEMMA CalculateInv ==
  ASSUME DInv, CalculateMemPenalty
  PROVE  DInv'
<1>1. /\ CInv /\ TypeOK /\ StatesOK /\ FlowConsistent
      /\ MetHavePredecessor /\ SuccessorsAreMet /\ ReadyIsPending /\ CallsWereEntered
      /\ processing = << >>
      /\ \/ phase' = "aborted" /\ penalty' = penalty /\ \E n \in Node : PenaltyAsserts(n)
         \/ phase' = "done" /\ penalty' = [n \in Node |-> DispCost(n)]
      /\ UNCHANGED <<msg, processing, memState, memStateVal, ctxMap>>
  BY DEF CalculateMemPenalty, DInv
<1>2. CInv'
  BY <1>1, CNext DEF Next
<1>3. penalty' \in [Node -> Nat]
  BY <1>1, DispCostType DEF TypeOK
<1>4. TypeOK' /\ StatesOK'
  <2>1. phase' \in {"analyze", "done", "aborted"}
    BY <1>1
  <2> QED BY <1>1, <1>3, <2>1 DEF TypeOK, StatesOK
<1>5. FlowConsistent'
  BY <1>1, FlowConsistentKept DEF CInv
<1>6. MetHavePredecessor' /\ SuccessorsAreMet' /\ ReadyIsPending' /\ CallsWereEntered'
  BY <1>1 DEF MetHavePredecessor, SuccessorsAreMet, ReadyIsPending, CallsWereEntered,
              HasPredecessor, Predecessors, isPredecessorMemStateKnown
<1>7. PenaltiesSet'
  BY <1>1 DEF PenaltiesSet, DispCost, Category, Activated, getContextForNode
<1>8. OtherAssertionsHold'
  <2>1. (\E n \in Node : PenaltyAsserts(n)) =>
          \E n \in Node : msg.type[n] = "Exit" /\ Len(msg.in[n]) > 1
    BY PenaltyAssertions
  <2> QED BY <1>1, <2>1 DEF OtherAssertionsHold
<1> QED BY <1>2, <1>4, <1>5, <1>6, <1>7, <1>8 DEF DInv

(* Every step keeps the invariant.                                         *)
LEMMA DNext == DInv /\ [Next]_vars => DInv'
<1> SUFFICES ASSUME DInv, [Next]_vars PROVE DInv'
  OBVIOUS
<1>1. CASE DropNode
  BY <1>1, DropInv
<1>2. CASE JoinAndSetInitialMemState \/ SetInitialMemState
  BY <1>2, ProcessStep, ProcessInv
<1>3. CASE AssertionFails
  BY <1>3, AssertionInv
<1>4. CASE CalculateMemPenalty
  BY <1>4, CalculateInv
<1>5. CASE UNCHANGED vars
  <2> USE <1>5 DEF vars
  <2>1. CInv'
    BY CNext DEF DInv
  <2>2. TypeOK' /\ StatesOK'
    BY DEF DInv, TypeOK, StatesOK
  <2>3. FlowConsistent'
    BY FlowConsistentKept DEF DInv, CInv
  <2>4. MetHavePredecessor' /\ SuccessorsAreMet' /\ ReadyIsPending' /\ CallsWereEntered'
    BY DEF DInv, MetHavePredecessor, SuccessorsAreMet, ReadyIsPending, CallsWereEntered,
           HasPredecessor, Predecessors, isPredecessorMemStateKnown
  <2>5. PenaltiesSet' /\ OtherAssertionsHold'
    BY DEF DInv, PenaltiesSet, DispCost, Category, Activated, getContextForNode,
           OtherAssertionsHold
  <2> QED BY <2>1, <2>2, <2>3, <2>4, <2>5 DEF DInv
<1> QED BY <1>1, <1>2, <1>3, <1>4, <1>5 DEF Next

(* The invariant holds at every step of the analysis.                      *)
THEOREM Invariance == Spec => []DInv
<1> QED BY DInit, DNext, PTL DEF Spec

(* Every variable of the analysis keeps its type.                          *)
THEOREM TypeCorrect == Spec => []TypeOK
<1>1. DInv => TypeOK
  BY DEF DInv
<1> QED BY <1>1, Invariance, PTL

(* Whatever order the stack of the worklist yields, a node marked valid    *)
(* holds the solution of its flow equation, in which the function returned *)
(* to is the one the node was copied for.                                  *)
THEOREM SolutionIsConsistent == Spec => []FlowConsistent
<1>1. DInv => FlowConsistent
  BY DEF DInv
<1> QED BY <1>1, Invariance, PTL

(* Of all the assertions, only those about an outsized function and about  *)
(* a function with more than one return can stop the analysis.             *)
THEOREM OnlyTwoAssertionsFail == Spec => []OtherAssertionsHold
<1>1. DInv => OtherAssertionsHold
  BY DEF DInv
<1> QED BY <1>1, Invariance, PTL

(* The programs for which those two hold: outsized functions are ignored,  *)
(* or none is called, and every function has one return.                   *)
FunctionsFit ==
  \A g \in MSGs : \A n \in Node :
    /\ g.type[n] = "Entry" => IgnoreOutsized \/ ~Outsized(g.func[n])
    /\ g.type[n] = "Exit" => Len(g.in[n]) <= 1

(* For these programs no assertion fails, whatever their calls and loops.  *)
THEOREM NeverAborts == FunctionsFit => (Spec => []NoAssertionFails)
<1> SUFFICES ASSUME FunctionsFit PROVE Spec => []NoAssertionFails
  OBVIOUS
<1>1. DInv => NoAssertionFails
  <2> SUFFICES ASSUME DInv, phase = "aborted" PROVE FALSE
    BY DEF NoAssertionFails
  <2>1. msg \in MSGs /\ OtherAssertionsHold
    BY DEF DInv, CInv
  <2>2. \A n \in Node : Len(msg.in[n]) \in Nat
    <3>1. \A n \in Node : msg.in[n] \in Seq(Edges)
      BY <2>1, CallGraphFacts
    <3>2. \A s \in Seq(Edges) : Len(s) \in Nat
      OBVIOUS
    <3> QED BY <3>1, <3>2
  <2> QED BY <2>1, <2>2 DEF OtherAssertionsHold, FunctionsFit
<1> QED BY <1>1, Invariance, PTL

-----------------------------------------------------------------------------
(***************************************************************************)
(* The worklist implements the abstract analysis.                          *)
(***************************************************************************)

(* A node is solved once it is marked valid; a failed assertion ends       *)
(* nothing, the abstract analysis just goes on no further.                 *)
preds == [n \in Node |-> {m \in Node : HasForwardEdge(msg.in[n], m)}]

FA == INSTANCE ForwardAnalysis WITH
        solved <- {n \in Node : memStateVal[n]}, ended <- (phase = "done")

(* The conditions of the code in terms of the abstract analysis.           *)
LEMMA KnownIsSolved ==
  ASSUME msg \in MSGs, NEW n \in Node
  PROVE  /\ isPredecessorMemStateKnown(n) <=> preds[n] \subseteq {m \in Node : memStateVal[m]}
         /\ HasPredecessor(n) <=> n = Entry \/ preds[n] # {}
<1>1. Predecessors(n) \in Seq(Node) /\ Len(Predecessors(n)) \in Nat
  BY CallFlowFacts
<1>2. \A m \in Node : m \in preds[n] <=> \E i \in 1..Len(Predecessors(n)) : Predecessors(n)[i] = m
  BY CallFlowFacts DEF preds
<1>3. \A i \in 1..Len(Predecessors(n)) : Predecessors(n)[i] \in preds[n] /\ Predecessors(n)[i] \in Node
  BY <1>1, <1>2
<1>4. preds[n] \subseteq Node
  BY DEF preds
<1>5. Len(Predecessors(n)) > 0 <=> preds[n] # {}
  <2>1. Len(Predecessors(n)) > 0 => Predecessors(n)[1] \in preds[n]
    BY <1>1, <1>3
  <2>2. preds[n] # {} => Len(Predecessors(n)) > 0
    BY <1>1, <1>2, <1>4
  <2> QED BY <2>1, <2>2
<1>6. n = Entry => preds[n] = {}
  BY <1>5, CallFlowFacts
<1>7. (\A i \in 1..Len(Predecessors(n)) : memStateVal[Predecessors(n)[i]])
        <=> preds[n] \subseteq {m \in Node : memStateVal[m]}
  BY <1>1, <1>2, <1>3, <1>4
<1> QED BY <1>5, <1>6, <1>7 DEF isPredecessorMemStateKnown, HasPredecessor

(* The analysis starts where the abstract one does.                        *)
LEMMA InitRefines == Init => FA!Init
<1> SUFFICES ASSUME Init PROVE FA!Init
  OBVIOUS
<1>1. preds \in [Node -> SUBSET Node]
  BY DEF preds
<1>2. {n \in Node : memStateVal[n]} = {} /\ (phase = "done") = FALSE
  BY DEF Init
<1> QED BY <1>1, <1>2 DEF FA!Init

(* Processing solves a node that can be solved, or one again that is.      *)
LEMMA ProcessSolves ==
  ASSUME DInv, Process
  PROVE  /\ Actual \in Node
         /\ preds' = preds /\ (phase = "done")' = (phase = "done")
         /\ {n \in Node : memStateVal'[n]} = {n \in Node : memStateVal[n]} \cup {Actual}
         /\ memStateVal[Actual] \/ \E n \in Node : FA!Solve(n)
<1> DEFINE solved == {n \in Node : memStateVal[n]}
<1>1. /\ msg \in MSGs /\ phase = "analyze" /\ processing # << >>
      /\ Actual # Exit /\ isPredecessorMemStateKnown(Actual)
  BY DEF Process, DInv, CInv
<1>2. /\ Actual \in Node /\ memStateVal'[Actual] /\ msg' = msg /\ phase' = phase
      /\ \A n \in Node \ {Actual} : memStateVal'[n] = memStateVal[n]
  BY ProcessEffect
<1>3. HasPredecessor(Actual)
  BY <1>1, ActualFacts
<1>4. preds' = preds /\ (phase = "done")' = (phase = "done") /\ phase # "done"
  BY <1>1, <1>2 DEF preds
<1>5. solved' = solved \cup {Actual}
  BY <1>2
<1>6. ASSUME ~memStateVal[Actual] PROVE \E n \in Node : FA!Solve(n)
  <2>1. PICK n \in Node : n = Actual
    BY <1>2
  <2>2. preds[n] \subseteq solved /\ (n = Entry \/ preds[n] # {})
    BY <1>1, <1>3, <2>1, KnownIsSolved
  <2>3. FA!Solvable(n)
    BY <1>1, <1>6, <2>1, <2>2 DEF FA!Solvable
  <2>4. FA!Solve(n)
    BY <1>4, <1>5, <2>1, <2>3 DEF FA!Solve
  <2> QED BY <2>4
<1> QED BY <1>2, <1>4, <1>5, <1>6

(* Nothing is left to solve when the penalties are calculated.             *)
LEMMA CalculationEnds ==
  ASSUME DInv, CalculateMemPenalty, phase' = "done"
  PROVE  FA!End
<1>1. /\ msg \in MSGs /\ msg' = msg /\ memStateVal' = memStateVal /\ processing = << >>
      /\ phase = "analyze"
  BY DEF CalculateMemPenalty, DInv, CInv
<1>2. ASSUME NEW n \in Node, FA!Solvable(n) PROVE FALSE
  <2>1. /\ n # Exit /\ n \notin {m \in Node : memStateVal[m]}
        /\ n = Entry \/ preds[n] # {}
        /\ preds[n] \subseteq {m \in Node : memStateVal[m]}
    BY <1>2 DEF FA!Solvable
  <2>2. isPredecessorMemStateKnown(n) /\ HasPredecessor(n) /\ ~memStateVal[n]
    BY <1>1, <2>1, KnownIsSolved
  <2>3. \E i \in 1..Len(processing) : processing[i] = n
    BY <2>1, <2>2 DEF DInv, ReadyIsPending
  <2> QED BY <1>1, <2>3
<1>3. preds' = preds
  BY <1>1 DEF preds
<1> QED BY <1>1, <1>2, <1>3 DEF FA!End

(* Every step solves a node that can be solved, ends the abstract analysis *)
(* when nothing is left to solve, or stutters.                             *)
LEMMA NextRefines == DInv /\ [Next]_vars => [FA!Next]_FA!absVars
<1> SUFFICES ASSUME DInv, [Next]_vars PROVE [FA!Next]_FA!absVars
  OBVIOUS
<1> DEFINE solved == {n \in Node : memStateVal[n]}
           Same == /\ preds' = preds /\ solved' = solved
                   /\ (phase = "done")' = (phase = "done")
<1>1. Same => UNCHANGED FA!absVars
  BY DEF FA!absVars
<1>2. CASE DropNode \/ AssertionFails
  <2>1. Same
    BY <1>2 DEF DropNode, AssertionFails, Pending, preds
  <2> QED BY <1>1, <2>1
<1>3. CASE JoinAndSetInitialMemState \/ SetInitialMemState
  <2>1. Process
    BY <1>3, ProcessStep
  <2>2. Actual \in Node /\ (memStateVal[Actual] \/ \E n \in Node : FA!Solve(n))
    BY <2>1, ProcessSolves
  <2>3. CASE \E n \in Node : FA!Solve(n)
    BY <2>3 DEF FA!Next
  <2>4. CASE memStateVal[Actual]
    <3>1. solved' = solved \cup {Actual} /\ preds' = preds /\ (phase = "done")' = (phase = "done")
      BY <2>1, ProcessSolves
    <3>2. solved' = solved
      BY <2>2, <2>4, <3>1
    <3> QED BY <1>1, <3>1, <3>2
  <2> QED BY <2>2, <2>3, <2>4
<1>4. CASE CalculateMemPenalty
  <2>1. CASE phase' = "done"
    BY <1>4, <2>1, CalculationEnds DEF FA!Next
  <2>2. CASE phase' # "done"
    <3>1. Same
      BY <1>4, <2>2 DEF CalculateMemPenalty, preds
    <3> QED BY <1>1, <3>1
  <2> QED BY <2>1, <2>2
<1>5. CASE UNCHANGED vars
  <2>1. Same
    BY <1>5 DEF vars, preds
  <2> QED BY <1>1, <2>1
<1> QED BY <1>2, <1>3, <1>4, <1>5 DEF Next

(* Every run of the D-ISP analysis is a run of the abstract analysis,      *)
(* though a node can be processed again: its state is what it was, and no  *)
(* node is left out when the results are put on the graph.                 *)
THEOREM Refinement == Spec => FA!Spec
<1> QED BY InitRefines, NextRefines, Invariance, PTL DEF Spec, FA!Spec

-----------------------------------------------------------------------------
(***************************************************************************)
(* What the solution says of an execution that took no edge backwards, or  *)
(* runs in a graph whose loops are peeled and have straight bodies.        *)
(***************************************************************************)

(* The programs whose blocks are all entered by a forward edge.            *)
Regular == \A g \in MSGs : ForwardAcyclic(g) /\ ForwardConnected(g)

(* The paths on which the states are proved sound.                         *)
Followed == ~looped \/ LoopsArePeeled(msg, FunctionsCalled(msg), Seq(Node))

(* What the state of a node says of the memory with which the execution    *)
(* comes to it.                                                            *)
StateSound(n, c) ==
  /\ MustBounds(memState[n].must, c)
  /\ memStateVal[n] => Describes(memState[n], c)
  /\ Regular => n = Entry \/ n \in DOMAIN ctxMap

(* The functions used along a chain of nodes, how many of them before its  *)
(* i-th node, and that using them made the memory what it is.              *)
ChainCalls(chain) == LinesOf(FunctionsCalled(msg), chain)

Before(chain, i) == LinesBefore(FunctionsCalled(msg), chain, i)

WalkedTo(r, chain, i) ==
  IsRun(r, ChainCalls(chain), Before(chain, i)) /\ r[Before(chain, i)] = Ages(content)

(* Who is in a chain came from its first node.                             *)
ChainRuns ==
  \A chain \in Seq(Node) : IsChain(msg, chain) =>
    \A i \in 1..Len(chain) : at = chain[i] => \E r : WalkedTo(r, chain, i)

(* The functions of the body have been used before the current iteration   *)
(* (by the peeled iteration or the last one), and it began with a memory   *)
(* that the state of the loop's head describes.                            *)
Iterates(body, i, r, g) ==
  /\ WalkedTo(r, body, i)
  /\ IsRun(g, ChainCalls(body), Len(ChainCalls(body)))
  /\ r[0] = g[Len(ChainCalls(body))]
  /\ \E c : IsContent(Memory, c) /\ Ages(c) = r[0] /\ StateSound(body[1], c)

LoopRuns ==
  phase = "done" /\ LoopsArePeeled(msg, FunctionsCalled(msg), Seq(Node)) =>
    \A first, body \in Seq(Node) : IsPeeledLoop(msg, FunctionsCalled(msg), first, body) =>
      \A i \in 1..Len(body) : at = body[i] => \E r, g : Iterates(body, i, r, g)

XInv ==
  /\ DInv
  /\ XCInv
  /\ IsContent(Memory, content)
  /\ looped \in BOOLEAN
  /\ phase # "done" => at = Entry /\ content = << >> /\ ~looped
  /\ phase = "done" /\ Followed => StateSound(at, content)
  /\ ChainRuns
  /\ LoopRuns

(* If every block is entered by a forward edge and the forward edges form  *)
(* no cycle, every node but the exit has a state at the end.               *)
LEMMA AllAnalyzed ==
  ASSUME DInv, processing = << >>, ForwardAcyclic(msg), ForwardConnected(msg),
         NEW x \in Node \ {Exit}
  PROVE  memStateVal[x]
<1> SUFFICES ASSUME ~memStateVal[x] PROVE FALSE
  OBVIOUS
<1> DEFINE unsolved == {n \in Node \ {Exit} : ~memStateVal[n]}
<1>1. msg \in MSGs /\ unsolved \in (SUBSET Node) \ {{}}
  BY DEF DInv, CInv
<1>2. PICK n \in unsolved : \A m \in unsolved : ~HasForwardEdge(msg.in[n], m)
  BY <1>1 DEF ForwardAcyclic
<1>3. n \in Node \ {Exit} /\ ~memStateVal[n]
  BY <1>2
<1>4. ASSUME NEW m \in Node, HasForwardEdge(msg.in[n], m) PROVE memStateVal[m]
  <2>1. m # Exit
    BY <1>1, <1>3, <1>4, CallFlowFacts
  <2> QED BY <1>2, <1>4, <2>1
<1>5. isPredecessorMemStateKnown(n)
  <2>1. ASSUME NEW i \in 1..Len(Predecessors(n)) PROVE memStateVal[Predecessors(n)[i]]
    <3>1. Predecessors(n)[i] \in Node
      BY <1>1, <1>3, CallFlowFacts
    <3>2. HasForwardEdge(msg.in[n], Predecessors(n)[i])
      BY <1>1, <1>3, <3>1, CallFlowFacts
    <3> QED BY <1>4, <3>1, <3>2
  <2> QED BY <2>1 DEF isPredecessorMemStateKnown
<1>6. HasPredecessor(n)
  <2> SUFFICES ASSUME n # Entry PROVE Len(Predecessors(n)) > 0
    BY DEF HasPredecessor
  <2>1. PICK m \in Node : HasForwardEdge(msg.in[n], m)
    BY <1>3 DEF ForwardConnected
  <2>2. \E i \in 1..Len(Predecessors(n)) : Predecessors(n)[i] = m
    BY <1>1, <1>3, <2>1, CallFlowFacts
  <2>3. Predecessors(n) \in Seq(Node)
    BY <1>1, <1>3, CallFlowFacts
  <2> QED BY <2>2, <2>3
<1> HIDE DEF unsolved
<1>7. \E i \in 1..Len(processing) : processing[i] = n
  BY <1>3, <1>5, <1>6 DEF DInv, ReadyIsPending
<1> QED BY <1>7

(* The state of the entry is blank, computed or not.                       *)
LEMMA EntryBlank ==
  ASSUME DInv
  PROVE  memState[Entry] = BlankMemState
<1>1. Entry \in Node
  BY EndsAssumption
<1>2. memStateVal[Entry] => memState[Entry] = FlowValue(Entry)
  BY <1>1 DEF DInv, FlowConsistent
<1> QED BY <1>1, <1>2 DEF DInv, StatesOK, FlowValue

(* The size of the memory.                                                 *)
LEMMA MemoryFacts == Memory.size = DispSize /\ Memory.size \in Nat
BY DispAssumption DEF Memory

(* The functions used at a node stand in those of the chain behind the     *)
(* ones of the nodes before.                                               *)
LEMMA ChainParts ==
  ASSUME msg \in MSGs, NEW chain \in Seq(Node), NEW i \in 1..Len(chain)
  PROVE  /\ ChainCalls(chain) \in Seq(Function)
         /\ Before(chain, i) \in Nat /\ Before(chain, 1) = 0
         /\ Len(Called(chain[i])) \in Nat
         /\ i < Len(chain) => Before(chain, i + 1) = Before(chain, i) + Len(Called(chain[i]))
         /\ i = Len(chain) =>
              Len(ChainCalls(chain)) = Before(chain, i) + Len(Called(chain[i]))
         /\ \A k \in 1..Len(Called(chain[i])) :
              ChainCalls(chain)[Before(chain, i) + k] = Called(chain[i])[k]
<1>1. ASSUME NEW n \in Node PROVE CalledAt(msg, n) \in Seq(Function)
  <2>1. CASE Called(n) = << >>
    BY <2>1 DEF Called
  <2>2. CASE Called(n) # << >>
    <3>1. Called(n)[1] \in Function /\ Called(n) = <<Called(n)[1]>>
      BY <2>2, CalledFacts
    <3>2. \A x \in Function : <<x>> \in Seq(Function)
      OBVIOUS
    <3>3. Called(n) \in Seq(Function)
      <4> HIDE DEF Called
      <4> QED BY <3>1, <3>2
    <3> QED BY <3>3 DEF Called
  <2> QED BY <2>1, <2>2
<1>2. FunctionsCalled(msg) \in [Node -> Seq(Function)]
  BY <1>1 DEF FunctionsCalled
<1>3. chain[i] \in Node /\ FunctionsCalled(msg)[chain[i]] = Called(chain[i])
  BY DEF FunctionsCalled, Called
<1> QED BY <1>2, <1>3, LinesOfChain DEF ChainCalls, Before

(* At the entry nothing has been walked: no edge leads there.              *)
LEMMA EntryRuns ==
  msg \in MSGs /\ at = Entry /\ IsContent(Memory, content) => ChainRuns /\ LoopRuns
<1> SUFFICES ASSUME msg \in MSGs, at = Entry, IsContent(Memory, content)
             PROVE  ChainRuns /\ LoopRuns
  OBVIOUS
<1>1. ChainRuns
  <2> SUFFICES ASSUME NEW chain \in Seq(Node), IsChain(msg, chain),
                      NEW i \in 1..Len(chain), Entry = chain[i]
               PROVE  \E r : WalkedTo(r, chain, i)
    BY DEF ChainRuns
  <2>1. i = 1
    <3>1. i = 1 \/ i \in 2..Len(chain)
      OBVIOUS
    <3> QED BY <3>1 DEF IsChain, EnteredFrom
  <2>2. Before(chain, i) = 0
    BY <2>1, ChainParts
  <2> QED BY <2>2, NewRun, ContentAges DEF WalkedTo
<1>2. ASSUME NEW first \in Seq(Node), NEW body \in Seq(Node),
             IsPeeledLoop(msg, FunctionsCalled(msg), first, body), NEW i \in 1..Len(body)
      PROVE  body[i] # Entry
  <2>1. i = 1 \/ i \in 2..Len(body)
    OBVIOUS
  <2> QED BY <1>2, <2>1 DEF IsPeeledLoop, IsChain, EnteredFrom
<1>3. LoopRuns
  BY <1>2 DEF LoopRuns
<1> QED BY <1>1, <1>3

(* The execution starts with the invariant.                                *)
LEMMA XInit == ExecInit => XInv
<1> SUFFICES ASSUME ExecInit PROVE XInv
  OBVIOUS
<1>1. DInv /\ XCInv
  BY DInit, XCInit DEF ExecInit
<1>2. phase = "analyze" /\ at = Entry /\ content = << >> /\ looped = FALSE
  BY DEF ExecInit, Init
<1>3. IsContent(Memory, content)
  BY <1>2, MemoryFacts, BlankDescribes
<1>4. looped \in BOOLEAN /\ ~looped
  BY <1>2, Zenon
<1>5. ChainRuns /\ LoopRuns
  BY <1>1, <1>2, <1>3, EntryRuns DEF XCInv, CInv
<1> QED BY <1>1, <1>2, <1>3, <1>4, <1>5 DEF XInv

(* The analysis leaves the execution where it starts, with a blank state.  *)
LEMMA AnalyseInv ==
  ASSUME XInv, Analyse
  PROVE  XInv'
<1>1. DInv /\ XCInv /\ Next /\ UNCHANGED <<at, content, looped>>
  BY DEF Analyse, XInv, execVars
<1>2. DInv' /\ XCInv'
  <2>1. [Next]_vars /\ [ExecNext]_allVars
    BY DEF Analyse, ExecNext
  <2> QED BY <1>1, <2>1, DNext, XCNext
<1>3. phase = "analyze" /\ (phase' = "done" => memState' = memState)
  BY <1>1 DEF Next, DropNode, JoinAndSetInitialMemState, SetInitialMemState, AssertionFails,
              CalculateMemPenalty, SetState, Pending
<1>4. at' = Entry /\ content' = << >> /\ ~looped' /\ looped' \in BOOLEAN
  BY <1>1, <1>3 DEF XInv
<1>5. IsContent(Memory, content')
  BY <1>4, MemoryFacts, BlankDescribes
<1>6. phase' = "done" => MustBounds(memState'[at'].must, content') /\ Describes(memState'[at'], content')
  BY <1>1, <1>3, <1>4, EntryBlank, MemoryFacts, BlankDescribes
<1>7. phase' = "done" => StateSound(at, content)'
  BY <1>4, <1>6 DEF StateSound
<1>8. (ChainRuns /\ LoopRuns)'
  <2>1. (msg \in MSGs)'
    BY <1>2 DEF XCInv, CInv
  <2>2. (at = Entry /\ IsContent(Memory, content))'
    BY <1>4, <1>5
  <2> QED BY <2>1, <2>2, EntryRuns, PTL
<1> QED BY <1>2, <1>4, <1>5, <1>7, <1>8 DEF XInv

(* What the execution asks the memory for is what the analysis followed.   *)
LEMMA RequestedIsCalled ==
  ASSUME XCInv
  PROVE  /\ Requested = Called(at)
         /\ Requested # << >> => Requested[1] \in Function
<1>1. msg \in MSGs /\ at \in Node /\ stack = msg.context[at]
  BY DEF XCInv, CInv
<1>2. stack \in Seq(Function)
  BY <1>1, CallGraphFacts
<1>3. Pop(stack) # << >> => Pop(stack)[Len(stack) - 1] = stack[Len(stack) - 1]
  BY <1>2, BelowTop
<1>4. Requested = Called(at)
  BY <1>1, <1>3 DEF Requested, Called, CalledAt
<1> QED BY <1>1, <1>4, CalledFacts

(* Behind a node of a chain the functions it calls have been used.         *)
LEMMA WalkAcross ==
  ASSUME XCInv, IsContent(Memory, content), TakeEdge, NEW chain \in Seq(Node),
         NEW i \in 1..Len(chain), at = chain[i], NEW r, WalkedTo(r, chain, i)
  PROVE  \E h : /\ h[0] = r[0]
                /\ i < Len(chain) => WalkedTo(h, chain, i + 1)'
                /\ i = Len(chain) =>
                     /\ IsRun(h, ChainCalls(chain), Len(ChainCalls(chain)))
                     /\ h[Len(ChainCalls(chain))] = Ages(content')
<1> DEFINE w == ChainCalls(chain)
           b == Before(chain, i)
           c == Called(at)
<1>1. /\ msg \in MSGs /\ msg' = msg /\ at \in Node
      /\ content' = IF Requested = << >> THEN content
                    ELSE LoadLru(Memory, content, Requested[1])
      /\ Requested = c
  BY RequestedIsCalled DEF XCInv, CInv, TakeEdge, vars
<1>2. /\ b \in Nat /\ Len(c) \in Nat
      /\ i < Len(chain) => Before(chain, i + 1) = b + Len(c)
      /\ i = Len(chain) => Len(w) = b + Len(c)
      /\ \A k \in 1..Len(c) : w[b + k] = c[k]
  BY <1>1, ChainParts
<1>3. IsRun(r, w, b) /\ r[b] = Ages(content)
  BY DEF WalkedTo
<1>4. ChainCalls(chain)' = w /\ Before(chain, i + 1)' = Before(chain, i + 1)
  BY <1>1 DEF ChainCalls, Before
<1> SUFFICES \E h : IsRun(h, w, b + Len(c)) /\ h[b + Len(c)] = Ages(content') /\ h[0] = r[0]
  <2> HIDE DEF w, b, c
  <2>1. ASSUME NEW h, IsRun(h, w, b + Len(c)), h[b + Len(c)] = Ages(content')
        PROVE  /\ i < Len(chain) => WalkedTo(h, chain, i + 1)'
               /\ i = Len(chain) => IsRun(h, w, Len(w)) /\ h[Len(w)] = Ages(content')
    BY <1>2, <1>4, <2>1 DEF WalkedTo
  <2> QED BY <2>1 DEF w
<1>5. CASE c = << >>
  <2>1. Len(c) = 0 /\ content' = content
    BY <1>1, <1>5
  <2> HIDE DEF w, b, c
  <2>2. b + Len(c) = b
    BY <1>2, <2>1
  <2> QED BY <1>3, <2>1, <2>2
<1>6. CASE c # << >>
  <2>1. c[1] \in Function /\ c = <<c[1]>>
    BY <1>1, <1>6, CalledFacts
  <2>2. Len(c) = 1
    <3> HIDE DEF c
    <3> QED BY <2>1
  <2>3. w[b + 1] = c[1] /\ content' = LoadLru(Memory, content, c[1])
    BY <1>1, <1>2, <1>6, <2>2
  <2> HIDE DEF w, b, c
  <2>4. PICK h : IsRun(h, w, b + 1) /\ h[0] = r[0] /\ h[b + 1] = AgesLoaded(r[b], w[b + 1])
    BY <1>2, <1>3, RunMore
  <2>5. h[b + 1] = Ages(content')
    BY <1>3, <2>1, <2>3, <2>4, LoadAges
  <2> QED BY <2>2, <2>4, <2>5
<1> QED BY <1>5, <1>6

(* Over a forward edge the state of the node entered describes the memory  *)
(* behind the node left.                                                   *)
LEMMA ForwardSound ==
  ASSUME XInv, TakeEdge, Followed, at' \in Node, IsContent(Memory, content'),
         HasForwardEdge(msg.in[at'], at)
  PROVE  StateSound(at', content')
<1>1. /\ DInv /\ XCInv /\ msg \in MSGs /\ at \in Node /\ IsContent(Memory, content)
      /\ memState \in [Node -> DispStates]
      /\ FlowConsistent /\ SuccessorsAreMet
  BY DEF XInv, XCInv, CInv, DInv, StatesOK
<1>2. /\ phase = "done"
      /\ content' = IF Requested = << >> THEN content
                    ELSE LoadLru(Memory, content, Requested[1])
  BY DEF TakeEdge
<1>3. at' # Entry
  <2>1. PICK j \in 1..Len(Predecessors(at')) : Predecessors(at')[j] = at
    BY <1>1, CallFlowFacts
  <2> QED BY <1>1, <2>1, CallFlowFacts
<1>4. ASSUME memStateVal[at'] PROVE Describes(memState[at'], content')
  <2>1. /\ HasPredecessor(at') /\ isPredecessorMemStateKnown(at')
        /\ memState[at'] = FlowValue(at')
    BY <1>1, <1>4 DEF FlowConsistent
  <2>2. memStateVal[at]
    <3>1. PICK j \in 1..Len(Predecessors(at')) : Predecessors(at')[j] = at
      BY <1>1, CallFlowFacts
    <3> QED BY <1>3, <2>1, <3>1 DEF isPredecessorMemStateKnown
  <2>3. Describes(memState[at], content) /\ memState[at] \in DispStates
    BY <1>1, <1>2, <2>2 DEF XInv, StateSound
  <2>4. Describes(StateBehind(at), content')
    <3>1. CASE Called(at) = << >>
      BY <1>1, <1>2, <2>3, <3>1, RequestedIsCalled DEF StateBehind
    <3>2. CASE Called(at) # << >>
      <4>1. /\ StateBehind(at) = DispUpdate(memState[at], Called(at)[1])
            /\ content' = LoadLru(Memory, content, Called(at)[1])
            /\ Called(at)[1] \in Function
        BY <1>1, <1>2, <3>2, RequestedIsCalled DEF StateBehind
      <4> QED BY <1>1, <2>3, <4>1, MemoryFacts, UpdateDescribes
    <3> QED BY <3>1, <3>2
  <2>5. content' \in Seq(Function)
    BY DEF IsContent
  <2> QED BY <1>1, <1>3, <2>1, <2>4, <2>5, FlowValueType
<1>5. MustBounds(memState[at'].must, content')
  <2>1. CASE memStateVal[at']
    BY <1>4, <2>1 DEF Describes
  <2>2. CASE ~memStateVal[at']
    <3>1. memState[at'] = BlankMemState
      BY <1>1, <2>2 DEF DInv, StatesOK
    <3> QED BY <3>1, MemoryFacts, BlankDescribes
  <2> QED BY <2>1, <2>2
<1>6. ASSUME Regular PROVE at' \in DOMAIN ctxMap
  <2>1. ForwardAcyclic(msg) /\ ForwardConnected(msg) /\ processing = << >>
    BY <1>1, <1>2, <1>6 DEF Regular, DInv, PenaltiesSet
  <2>2. at # Exit
    BY <1>1, CallFlowFacts
  <2>3. memStateVal[at]
    BY <1>1, <2>1, <2>2, AllAnalyzed
  <2> QED BY <1>1, <2>3 DEF SuccessorsAreMet
<1> QED BY <1>4, <1>5, <1>6 DEF StateSound

(* Over a BackwardJump that closes a straight loop the memory is the one   *)
(* the iteration began with.                                               *)
LEMMA BackwardSound ==
  ASSUME XInv, TakeEdge, LoopsArePeeled(msg, FunctionsCalled(msg), Seq(Node)),
         at' \in Node, IsContent(Memory, content'), HasBackEdge(msg, at, at')
  PROVE  StateSound(at', content')
<1>1. XCInv /\ IsContent(Memory, content) /\ at \in Node /\ msg \in MSGs /\ phase = "done"
  BY DEF XInv, XCInv, CInv, TakeEdge
<1>2. PICK first \in Seq(Node), body \in Seq(Node) :
        /\ IsPeeledLoop(msg, FunctionsCalled(msg), first, body)
        /\ body[1] = at' /\ body[Len(body)] = at
  BY <1>1 DEF LoopsArePeeled
<1>3. body # << >> /\ Len(body) \in 1..Len(body)
  BY <1>2 DEF IsPeeledLoop, IsChain
<1> DEFINE w == ChainCalls(body)
<1>4. PICK r, g : Iterates(body, Len(body), r, g)
  BY <1>1, <1>2, <1>3 DEF XInv, LoopRuns
<1>5. PICK h : h[0] = r[0] /\ IsRun(h, w, Len(w)) /\ h[Len(w)] = Ages(content')
  <2>1. WalkedTo(r, body, Len(body))
    BY <1>4 DEF Iterates
  <2> HIDE DEF w
  <2> QED BY <1>1, <1>2, <1>3, <2>1, WalkAcross DEF w
<1>6. w \in Seq(Function)
  BY <1>1, <1>3, ChainParts
<1>7. /\ IsRun(g, w, Len(w)) /\ r[0] = g[Len(w)]
      /\ \E c : IsContent(Memory, c) /\ Ages(c) = r[0] /\ StateSound(at', c)
  BY <1>2, <1>4 DEF Iterates
<1> HIDE DEF w
<1>8. PICK c : IsContent(Memory, c) /\ Ages(c) = r[0] /\ StateSound(at', c)
  BY <1>7
<1>9. Ages(c) = Ages(content')
  BY <1>5, <1>6, <1>7, <1>8, SecondTime
<1> QED BY <1>8, <1>9, SameAges DEF StateSound, Describes

(* Control leaves a node: the memory goes on as the state does, and as the *)
(* functions used along the chains and loops the node is in.               *)
LEMMA TakeEdgeInv ==
  ASSUME XInv, TakeEdge
  PROVE  XInv'
<1>1. /\ DInv /\ XCInv /\ msg \in MSGs /\ at \in Node /\ IsContent(Memory, content)
      /\ looped \in BOOLEAN
  BY DEF XInv, XCInv, CInv
<1>2. /\ phase = "done" /\ UNCHANGED vars
      /\ UNCHANGED <<msg, memState, memStateVal, ctxMap, phase>>
      /\ content' = IF Requested = << >> THEN content
                    ELSE LoadLru(Memory, content, Requested[1])
  BY DEF TakeEdge, vars
<1>3. PICK i \in 1..Len(msg.out[at]) :
        /\ at' = msg.out[at][i].node
        /\ looped' = (looped \/ msg.out[at][i].type = "BackwardJump")
  BY DEF TakeEdge
<1>4. DInv' /\ XCInv'
  <2>1. [Next]_vars /\ [ExecNext]_allVars
    BY <1>2 DEF ExecNext
  <2> QED BY <1>1, <2>1, DNext, XCNext
<1>5. at' \in Node /\ looped' \in BOOLEAN
  <2>1. at' \in Node
    BY <1>4 DEF XCInv
  <2>2. looped' \in BOOLEAN
    BY <1>1, <1>3, Zenon
  <2> QED BY <2>1, <2>2
<1>6. IsContent(Memory, content')
  BY <1>1, <1>2, RequestedIsCalled, MemoryFacts, LoadedContent
<1>7. ASSUME NEW n, NEW c PROVE StateSound(n, c)' <=> StateSound(n, c)
  BY <1>2 DEF StateSound
<1>8. ASSUME Followed' PROVE StateSound(at', content')
  <2>1. CASE msg.out[at][i].type = "BackwardJump"
    <3>1. LoopsArePeeled(msg, FunctionsCalled(msg), Seq(Node))
      BY <1>2, <1>3, <1>8, <2>1 DEF Followed
    <3>2. HasBackEdge(msg, at, at')
      <4>1. msg.out[at][i] \in Edges
        BY <1>1, CallGraphFacts
      <4>2. msg.out[at][i] = [node |-> at', type |-> "BackwardJump"]
        BY <1>3, <2>1, <4>1 DEF Edges
      <4> QED BY <4>2 DEF HasBackEdge
    <3> QED BY <1>5, <1>6, <3>1, <3>2, BackwardSound
  <2>2. CASE msg.out[at][i].type # "BackwardJump"
    <3>1. Followed
      BY <1>1, <1>2, <1>3, <1>8 DEF Followed
    <3>2. HasForwardEdge(msg.in[at'], at)
      <4>1. HasForwardEdge(msg.out[at], at')
        BY <1>3, <2>2 DEF HasForwardEdge
      <4>2. IsFlowGraph(msg)
        BY <1>1, GraphAssumption DEF IsCallGraph
      <4> QED BY <1>1, <1>5, <4>1, <4>2 DEF IsFlowGraph
    <3> QED BY <1>5, <1>6, <3>1, <3>2, ForwardSound
  <2> QED BY <2>1, <2>2
<1>9. HasEdge(msg, at, at')
  BY <1>3 DEF HasEdge
<1>10. ASSUME NEW chain \in Seq(Node), chain # << >>
       PROVE  \E r : WalkedTo(r, chain, 1)' /\ r[0] = Ages(content')
  <2>1. Before(chain, 1) = 0
    <3>1. 1 \in 1..Len(chain)
      BY <1>10
    <3> QED BY <1>1, <3>1, ChainParts
  <2>2. Before(chain, 1)' = 0
    BY <1>2, <2>1 DEF Before
  <2>3. PICK r : IsRun(r, ChainCalls(chain)', 0) /\ r[0] = Ages(content')
    BY <1>6, NewRun, ContentAges
  <2> QED BY <2>2, <2>3 DEF WalkedTo
<1>11. ASSUME NEW chain \in Seq(Node), IsChain(msg, chain), NEW j \in 2..Len(chain), at' = chain[j]
       PROVE  at = chain[j - 1] /\ j - 1 \in 1..Len(chain) /\ j - 1 < Len(chain) /\ (j - 1) + 1 = j
  <2>1. at = chain[j - 1]
    BY <1>1, <1>9, <1>11 DEF IsChain, EnteredFrom
  <2> QED BY <2>1
<1>12. ChainRuns'
  <2> SUFFICES ASSUME NEW chain \in Seq(Node), IsChain(msg, chain),
                      NEW j \in 1..Len(chain), at' = chain[j]
               PROVE  \E r : WalkedTo(r, chain, j)'
    BY <1>2 DEF ChainRuns
  <2>1. CASE j = 1
    BY <1>10, <2>1 DEF IsChain
  <2>2. CASE j # 1
    <3>1. j \in 2..Len(chain)
      BY <2>2
    <3>2. at = chain[j - 1] /\ j - 1 \in 1..Len(chain) /\ j - 1 < Len(chain) /\ (j - 1) + 1 = j
      BY <1>11, <3>1
    <3>3. PICK r : WalkedTo(r, chain, j - 1)
      BY <3>2 DEF XInv, ChainRuns
    <3>4. PICK h : WalkedTo(h, chain, (j - 1) + 1)'
      BY <1>1, <3>2, <3>3, WalkAcross
    <3> QED BY <3>2, <3>4
  <2> QED BY <2>1, <2>2
<1>13. LoopRuns'
  <2> SUFFICES ASSUME LoopsArePeeled(msg, FunctionsCalled(msg), Seq(Node)),
                      NEW first \in Seq(Node), NEW body \in Seq(Node),
                      IsPeeledLoop(msg, FunctionsCalled(msg), first, body),
                      NEW j \in 1..Len(body), at' = body[j]
               PROVE  \E r, g : Iterates(body, j, r, g)'
    BY <1>2 DEF LoopRuns
  <2> DEFINE w == ChainCalls(body)
  <2>1. /\ IsChain(msg, body) /\ body # << >> /\ Len(body) \in 1..Len(body)
        /\ IsChain(msg, first) /\ first # << >> /\ Len(first) \in 1..Len(first)
        /\ ChainCalls(first) = w
        /\ EnteredFrom(msg, body[1], {first[Len(first)], body[Len(body)]})
    <3>1. /\ IsChain(msg, body) /\ IsChain(msg, first)
          /\ EnteredFrom(msg, body[1], {first[Len(first)], body[Len(body)]})
          /\ LinesAlong(FunctionsCalled(msg), first)[Len(first)]
               = LinesAlong(FunctionsCalled(msg), body)[Len(body)]
      BY DEF IsPeeledLoop
    <3>2. body # << >> /\ first # << >>
      BY <3>1 DEF IsChain
    <3>3. Len(body) \in 1..Len(body) /\ Len(first) \in 1..Len(first)
      BY <3>2
    <3> QED BY <3>1, <3>2, <3>3 DEF ChainCalls, LinesOf
  <2>2. w' = w
    BY <1>2 DEF ChainCalls
  <2> HIDE DEF w
  <2>3. ASSUME NEW r, NEW g, WalkedTo(r, body, j)', IsRun(g, w, Len(w)), r[0] = g[Len(w)],
               NEW c, IsContent(Memory, c), Ages(c) = r[0], StateSound(body[1], c)
        PROVE  Iterates(body, j, r, g)'
    <3>1. (\E x : IsContent(Memory, x) /\ Ages(x) = r[0] /\ StateSound(body[1], x))'
      BY <1>7, <2>3
    <3> QED BY <2>2, <2>3, <3>1 DEF Iterates, w
  <2>4. CASE j # 1
    <3>1. j \in 2..Len(body)
      BY <2>4
    <3>2. at = body[j - 1] /\ j - 1 \in 1..Len(body) /\ j - 1 < Len(body) /\ (j - 1) + 1 = j
      BY <1>11, <2>1, <3>1
    <3>3. PICK r, g : Iterates(body, j - 1, r, g)
      BY <1>2, <3>2 DEF XInv, LoopRuns
    <3>4. /\ WalkedTo(r, body, j - 1) /\ IsRun(g, w, Len(w)) /\ r[0] = g[Len(w)]
          /\ \E c : IsContent(Memory, c) /\ Ages(c) = r[0] /\ StateSound(body[1], c)
      BY <3>3 DEF Iterates, w
    <3>5. PICK h : h[0] = r[0] /\ WalkedTo(h, body, (j - 1) + 1)'
      BY <1>1, <3>2, <3>4, WalkAcross
    <3>6. PICK c : IsContent(Memory, c) /\ Ages(c) = h[0] /\ StateSound(body[1], c)
      BY <3>4, <3>5
    <3>7. WalkedTo(h, body, j)'
      BY <3>2, <3>5
    <3> QED BY <2>3, <3>4, <3>5, <3>6, <3>7
  <2>5. CASE j = 1
    <3>1. StateSound(body[1], content')
      BY <1>2, <1>8, <2>5 DEF Followed
    <3>2. \E g : IsRun(g, w, Len(w)) /\ g[Len(w)] = Ages(content')
      <4>1. CASE at = first[Len(first)]
        <5>1. PICK r : WalkedTo(r, first, Len(first))
          BY <2>1, <4>1 DEF XInv, ChainRuns
        <5> QED BY <1>1, <2>1, <4>1, <5>1, WalkAcross
      <4>2. CASE at = body[Len(body)]
        <5>1. PICK r, g : Iterates(body, Len(body), r, g)
          BY <1>2, <2>1, <4>2 DEF XInv, LoopRuns
        <5>2. WalkedTo(r, body, Len(body))
          BY <5>1 DEF Iterates
        <5> QED BY <1>1, <2>1, <4>2, <5>2, WalkAcross DEF w
      <4> QED BY <1>1, <1>9, <2>1, <2>5, <4>1, <4>2 DEF EnteredFrom
    <3>3. PICK g : IsRun(g, w, Len(w)) /\ g[Len(w)] = Ages(content')
      BY <3>2
    <3>4. PICK r : WalkedTo(r, body, 1)' /\ r[0] = Ages(content')
      BY <1>10, <2>1
    <3> QED BY <1>6, <2>3, <2>5, <3>1, <3>3, <3>4
  <2> QED BY <2>4, <2>5
<1>14. Followed' => StateSound(at, content)'
  BY <1>2, <1>8 DEF StateSound
<1> QED BY <1>2, <1>4, <1>5, <1>6, <1>12, <1>13, <1>14 DEF XInv

(* Every step of analysis and execution keeps the invariant.               *)
LEMMA XNext == XInv /\ [ExecNext]_allVars => XInv'
<1> SUFFICES ASSUME XInv, [ExecNext]_allVars PROVE XInv'
  OBVIOUS
<1>1. CASE Analyse
  BY <1>1, AnalyseInv
<1>2. CASE TakeEdge
  BY <1>2, TakeEdgeInv
<1>3. CASE UNCHANGED allVars
  <2>1. DInv' /\ XCInv'
    <3>1. [Next]_vars
      BY <1>3 DEF allVars, vars
    <3> QED BY <3>1, DNext, XCNext DEF XInv
  <2>2. UNCHANGED <<at, content, looped, phase, msg, memState, memStateVal, ctxMap>>
    BY <1>3 DEF allVars
  <2>3. ASSUME NEW n, NEW c PROVE StateSound(n, c)' <=> StateSound(n, c)
    BY <2>2 DEF StateSound
  <2>4. (ChainRuns /\ LoopRuns)'
    BY <2>2, <2>3 DEF XInv, ChainRuns, LoopRuns, Iterates, WalkedTo, ChainCalls, Before
  <2>5. XInv
    OBVIOUS
  <2>6. Followed' <=> Followed
    BY <2>2 DEF Followed
  <2>7. phase' = "done" /\ Followed' => StateSound(at, content)'
    BY <2>2, <2>6 DEF XInv, StateSound
  <2> QED BY <2>1, <2>2, <2>4, <2>7 DEF XInv
<1> QED BY <1>1, <1>2, <1>3 DEF ExecNext

(* The invariant holds at every step of analysis and execution.            *)
THEOREM ExecInvariance == ExecSpec => []XInv
<1> QED BY XInit, XNext, PTL DEF ExecSpec

(* The variables of the execution keep their types: in particular the      *)
(* functions in the memory are different ones that fit into it.            *)
THEOREM ExecTypeCorrect == ExecSpec => []ExecTypeOK
<1>1. XInv => ExecTypeOK
  <2> SUFFICES ASSUME XInv PROVE ExecTypeOK
    OBVIOUS
  <2>1. TypeOK /\ at \in Node /\ msg \in MSGs /\ stack = msg.context[at]
    BY DEF XInv, XCInv, CInv, DInv
  <2>2. stack \in Seq(Function)
    BY <2>1, CallGraphFacts
  <2> QED BY <2>1, <2>2 DEF XInv, ExecTypeOK
<1> QED BY <1>1, ExecInvariance, PTL

(* A call or return classified as a hit finds its function in the D-ISP,   *)
(* on every path without an edge backwards, and on every path of a program *)
(* whose loops are peeled and have straight bodies.                        *)
THEOREM HitsHit == ExecSpec => [](Followed => MustHits)
<1>1. XInv => (Followed => MustHits)
  <2> SUFFICES ASSUME XInv, Followed, phase = "done", Requested # << >>,
                      Category(at, Requested[1]) = "hit"
               PROVE  Contains(content, Requested[1])
    BY DEF MustHits, Activating
  <2>1. Requested[1] \in DOMAIN memState[at].must
    BY DEF Category, isInSet
  <2>2. MustBounds(memState[at].must, content)
    BY DEF XInv, StateSound
  <2> QED BY <2>1, <2>2 DEF MustBounds, Contains
<1> QED BY <1>1, ExecInvariance, PTL

(* If no function begins at the address 0, one classified as a miss does   *)
(* not find it.                                                            *)
THEOREM MissesAreMisses ==
  ZeroFunction \notin Function => (ExecSpec => [](Followed => MissesMiss))
<1> SUFFICES ASSUME ZeroFunction \notin Function
             PROVE  ExecSpec => [](Followed => MissesMiss)
  OBVIOUS
<1>1. XInv => (Followed => MissesMiss)
  <2> SUFFICES ASSUME XInv, Followed, phase = "done", memStateVal[at],
                      Category(at, Requested[1]) = "miss",
                      Contains(content, Requested[1])
               PROVE  FALSE
    BY DEF MissesMiss, Activating
  <2>1. Requested[1] \notin DOMAIN memState[at].may
    BY DEF Category, isInSet
  <2>2. MayBounds(memState[at].may, content)
    BY DEF XInv, StateSound, Describes
  <2> QED BY <2>1, <2>2 DEF MayBounds, Contains
<1> QED BY <1>1, ExecInvariance, PTL

(* ... and the must and the may ages are bounds of the sizes of the        *)
(* functions used since.                                                   *)
THEOREM AgeSoundness ==
  ZeroFunction \notin Function => (ExecSpec => [](Followed => AgesBound))
<1> SUFFICES ASSUME ZeroFunction \notin Function
             PROVE  ExecSpec => [](Followed => AgesBound)
  OBVIOUS
<1>1. XInv => (Followed => AgesBound)
  <2> SUFFICES ASSUME XInv, Followed, phase = "done", memStateVal[at]
               PROVE  /\ MustBounds(memState[at].must, content)
                      /\ MayBounds(memState[at].may, content)
    BY DEF AgesBound, MustBounds, MayBounds, RealAge
  <2> QED BY DEF XInv, StateSound, Describes
<1> QED BY <1>1, ExecInvariance, PTL

-----------------------------------------------------------------------------
(* The penalty of a node pays for what the D-ISP does behind it on the     *)
(* same paths, in every program whose blocks are all entered by a forward  *)
(* edge.                                                                   *)
THEOREM PenaltySoundness ==
  Regular /\ HitsAreCheaper => (ExecSpec => [](Followed => PenaltyCoversLoad))
<1> SUFFICES ASSUME Regular, HitsAreCheaper
             PROVE  ExecSpec => [](Followed => PenaltyCoversLoad)
  OBVIOUS
<1>1. XInv => (Followed => PenaltyCoversLoad)
  <2> SUFFICES ASSUME XInv, Followed, phase = "done", Requested # << >>
               PROVE  RealCost <= penalty[at]
    BY DEF PenaltyCoversLoad, Activating
  <2> DEFINE f == Requested[1]
  <2>1. /\ at \in Node /\ CInv /\ penalty = [n \in Node |-> DispCost(n)]
        /\ at = Entry \/ at \in DOMAIN ctxMap
        /\ MustBounds(memState[at].must, content)
    BY DEF XInv, StateSound, XCInv, DInv, PenaltiesSet
  <2>2. Activated(at) = Requested /\ f \in Function
    BY <2>1, ActivatedIsCalled, RequestedIsCalled DEF XInv
  <2>3. penalty[at] = IF Category(at, f) = "hit" THEN getDispHitPenalty(msg.type[at])
                      ELSE getDispMissAndLoadPenalty(f, msg.type[at])
    BY <2>1, <2>2 DEF DispCost
  <2>4. Category(at, f) = "hit" => Contains(content, f)
    BY <2>1 DEF Category, isInSet, MustBounds, Contains
  <2> HIDE DEF f
  <2>5. /\ getDispHitPenalty(msg.type[at]) \in Nat
        /\ getDispMissAndLoadPenalty(f, msg.type[at]) \in Nat
        /\ getDispHitPenalty(msg.type[at]) <= getDispMissAndLoadPenalty(f, msg.type[at])
    BY <2>2, HitPenaltyIsSmaller
  <2>6. RealCost = IF Contains(content, f) THEN getDispHitPenalty(msg.type[at])
                   ELSE getDispMissAndLoadPenalty(f, msg.type[at])
    BY DEF RealCost, f
  <2> QED BY <2>3, <2>4, <2>5, <2>6
<1> QED BY <1>1, ExecInvariance, PTL

(* Where all loops are peeled and have straight bodies the promises hold   *)
(* in every iteration of every loop, calls in the body included: leaving   *)
(* out the BackwardJump edges loses nothing there.                         *)
THEOREM StraightLoopsAreSafe ==
  ASSUME \A g \in MSGs : LoopsArePeeled(g, FunctionsCalled(g), Seq(Node))
  PROVE  /\ ExecSpec => []MustHits
         /\ Regular /\ HitsAreCheaper => (ExecSpec => []PenaltyCoversLoad)
<1>1. XInv => Followed
  BY DEF XInv, XCInv, CInv, Followed
<1>2. ExecSpec => []MustHits
  BY <1>1, ExecInvariance, HitsHit, PTL
<1>3. ASSUME Regular, HitsAreCheaper PROVE ExecSpec => []PenaltyCoversLoad
  <2>1. ExecSpec => [](Followed => PenaltyCoversLoad)
    BY <1>3, PenaltySoundness
  <2> QED BY <1>1, <2>1, ExecInvariance, PTL
<1> QED BY <1>2, <1>3

=============================================================================
