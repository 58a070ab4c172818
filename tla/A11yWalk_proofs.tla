--------------------------- MODULE A11yWalk_proofs ---------------------------
(***************************************************************************)
(* Proofs about the walk of the accessibility tree, for any applications,  *)
(* windows and trees of accessibles, whatever changes and fails under it.  *)
(***************************************************************************)
EXTENDS A11yWalk, Induction, SequenceTheorems

----------------------------------------------------------------------------
(* Lists                                                                   *)

\* The first of some indices is one of them, and before all others.
LEMMA FirstIsLeast ==
    ASSUME NEW hits \in SUBSET Nat, hits # {}
    PROVE  First(hits) \in hits /\ \A j \in hits : First(hits) <= j
  <1>1. \E i \in hits : \A j \in hits : ~(j < i)
    BY LeastNatural
  <1>2. \E i \in hits : \A j \in hits : i <= j
    BY <1>1
  <1> QED
    BY <1>2 DEF First

\* A list without one of its elements.
LEMMA RemoveAtFacts ==
    ASSUME NEW S, NEW s \in Seq(S), NEW i \in 1..Len(s)
    PROVE  /\ RemoveAt(s, i) \in Seq(S)
           /\ Len(RemoveAt(s, i)) = Len(s) - 1
           /\ \A j \in 1..(Len(s) - 1) :
                 RemoveAt(s, i)[j] = IF j < i THEN s[j] ELSE s[j + 1]
  <1> DEFINE a == SubSeq(s, 1, i - 1)
             b == SubSeq(s, i + 1, Len(s))
  <1>1. Len(s) \in Nat /\ \A j \in 1..Len(s) : s[j] \in S
    BY LenProperties, ElementOfSeq
  <1>2. /\ a \in Seq(S) /\ Len(a) = i - 1
        /\ \A j \in 1..(i - 1) : a[j] = s[j]
    <2>1. /\ a \in Seq(S)
          /\ Len(a) = IF 1 <= i - 1 THEN i - 1 - 1 + 1 ELSE 0
          /\ \A j \in 1..(i - 1 - 1 + 1) : a[j] = s[1 + j - 1]
      BY <1>1, SubSeqProperties
    <2> HIDE DEF a
    <2> QED
      BY <1>1, <2>1
  <1>3. /\ b \in Seq(S) /\ Len(b) = Len(s) - i
        /\ \A j \in 1..(Len(s) - i) : b[j] = s[i + j]
    <2>1. /\ b \in Seq(S)
          /\ Len(b) = IF i + 1 <= Len(s) THEN Len(s) - (i + 1) + 1 ELSE 0
          /\ \A j \in 1..(Len(s) - (i + 1) + 1) : b[j] = s[i + 1 + j - 1]
      BY <1>1, SubSeqProperties
    <2> HIDE DEF b
    <2> QED
      BY <1>1, <2>1
  <1> HIDE DEF a, b
  <1>4. /\ a \o b \in Seq(S) /\ Len(a \o b) = Len(a) + Len(b)
        /\ \A j \in 1..(Len(a) + Len(b)) :
              (a \o b)[j] = IF j <= Len(a) THEN a[j] ELSE b[j - Len(a)]
    BY <1>2, <1>3, ConcatProperties
  <1>5. RemoveAt(s, i) = a \o b
    BY DEF RemoveAt, a, b
  <1>6. ASSUME NEW j \in 1..(Len(s) - 1)
        PROVE  (a \o b)[j] = IF j < i THEN s[j] ELSE s[j + 1]
    <2>1. CASE j < i
      BY <1>1, <1>2, <1>3, <1>4, <2>1
    <2>2. CASE ~(j < i)
      <3> DEFINE k == j - Len(a)
      <3>1. k \in 1..(Len(s) - i) /\ i + k = j + 1
        BY <1>1, <1>2, <2>2
      <3>2. j \in 1..(Len(a) + Len(b)) /\ ~(j <= Len(a))
        BY <1>1, <1>2, <1>3, <2>2
      <3>3. (a \o b)[j] = b[k]
        BY <1>4, <3>2
      <3> HIDE DEF k
      <3>4. b[k] = s[i + k]
        BY <1>3, <3>1
      <3> QED
        BY <2>2, <3>1, <3>3, <3>4
    <2> QED
      BY <2>1, <2>2
  <1> QED
    BY <1>1, <1>2, <1>3, <1>4, <1>5, <1>6

\* A list without repetitions is no longer than what its elements are from.
LEMMA InjectiveLength ==
    ASSUME NEW S, IsFiniteSet(S), NEW s \in Seq(S), IsInjective(s)
    PROVE  Len(s) \in 0..Cardinality(S)
  <1>1. Len(s) \in Nat /\ s \in [1..Len(s) -> S]
    BY LenProperties
  <1>2. IsFiniteSet(1..Len(s)) /\ Cardinality(1..Len(s)) = Len(s)
    BY <1>1, FS_Interval
  <1>3. s \in Injection(1..Len(s), S)
    BY <1>1 DEF Injection, IsInjective
  <1>4. Cardinality(1..Len(s)) <= Cardinality(S)
    BY <1>3, FS_Injection DEF ExistsInjection
  <1>5. Cardinality(S) \in Nat
    BY FS_CardinalityType
  <1> QED
    BY <1>1, <1>2, <1>4, <1>5

\* What is in a list that has been made longer, or shorter.
LEMMA RangeOfList ==
    ASSUME NEW S, NEW s \in Seq(S)
    PROVE  /\ Range(s) = {s[i] : i \in 1..Len(s)} /\ Range(s) \subseteq S
           /\ DOMAIN s = 1..Len(s) /\ Len(s) \in Nat
           /\ \A i \in 1..Len(s) : s[i] \in S
  BY LenProperties, ElementOfSeq DEF Range

----------------------------------------------------------------------------
(* The search for a menubar                                                *)

\* None, or one menubar.
Hit == {{}} \cup {{m} : m \in MenuBars}

\* What a search from each accessible comes to.
Hits == [Nodes -> Hit]

\* The first hit of some searches is one of them, if there is one.
LEMMA FirstSomeFacts ==
    ASSUME NEW s, NEW n \in Nat, DOMAIN s = 1..n
    PROVE  /\ FirstSome(s) = {} \/ \E i \in 1..n : FirstSome(s) = s[i]
           /\ n = 1 => FirstSome(s) = s[1]
  <1> DEFINE some == {i \in 1..n : s[i] # {}}
  <1>1. CASE some = {}
    <2>1. \A i \in DOMAIN s : s[i] = {}
      BY <1>1
    <2>2. FirstSome(s) = {}
      BY <2>1 DEF FirstSome
    <2>3. n = 1 => s[1] = {}
      BY <2>1
    <2> QED
      BY <2>2, <2>3
  <1>2. CASE some # {}
    <2>0. some \in SUBSET Nat
      OBVIOUS
    <2>1. PICK k \in some : \A j \in some : ~(j < k)
      <3> HIDE DEF some
      <3> QED
        BY <1>2, <2>0, LeastNatural
    <2>2. \A j \in 1..(k - 1) : s[j] = {}
      BY <2>1
    <2>3. \E i \in DOMAIN s : s[i] # {} /\ \A j \in 1..(i - 1) : s[j] = {}
      BY <2>1, <2>2
    <2> DEFINE c == CHOOSE i \in DOMAIN s : s[i] # {} /\ \A j \in 1..(i - 1) : s[j] = {}
    <2>4. c \in DOMAIN s
      BY <2>3
    <2>5. FirstSome(s) = s[c]
      BY <2>3 DEF FirstSome
    <2> HIDE DEF c
    <2> QED
      BY <2>4, <2>5
  <1> QED
    BY <1>1, <1>2

\* One level of the search.
FindStep(deaf, g, n) ==
    IF n \in MenuBars /\ <<n, "role">> \notin deaf THEN {n}
    ELSE LET kids == KidsOf(n, deaf)
         IN  FirstSome([i \in DOMAIN kids |-> g[kids[i]]])

\* The children of an accessible are accessibles.
LEMMA KidsFacts ==
    ASSUME NEW n \in Nodes, NEW deaf
    PROVE  /\ Kids[n] \in Seq(Nodes) /\ Len(Kids[n]) \in Nat
           /\ DOMAIN Kids[n] = 1..Len(Kids[n])
           /\ \A i \in DOMAIN Kids[n] : Kids[n][i] \in Nodes
           /\ \E k \in Nat : DOMAIN KidsOf(n, deaf) = 1..k
           /\ \A i \in DOMAIN KidsOf(n, deaf) :
                 \E j \in DOMAIN Kids[n] : KidsOf(n, deaf)[i] = Kids[n][j]
           /\ KidsOf(n, {}) = Kids[n]
  <1>1. Kids[n] \in Seq(Nodes)
    BY TreeAssumption
  <1>2. /\ Len(Kids[n]) \in Nat /\ DOMAIN Kids[n] = 1..Len(Kids[n])
        /\ \A i \in DOMAIN Kids[n] : Kids[n][i] \in Nodes
    BY <1>1, RangeOfList
  <1> DEFINE s == KidsOf(n, deaf)
             lost == {i \in DOMAIN Kids[n] : <<Kids[n][i], "child">> \in deaf}
             Part == /\ \E k \in Nat : DOMAIN s = 1..k
                     /\ \A i \in DOMAIN s : \E j \in DOMAIN Kids[n] : s[i] = Kids[n][j]
  <1>3. ASSUME <<n, "kids">> \in deaf PROVE Part
    <2>1. s = <<>>
      BY <1>3 DEF KidsOf
    <2> HIDE DEF s
    <2>2. DOMAIN s = 1..0 /\ DOMAIN s = {}
      BY <2>1
    <2>3. \E k \in Nat : DOMAIN s = 1..k
      BY <2>2
    <2> QED
      BY <2>2, <2>3
  <1>4. ASSUME <<n, "kids">> \notin deaf, lost = {} PROVE Part
    <2>1. s = Kids[n]
      BY <1>4 DEF KidsOf
    <2> HIDE DEF s
    <2> QED
      BY <1>2, <2>1
  <1>5. ASSUME <<n, "kids">> \notin deaf, lost # {} PROVE Part
    <2>1. PICK i \in DOMAIN Kids[n] : s = RemoveAt(Kids[n], i)
      BY <1>5 DEF KidsOf
    <2> HIDE DEF s
    <2>2. /\ s \in Seq(Nodes) /\ Len(s) = Len(Kids[n]) - 1
          /\ \A j \in 1..(Len(Kids[n]) - 1) : s[j] = IF j < i THEN Kids[n][j] ELSE Kids[n][j + 1]
      BY <1>1, <1>2, <2>1, RemoveAtFacts
    <2>3. DOMAIN s = 1..Len(s) /\ Len(s) \in Nat
      BY <2>2, RangeOfList
    <2>4. \A j \in 1..(Len(Kids[n]) - 1) : j \in DOMAIN Kids[n] /\ j + 1 \in DOMAIN Kids[n]
      BY <1>2
    <2> QED
      BY <2>2, <2>3, <2>4
  <1>6. KidsOf(n, {}) = Kids[n]
    BY DEF KidsOf
  <1>7. Part
    BY <1>3, <1>4, <1>5
  <1> QED
    BY <1>1, <1>2, <1>6, <1>7

\* So are those that a search comes to.
LEMMA KidsOfFacts ==
    ASSUME NEW n \in Nodes, NEW deaf
    PROVE  \E k \in Nat :
              /\ DOMAIN KidsOf(n, deaf) = 1..k
              /\ \A i \in 1..k : /\ KidsOf(n, deaf)[i] \in Nodes
                                 /\ \E j \in DOMAIN Kids[n] : KidsOf(n, deaf)[i] = Kids[n][j]
  <1> DEFINE s == KidsOf(n, deaf)
  <1>1. PICK k \in Nat : DOMAIN s = 1..k
    BY KidsFacts
  <1>2. \A i \in DOMAIN s : \E j \in DOMAIN Kids[n] : s[i] = Kids[n][j]
    BY KidsFacts
  <1>3. \A j \in DOMAIN Kids[n] : Kids[n][j] \in Nodes
    BY KidsFacts
  <1> QED
    BY <1>1, <1>2, <1>3

\* A level of the search has no hit, or one, which is the accessible itself or
\* a hit below a child.
LEMMA FindStepFacts ==
    ASSUME NEW deaf, NEW g \in Hits, NEW n \in Nodes
    PROVE  /\ FindStep(deaf, g, n) \in Hit
           /\ \/ FindStep(deaf, g, n) \subseteq {n}
              \/ \E i \in DOMAIN Kids[n] : FindStep(deaf, g, n) = g[Kids[n][i]]
  <1>1. CASE n \in MenuBars /\ <<n, "role">> \notin deaf
    BY <1>1 DEF FindStep, Hit
  <1>2. CASE ~(n \in MenuBars /\ <<n, "role">> \notin deaf)
    <2>0. \A x \in Nodes : g[x] \in Hit
      BY DEF Hits
    <2> DEFINE kids == KidsOf(n, deaf)
               s == [i \in DOMAIN kids |-> g[kids[i]]]
    <2>1. PICK k \in Nat :
             /\ DOMAIN kids = 1..k
             /\ \A i \in 1..k : \E j \in DOMAIN Kids[n] : kids[i] = Kids[n][j]
      BY KidsOfFacts
    <2>2. FindStep(deaf, g, n) = FirstSome(s)
      BY <1>2 DEF FindStep
    <2>3. DOMAIN s = 1..k /\ \A i \in 1..k : s[i] = g[kids[i]]
      BY <2>1
    <2> HIDE DEF s, kids
    <2>4. FirstSome(s) = {} \/ \E i \in 1..k : FirstSome(s) = s[i]
      BY <2>3, FirstSomeFacts
    <2>5. CASE FirstSome(s) = {}
      BY <2>2, <2>5 DEF Hit
    <2>6. ASSUME NEW i \in 1..k, FirstSome(s) = s[i]
          PROVE  /\ \E j \in DOMAIN Kids[n] : FirstSome(s) = g[Kids[n][j]]
                 /\ FirstSome(s) \in Hit
      <3>1. PICK j \in DOMAIN Kids[n] : kids[i] = Kids[n][j]
        BY <2>1
      <3>2. Kids[n][j] \in Nodes /\ FirstSome(s) = g[Kids[n][j]]
        BY <2>3, <2>6, <3>1, KidsFacts
      <3> QED
        BY <2>0, <3>2
    <2> QED
      BY <2>2, <2>4, <2>5, <2>6
  <1> QED
    BY <1>1, <1>2

\* A chain of levels of the search.
LEMMA HitRecursion ==
    ASSUME NEW b \in Hits, NEW n \in Nat, NEW step \in [1..n -> [Hits -> Hits]]
    PROVE  \E f \in [0..n -> Hits] :
              f[0] = b /\ \A i \in 1..n : f[i] = step[i][f[i - 1]]
  BY BoundedRecursion, Z3

\* A function on the levels of a search: those left, and where it is.
Searches(f, deaf) ==
    /\ \A n \in Nodes : f[0][n] = {}
    /\ \A left \in 1..MaxFindDepth, n \in Nodes :
          f[left][n] = FindStep(deaf, f[left - 1], n)
    /\ \A n, d : FindMenubar(n, d, deaf) = f[MaxFindDepth - d][n]

\* The search is such a chain, from the deepest level up.
LEMMA FindSteps ==
    ASSUME NEW deaf
    PROVE  \E f \in [0..MaxFindDepth -> Hits] : Searches(f, deaf)
  <1> DEFINE base == [n \in Nodes |-> {}]
             step == [left \in 1..MaxFindDepth |-> [g \in Hits |-> [n \in Nodes |-> FindStep(deaf, g, n)]]]
             Level(F, left) == [n \in Nodes |-> IF left = 0 THEN {}
                                              ELSE FindStep(deaf, F[left - 1], n)]
             Eq(F) == F = [left \in 0..MaxFindDepth |-> Level(F, left)]
             find == CHOOSE F : Eq(F)
  <1>1. MaxFindDepth \in Nat
    BY TreeAssumption
  <1>2. \A n, d : FindMenubar(n, d, deaf) = find[MaxFindDepth - d][n]
    BY DEF FindMenubar, FindStep
  <1>3. base \in Hits
    BY DEF Hit, Hits
  <1>4. step \in [1..MaxFindDepth -> [Hits -> Hits]]
    <2>1. \A left \in 1..MaxFindDepth, h \in Hits :
              [n \in Nodes |-> FindStep(deaf, h, n)] \in Hits
      BY FindStepFacts DEF Hits
    <2> QED
      BY <2>1
  <1>5. PICK g \in [0..MaxFindDepth -> Hits] :
            g[0] = base /\ \A i \in 1..MaxFindDepth : g[i] = step[i][g[i - 1]]
    <2> HIDE DEF base, step
    <2> QED
      BY <1>1, <1>3, <1>4, HitRecursion
  <1>6. \A left \in 1..MaxFindDepth : g[left] = [n \in Nodes |-> FindStep(deaf, g[left - 1], n)]
    <2> SUFFICES ASSUME NEW left \in 1..MaxFindDepth
                 PROVE  g[left] = [n \in Nodes |-> FindStep(deaf, g[left - 1], n)]
      OBVIOUS
    <2>1. g[left - 1] \in Hits
      BY <1>1
    <2> QED
      BY <1>5, <2>1
  <1>7. Eq(g)
    <2>1. \A left \in 0..MaxFindDepth : g[left] = Level(g, left)
      <3> SUFFICES ASSUME NEW left \in 0..MaxFindDepth PROVE g[left] = Level(g, left)
        OBVIOUS
      <3>1. CASE left = 0
        BY <1>5, <3>1
      <3>2. CASE left # 0
        <4>1. left \in 1..MaxFindDepth
          BY <1>1, <3>2
        <4> QED
          BY <1>6, <3>2, <4>1
      <3> QED
        BY <3>1, <3>2
    <2> HIDE DEF Level
    <2> QED
      BY <2>1
  <1>8. Eq(find)
    <2> HIDE DEF Eq
    <2> QED
      BY <1>7
  <1> HIDE DEF step, find
  <1>9. \A left \in 0..MaxFindDepth : find[left] = Level(find, left)
    <2> HIDE DEF Level
    <2> QED
      BY <1>8
  <1>10. /\ find[0] = base
         /\ \A left \in 1..MaxFindDepth :
               find[left] = [n \in Nodes |-> FindStep(deaf, find[left - 1], n)]
    BY <1>1, <1>9
  <1>11. find \in [0..MaxFindDepth -> Hits]
    <2> DEFINE S == {i \in 0..MaxFindDepth : find[i] \in Hits}
    <2>1. 0 \in S
      <3>1. 0 \in 0..MaxFindDepth
        BY <1>1
      <3> QED
        BY <1>3, <1>10, <3>1
    <2>2. ASSUME NEW i \in 0..(MaxFindDepth - 1), i \in S
          PROVE  i + 1 \in S
      <3>1. i + 1 \in 1..MaxFindDepth /\ find[i] \in Hits
        BY <1>1, <2>2
      <3>2. find[i + 1] = [n \in Nodes |-> FindStep(deaf, find[i], n)]
        BY <1>1, <1>10, <3>1
      <3>3. \A n \in Nodes : FindStep(deaf, find[i], n) \in Hit
        BY <3>1, FindStepFacts
      <3>4. find[i + 1] \in Hits
        BY <3>2, <3>3 DEF Hits
      <3> QED
        BY <1>1, <3>1, <3>4
    <2> HIDE DEF S
    <2>3. 0..MaxFindDepth \subseteq S
      BY <1>1, <2>1, <2>2, BoundedInduction
    <2>4. \A i \in 0..MaxFindDepth : find[i] \in Hits
      BY <2>3 DEF S
    <2>5. find = [i \in 0..MaxFindDepth |-> find[i]]
      <3> HIDE DEF Level
      <3> QED
        BY <1>8
    <2> QED
      BY <2>4, <2>5
  <1>12. \A n \in Nodes : find[0][n] = {}
    BY <1>10
  <1>13. \A left \in 1..MaxFindDepth, n \in Nodes :
            find[left][n] = FindStep(deaf, find[left - 1], n)
    <2> SUFFICES ASSUME NEW left \in 1..MaxFindDepth, NEW n \in Nodes
                 PROVE  find[left][n] = FindStep(deaf, find[left - 1], n)
      OBVIOUS
    <2>1. find[left] = [x \in Nodes |-> FindStep(deaf, find[left - 1], x)]
      BY <1>10
    <2> QED
      BY <2>1
  <1> QED
    BY <1>2, <1>11, <1>12, <1>13 DEF Searches

\* Some accessibles.
NodeSets == SUBSET Nodes

\* The children of some accessibles.
Children(N) == UNION {Range(Kids[x]) : x \in N}

\* They are accessibles.
LEMMA ChildrenFacts ==
    ASSUME NEW N \in NodeSets
    PROVE  /\ N \subseteq Nodes /\ Children(N) \in NodeSets
           /\ \A x \in N : \A i \in DOMAIN Kids[x] : Kids[x][i] \in Children(N)
  <1>1. \A x \in N : Kids[x] \in Seq(Nodes)
    BY TreeAssumption DEF NodeSets
  <1>2. \A x \in N : Range(Kids[x]) \subseteq Nodes
    BY <1>1, RangeOfList
  <1> QED
    BY <1>2 DEF Children, Range, NodeSets

\* A chain of sets of accessibles.
LEMMA NodesRecursion ==
    ASSUME NEW b \in NodeSets, NEW n \in Nat,
           NEW step \in [1..n -> [NodeSets -> NodeSets]]
    PROVE  \E f \in [0..n -> NodeSets] :
              f[0] = b /\ \A i \in 1..n : f[i] = step[i][f[i - 1]]
  BY BoundedRecursion, Z3

\* Each level below an accessible has the children of the one before.
LEMMA LevelSteps ==
    ASSUME NEW n \in Nodes, NEW max \in Nat
    PROVE  /\ LevelsBelow(n, max) \in [0..max -> NodeSets]
           /\ LevelsBelow(n, max)[0] = {n}
           /\ \A d \in 1..max : LevelsBelow(n, max)[d] = Children(LevelsBelow(n, max)[d - 1])
  <1> DEFINE step == [d \in 1..max |-> [N \in NodeSets |-> Children(N)]]
             Level(F, d) == IF d = 0 THEN {n} ELSE Children(F[d - 1])
             Eq(F) == F = [d \in 0..max |-> Level(F, d)]
             level == CHOOSE F : Eq(F)
  <1>2. LevelsBelow(n, max) = level
    BY DEF LevelsBelow, Children
  <1>3. {n} \in NodeSets
    BY DEF NodeSets
  <1>4. step \in [1..max -> [NodeSets -> NodeSets]]
    BY ChildrenFacts DEF NodeSets
  <1>5. PICK g \in [0..max -> NodeSets] :
            g[0] = {n} /\ \A i \in 1..max : g[i] = step[i][g[i - 1]]
    <2> HIDE DEF step
    <2> QED
      BY <1>3, <1>4, NodesRecursion
  <1>6. \A d \in 1..max : g[d] = Children(g[d - 1])
    <2> SUFFICES ASSUME NEW d \in 1..max PROVE g[d] = Children(g[d - 1])
      OBVIOUS
    <2>1. g[d - 1] \in NodeSets
      OBVIOUS
    <2> QED
      BY <1>5, <2>1
  <1>7. Eq(g)
    <2>1. \A d \in 0..max : g[d] = Level(g, d)
      <3> SUFFICES ASSUME NEW d \in 0..max PROVE g[d] = Level(g, d)
        OBVIOUS
      <3>1. CASE d = 0
        BY <1>5, <3>1
      <3>2. CASE d # 0
        <4>1. d \in 1..max
          BY <3>2
        <4> QED
          BY <1>6, <3>2, <4>1
      <3> QED
        BY <3>1, <3>2
    <2> HIDE DEF Level
    <2> QED
      BY <2>1
  <1>8. Eq(level)
    <2> HIDE DEF Eq
    <2> QED
      BY <1>7
  <1> HIDE DEF step, level
  <1>9. \A d \in 0..max : level[d] = Level(level, d)
    <2> HIDE DEF Level
    <2> QED
      BY <1>8
  <1>10. level[0] = {n} /\ \A d \in 1..max : level[d] = Children(level[d - 1])
    BY <1>9
  <1>11. level \in [0..max -> NodeSets]
    <2> DEFINE S == {i \in 0..max : level[i] \in NodeSets}
    <2>1. 0 \in S
      <3>1. 0 \in 0..max
        OBVIOUS
      <3> QED
        BY <1>3, <1>10, <3>1
    <2>2. ASSUME NEW i \in 0..(max - 1), i \in S
          PROVE  i + 1 \in S
      <3>1. i + 1 \in 1..max /\ level[i] \in NodeSets
        BY <2>2
      <3>2. level[i + 1] = Children(level[i])
        BY <1>10, <3>1
      <3> QED
        BY <3>1, <3>2, ChildrenFacts
    <2> HIDE DEF S
    <2>3. 0..max \subseteq S
      BY <2>1, <2>2, BoundedInduction
    <2>4. \A i \in 0..max : level[i] \in NodeSets
      BY <2>3 DEF S
    <2>5. level = [i \in 0..max |-> level[i]]
      <3> HIDE DEF Level
      <3> QED
        BY <1>8
    <2> QED
      BY <2>4, <2>5
  <1> QED
    BY <1>2, <1>10, <1>11

\* An accessible is below itself.
LEMMA BelowItself ==
    ASSUME NEW n \in Nodes
    PROVE  n \in Below(n) /\ Below(n) \subseteq Nodes
  <1> DEFINE f == LevelsBelow(n, MaxFindDepth)
  <1>1. f \in [0..MaxFindDepth -> NodeSets] /\ f[0] = {n}
    BY TreeAssumption, LevelSteps
  <1>2. Below(n) = UNION {f[d] : d \in 0..MaxFindDepth}
    BY DEF Below
  <1>3. 0 \in 0..MaxFindDepth
    BY TreeAssumption
  <1> HIDE DEF f
  <1> QED
    BY <1>1, <1>2, <1>3 DEF NodeSets

\* A search that starts at an accessible or at a child of it comes to one
\* menubar at most, and that is below the accessible.
LEMMA HitIsBelow ==
    ASSUME NEW n \in Nodes, NEW e \in {0, 1}, NEW y \in LevelsBelow(n, MaxFindDepth)[e],
           NEW d \in 0..MaxFindDepth, NEW deaf
    PROVE  FindMenubar(y, d, deaf) \in Hit /\ FindMenubar(y, d, deaf) \subseteq Below(n)
  <1>0. PICK find \in [0..MaxFindDepth -> Hits] : Searches(find, deaf)
    BY FindSteps
  <1>1. /\ \A x \in Nodes : find[0][x] = {}
        /\ \A left \in 1..MaxFindDepth, x \in Nodes :
              find[left][x] = FindStep(deaf, find[left - 1], x)
        /\ FindMenubar(y, d, deaf) = find[MaxFindDepth - d][y]
    BY <1>0 DEF Searches
  <1> DEFINE level == LevelsBelow(n, MaxFindDepth)
  <1>2. /\ level \in [0..MaxFindDepth -> NodeSets]
        /\ level[0] = {n}
        /\ \A c \in 1..MaxFindDepth : level[c] = Children(level[c - 1])
        /\ Below(n) = UNION {level[c] : c \in 0..MaxFindDepth}
        /\ y \in level[e]
    BY TreeAssumption, LevelSteps DEF Below
  <1> HIDE DEF level
  <1>3. MaxFindDepth \in Nat \ {0, 1}
    BY TreeAssumption
  <1> DEFINE In(left) == \A c \in 0..MaxFindDepth : c + left <= MaxFindDepth + 1 =>
                            \A x \in level[c] : find[left][x] \subseteq Below(n)
             S == {left \in 0..MaxFindDepth : In(left)}
  <1>4. 0 \in S
    <2>1. \A c \in 0..MaxFindDepth : level[c] \subseteq Nodes
      BY <1>2 DEF NodeSets
    <2> QED
      BY <1>1, <1>3, <2>1
  <1>5. ASSUME NEW left \in 0..(MaxFindDepth - 1), left \in S
        PROVE  left + 1 \in S
    <2> SUFFICES ASSUME NEW c \in 0..MaxFindDepth, c + (left + 1) <= MaxFindDepth + 1,
                        NEW x \in level[c]
                 PROVE  find[left + 1][x] \subseteq Below(n)
      BY <1>3
    <2>1. left + 1 \in 1..MaxFindDepth /\ left \in 0..MaxFindDepth
      BY <1>3
    <2>2. x \in Nodes /\ level[c] \in NodeSets /\ x \in Below(n)
      BY <1>2 DEF NodeSets
    <2>4. find[left + 1][x] = FindStep(deaf, find[left], x) /\ find[left] \in Hits
      BY <1>1, <2>1, <2>2
    <2>5. CASE FindStep(deaf, find[left], x) \subseteq {x}
      BY <2>2, <2>4, <2>5
    <2>6. ASSUME NEW i \in DOMAIN Kids[x], FindStep(deaf, find[left], x) = find[left][Kids[x][i]]
          PROVE  find[left + 1][x] \subseteq Below(n)
      <3>1. CASE left = 0
        <4>1. Kids[x][i] \in Nodes
          BY <2>2, KidsFacts
        <4> QED
          BY <1>1, <2>4, <2>6, <3>1, <4>1
      <3>2. CASE left # 0
        <4>1. /\ c + 1 \in 1..MaxFindDepth /\ c + 1 \in 0..MaxFindDepth
              /\ (c + 1) + left <= MaxFindDepth + 1
          BY <1>3, <3>2
        <4>2. level[c + 1] = Children(level[c])
          BY <1>2, <4>1
        <4>3. Kids[x][i] \in level[c + 1]
          BY <2>2, <4>2, ChildrenFacts
        <4>4. find[left][Kids[x][i]] \subseteq Below(n)
          BY <1>5, <4>1, <4>3
        <4> QED
          BY <2>4, <2>6, <4>4
      <3> QED
        BY <3>1, <3>2
    <2> QED
      BY <2>2, <2>4, <2>5, <2>6, FindStepFacts
  <1> HIDE DEF S
  <1>6. 0..MaxFindDepth \subseteq S
    BY <1>3, <1>4, <1>5, BoundedInduction
  <1>7. /\ MaxFindDepth - d \in 0..MaxFindDepth /\ e \in 0..MaxFindDepth
        /\ e + (MaxFindDepth - d) <= MaxFindDepth + 1
    BY <1>3
  <1>8. In(MaxFindDepth - d)
    BY <1>6, <1>7 DEF S
  <1>9. find[MaxFindDepth - d][y] \subseteq Below(n)
    BY <1>2, <1>7, <1>8
  <1>10. find[MaxFindDepth - d][y] \in Hit
    <2>1. y \in Nodes
      BY <1>2, <1>7 DEF NodeSets
    <2> QED
      BY <1>7, <2>1 DEF Hits
  <1> QED
    BY <1>1, <1>9, <1>10

\* A search that starts at an accessible stays below it.
LEMMA MenubarIsBelow ==
    ASSUME NEW n \in Nodes, NEW d \in 0..MaxFindDepth, NEW deaf
    PROVE  FindMenubar(n, d, deaf) \in Hit /\ FindMenubar(n, d, deaf) \subseteq Below(n)
  <1>1. n \in LevelsBelow(n, MaxFindDepth)[0]
    BY TreeAssumption, LevelSteps
  <1> QED
    BY <1>1, HitIsBelow

\* One that starts at a child of a window stays in the window.
LEMMA FrameFacts ==
    ASSUME NEW w \in Nodes, NEW x \in Frame(w), NEW deaf
    PROVE  /\ x \in Nodes /\ x \in Below(w)
           /\ FindMenubar(x, 0, deaf) \subseteq Below(w)
  <1> DEFINE level == LevelsBelow(w, MaxFindDepth)
  <1>1. /\ MaxFindDepth \in Nat \ {0, 1}
        /\ level \in [0..MaxFindDepth -> NodeSets]
        /\ level[0] = {w} /\ level[1] = Children(level[0])
        /\ Below(w) = UNION {level[c] : c \in 0..MaxFindDepth}
    BY TreeAssumption, LevelSteps DEF Below
  <1>2. \E e \in {0, 1} : x \in level[e]
    <2> HIDE DEF level
    <2>1. CASE x = w
      BY <1>1, <2>1
    <2>2. CASE x \in Range(Kids[w])
      <3>1. level[1] = Range(Kids[w])
        BY <1>1 DEF Children
      <3> QED
        BY <2>2, <3>1
    <2> QED
      BY <2>1, <2>2 DEF Frame
  <1>3. FindMenubar(x, 0, deaf) \subseteq Below(w)
    <2>1. 0 \in 0..MaxFindDepth
      BY <1>1
    <2> QED
      BY <1>2, <2>1, HitIsBelow
  <1> HIDE DEF level
  <1> QED
    BY <1>1, <1>2, <1>3, BelowItself

\* What is below a window is in that window, and in no other.
LEMMA WindowOfBelow ==
    ASSUME NEW w \in Windows, NEW n \in Below(w)
    PROVE  WindowOf(n) = w
  <1>1. \A v \in Windows : n \in Below(v) => v = w
    BY WindowAssumption
  <1> QED
    BY <1>1 DEF WindowOf

----------------------------------------------------------------------------
(* The rows of a menubar                                                   *)

\* The tree of one accessible, over those of its children.
TreeStep(deaf, g, n) ==
    LET kids == KidsOf(n, deaf)
        rows == [i \in DOMAIN kids |-> g[kids[i]]]
    IN  FlattenQtWrapper([node |-> n, rows |-> rows], deaf)

\* A function on the levels of a tree: those left, and the accessible.
Fetches(f, deaf) ==
    /\ \A n \in Nodes : f[0][n] = [node |-> n, rows |-> <<>>]
    /\ \A left \in 1..MaxFetchDepth, n \in Nodes :
          f[left][n] = TreeStep(deaf, f[left - 1], n)
    /\ \A n : FetchMenuTree(n, deaf) = f[MaxFetchDepth][n]

\* The tree is made level by level, from the deepest up. (The trees of all
\* depths are no set that could be named, so the function is made longer
\* step by step.)
LEMMA FetchSteps ==
    ASSUME NEW deaf
    PROVE  \E f : Fetches(f, deaf)
  <1> DEFINE base == [n \in Nodes |-> [node |-> n, rows |-> <<>>]]
             Over(g) == [n \in Nodes |-> TreeStep(deaf, g, n)]
             Level(F, left) == [n \in Nodes |-> IF left = 0 THEN [node |-> n, rows |-> <<>>]
                                              ELSE TreeStep(deaf, F[left - 1], n)]
             Upto(F, m) == F = [left \in 0..m |-> Level(F, left)]
             fetch == CHOOSE F : Upto(F, MaxFetchDepth)
             S == {m \in 0..MaxFetchDepth : \E F : Upto(F, m)}
  <1>1. MaxFetchDepth \in Nat
    BY TreeAssumption
  <1>2. \A n : FetchMenuTree(n, deaf) = fetch[MaxFetchDepth][n]
    BY DEF FetchMenuTree, TreeStep
  <1>3. 0 \in S
    <2> DEFINE F == [left \in 0..0 |-> Level(base, left)]
    <2>1. \A left \in 0..0 : Level(base, left) = Level(F, left)
      OBVIOUS
    <2> HIDE DEF Level, base
    <2>2. Upto(F, 0)
      BY <2>1
    <2>3. 0 \in 0..MaxFetchDepth
      BY <1>1
    <2> HIDE DEF F, Upto
    <2> QED
      BY <2>2, <2>3
  <1>4. ASSUME NEW m \in 0..(MaxFetchDepth - 1), m \in S
        PROVE  m + 1 \in S
    <2>1. PICK F : Upto(F, m)
      BY <1>4
    <2> DEFINE G == [left \in 0..(m + 1) |-> Level(F, left)]
    <2>2. ASSUME NEW left \in 0..(m + 1)
          PROVE  Level(F, left) = Level(G, left)
      <3>1. CASE left = 0
        BY <3>1
      <3>2. CASE left # 0
        <4>1. left - 1 \in 0..m /\ left - 1 \in 0..(m + 1)
          BY <1>1, <3>2
        <4>2. F[left - 1] = G[left - 1]
          <5> HIDE DEF Level
          <5> QED
            BY <2>1, <4>1
        <4> HIDE DEF G
        <4> QED
          BY <3>2, <4>2
      <3> QED
        BY <3>1, <3>2
    <2> HIDE DEF Level
    <2>3. Upto(G, m + 1)
      BY <2>2
    <2>4. m + 1 \in 0..MaxFetchDepth
      BY <1>1
    <2> HIDE DEF G, Upto
    <2> QED
      BY <2>3, <2>4
  <1>5. MaxFetchDepth \in S
    <2> HIDE DEF S
    <2>1. 0..MaxFetchDepth \subseteq S
      BY <1>1, <1>3, <1>4, BoundedInduction
    <2> QED
      BY <1>1, <2>1
  <1>6. Upto(fetch, MaxFetchDepth)
    <2> HIDE DEF Upto
    <2> QED
      BY <1>5
  <1> HIDE DEF fetch
  <1>7. \A left \in 0..MaxFetchDepth : fetch[left] = Level(fetch, left)
    <2> HIDE DEF Level
    <2> QED
      BY <1>6
  <1>8. ASSUME NEW n \in Nodes
        PROVE  fetch[0][n] = [node |-> n, rows |-> <<>>]
    <2>1. 0 \in 0..MaxFetchDepth
      BY <1>1
    <2>2. fetch[0] = Level(fetch, 0)
      <3> HIDE DEF Level
      <3> QED
        BY <1>7, <2>1
    <2>3. fetch[0] = [x \in Nodes |-> [node |-> x, rows |-> <<>>]]
      BY <2>2
    <2> QED
      BY <2>3
  <1>9. ASSUME NEW left \in 1..MaxFetchDepth, NEW n \in Nodes
        PROVE  fetch[left][n] = TreeStep(deaf, fetch[left - 1], n)
    <2>1. left \in 0..MaxFetchDepth /\ left # 0
      BY <1>1
    <2>2. fetch[left] = [x \in Nodes |-> TreeStep(deaf, fetch[left - 1], x)]
      BY <1>7, <2>1
    <2> QED
      BY <2>2
  <1> QED
    BY <1>2, <1>8, <1>9 DEF Fetches

\* All that a search for rows makes.
Made(f) == {f[left][n] : left \in 0..MaxFetchDepth, n \in Nodes}

\* The tree of an accessible is its own, over others that are made.
LEMMA MadeFacts ==
    ASSUME NEW deaf, NEW f, Fetches(f, deaf), NEW n \in Nodes
    PROVE  \A left \in 0..MaxFetchDepth :
              /\ f[left][n].node = n
              /\ \A i \in DOMAIN f[left][n].rows : f[left][n].rows[i] \in Made(f)
  <1>1. MaxFetchDepth \in Nat
    BY TreeAssumption
  <1> DEFINE Closed(left) == \A x \in Nodes :
                /\ f[left][x].node = x
                /\ \A i \in DOMAIN f[left][x].rows : f[left][x].rows[i] \in Made(f)
             S == {left \in 0..MaxFetchDepth : Closed(left)}
  <1>2. 0 \in S
    <2>1. ASSUME NEW x \in Nodes
          PROVE  f[0][x].node = x /\ f[0][x].rows = <<>>
      <3>1. f[0][x] = [node |-> x, rows |-> <<>>]
        BY DEF Fetches
      <3> QED
        BY <3>1
    <2>2. 0 \in 0..MaxFetchDepth
      BY <1>1
    <2> QED
      BY <2>1, <2>2
  <1>3. ASSUME NEW left \in 0..(MaxFetchDepth - 1), left \in S
        PROVE  left + 1 \in S
    <2>0. left + 1 \in 1..MaxFetchDepth /\ left + 1 \in 0..MaxFetchDepth /\ left \in 0..MaxFetchDepth
      BY <1>1
    <2> SUFFICES ASSUME NEW x \in Nodes
                 PROVE  /\ f[left + 1][x].node = x
                        /\ \A i \in DOMAIN f[left + 1][x].rows : f[left + 1][x].rows[i] \in Made(f)
      BY <2>0
    <2> DEFINE kids == KidsOf(x, deaf)
               rows == [i \in DOMAIN kids |-> f[left][kids[i]]]
    <2>1. PICK k \in Nat : DOMAIN kids = 1..k /\ \A i \in 1..k : kids[i] \in Nodes
      BY KidsOfFacts
    <2>2. \A i \in 1..k : kids[i] \in Nodes
      BY <2>1
    <2>3. DOMAIN rows = 1..k /\ \A i \in 1..k : rows[i] = f[left][kids[i]]
      BY <2>1
    <2>4. \A i \in 1..k : rows[i] \in Made(f)
      BY <2>0, <2>2, <2>3 DEF Made
    <2>5. k > 0 => \A i \in DOMAIN rows[1].rows : rows[1].rows[i] \in Made(f)
      <3> SUFFICES ASSUME k > 0
                   PROVE  \A i \in DOMAIN rows[1].rows : rows[1].rows[i] \in Made(f)
        OBVIOUS
      <3>1. 1 \in 1..k
        OBVIOUS
      <3>2. kids[1] \in Nodes /\ rows[1] = f[left][kids[1]]
        BY <2>2, <2>3, <3>1
      <3>3. Closed(left)
        BY <1>3
      <3> HIDE DEF rows
      <3> QED
        BY <3>2, <3>3
    <2>6. f[left + 1][x] = FlattenQtWrapper([node |-> x, rows |-> rows], deaf)
      <3>1. f[left + 1][x] = TreeStep(deaf, f[left + 1 - 1], x)
        BY <2>0 DEF Fetches
      <3>2. left + 1 - 1 = left
        BY <2>0
      <3> QED
        BY <3>1, <3>2 DEF TreeStep
    <2> HIDE DEF rows, kids
    <2>7. CASE WrapsRows([node |-> x, rows |-> rows], deaf)
      <3>1. f[left + 1][x] = [node |-> x, rows |-> rows[1].rows]
        BY <2>6, <2>7 DEF FlattenQtWrapper
      <3>2. Len(rows) = 1
        BY <2>7 DEF WrapsRows
      <3>3. k > 0
        BY <2>3, <3>2
      <3> QED
        BY <2>5, <3>1, <3>3
    <2>8. CASE ~WrapsRows([node |-> x, rows |-> rows], deaf)
      <3>1. f[left + 1][x] = [node |-> x, rows |-> rows]
        BY <2>6, <2>8 DEF FlattenQtWrapper
      <3> QED
        BY <2>3, <2>4, <3>1
    <2> QED
      BY <2>7, <2>8
  <1> HIDE DEF S
  <1>4. 0..MaxFetchDepth \subseteq S
    BY <1>1, <1>2, <1>3, BoundedInduction
  <1> QED
    BY <1>4 DEF S

\* A chain of sets of trees.
LEMMA RowsRecursion ==
    ASSUME NEW Sets, NEW b \in Sets, NEW n \in Nat, NEW step \in [1..n -> [Sets -> Sets]]
    PROVE  \E f \in [0..n -> Sets] :
              f[0] = b /\ \A i \in 1..n : f[i] = step[i][f[i - 1]]
  BY BoundedRecursion, Z3

\* The rows of some trees, and the trees.
WithRows(T) == T \cup UNION {Range(item.rows) : item \in T}

\* If rows of what is in a set are in it, then all that is in a tree is
\* reached by going on to the rows within that set.
LEMMA ItemsSteps ==
    ASSUME NEW All, NEW tree \in All,
           \A t \in All : \A i \in DOMAIN t.rows : t.rows[i] \in All
    PROVE  \E u \in [0..MaxFetchDepth -> SUBSET All] :
              /\ u[0] = {tree} /\ ItemsOf(tree) = u[MaxFetchDepth]
              /\ \A d \in 1..MaxFetchDepth : u[d] = WithRows(u[d - 1])
              /\ \A d \in 0..MaxFetchDepth : u[d] \subseteq u[MaxFetchDepth]
  <1> DEFINE Sets == SUBSET All
             step == [d \in 1..MaxFetchDepth |-> [T \in Sets |-> WithRows(T)]]
             Level(F, d) == IF d = 0 THEN {tree} ELSE WithRows(F[d - 1])
             Eq(F) == F = [d \in 0..MaxFetchDepth |-> Level(F, d)]
             upto == CHOOSE F : Eq(F)
  <1>1. MaxFetchDepth \in Nat
    BY TreeAssumption
  <1>2. ItemsOf(tree) = upto[MaxFetchDepth]
    BY DEF ItemsOf, WithRows
  <1>3. {tree} \in Sets
    OBVIOUS
  <1>4. \A T \in Sets : WithRows(T) \in Sets
    BY DEF WithRows, Range
  <1>5. step \in [1..MaxFetchDepth -> [Sets -> Sets]]
    BY <1>4
  <1>6. PICK g \in [0..MaxFetchDepth -> Sets] :
            g[0] = {tree} /\ \A i \in 1..MaxFetchDepth : g[i] = step[i][g[i - 1]]
    <2> HIDE DEF step, Sets
    <2> QED
      BY <1>1, <1>3, <1>5, RowsRecursion
  <1>7. \A d \in 1..MaxFetchDepth : g[d] = WithRows(g[d - 1])
    <2> SUFFICES ASSUME NEW d \in 1..MaxFetchDepth PROVE g[d] = WithRows(g[d - 1])
      OBVIOUS
    <2>1. g[d - 1] \in Sets
      BY <1>1
    <2> QED
      BY <1>6, <2>1
  <1>8. Eq(g)
    <2>1. \A d \in 0..MaxFetchDepth : g[d] = Level(g, d)
      <3> SUFFICES ASSUME NEW d \in 0..MaxFetchDepth PROVE g[d] = Level(g, d)
        OBVIOUS
      <3>1. CASE d = 0
        BY <1>6, <3>1
      <3>2. CASE d # 0
        <4>1. d \in 1..MaxFetchDepth
          BY <1>1, <3>2
        <4> QED
          BY <1>7, <3>2, <4>1
      <3> QED
        BY <3>1, <3>2
    <2> HIDE DEF Level
    <2> QED
      BY <2>1
  <1>9. Eq(upto)
    <2> HIDE DEF Eq
    <2> QED
      BY <1>8
  <1> HIDE DEF step, upto
  <1>10. \A d \in 0..MaxFetchDepth : upto[d] = Level(upto, d)
    <2> HIDE DEF Level
    <2> QED
      BY <1>9
  <1> DEFINE S == {d \in 0..MaxFetchDepth : upto[d] \in Sets}
  <1>11. 0 \in S
    BY <1>1, <1>3, <1>10
  <1>12. ASSUME NEW d \in 0..(MaxFetchDepth - 1), d \in S
         PROVE  d + 1 \in S
    <2>1. d + 1 \in 0..MaxFetchDepth /\ d + 1 # 0 /\ d + 1 - 1 = d
      BY <1>1
    <2>2. upto[d + 1] = WithRows(upto[d])
      BY <1>10, <2>1
    <2> HIDE DEF Sets
    <2> QED
      BY <1>4, <1>12, <2>1, <2>2
  <1> HIDE DEF S
  <1>13. 0..MaxFetchDepth \subseteq S
    BY <1>1, <1>11, <1>12, BoundedInduction
  <1>14. \A d \in 0..MaxFetchDepth : upto[d] \in Sets
    BY <1>13 DEF S
  <1>15. upto \in [0..MaxFetchDepth -> Sets]
    <2>1. upto = [d \in 0..MaxFetchDepth |-> upto[d]]
      <3> HIDE DEF Level
      <3> QED
        BY <1>9
    <2> QED
      BY <1>14, <2>1
  <1>16. upto[0] = {tree}
    BY <1>1, <1>10
  <1>17. \A d \in 1..MaxFetchDepth : upto[d] = WithRows(upto[d - 1])
    BY <1>1, <1>10
  <1>18. \A d \in 0..MaxFetchDepth : upto[d] \subseteq upto[MaxFetchDepth]
    <2> DEFINE T == {e \in 0..MaxFetchDepth : upto[MaxFetchDepth - e] \subseteq upto[MaxFetchDepth]}
    <2>1. 0 \in T
      BY <1>1
    <2>2. ASSUME NEW e \in 0..(MaxFetchDepth - 1), e \in T
          PROVE  e + 1 \in T
      <3> DEFINE d == MaxFetchDepth - e
      <3>1. d \in 1..MaxFetchDepth /\ d - 1 = MaxFetchDepth - (e + 1) /\ e + 1 \in 0..MaxFetchDepth
        BY <1>1
      <3>2. upto[d] = WithRows(upto[d - 1])
        BY <1>17, <3>1
      <3>3. upto[d - 1] \subseteq upto[d]
        BY <3>2 DEF WithRows
      <3>4. upto[d] \subseteq upto[MaxFetchDepth]
        BY <2>2
      <3> HIDE DEF d
      <3> QED
        BY <3>1, <3>3, <3>4
    <2> HIDE DEF T
    <2>3. 0..MaxFetchDepth \subseteq T
      BY <1>1, <2>1, <2>2, BoundedInduction
    <2>4. ASSUME NEW d \in 0..MaxFetchDepth
          PROVE  upto[d] \subseteq upto[MaxFetchDepth]
      <3>1. MaxFetchDepth - d \in T /\ MaxFetchDepth - (MaxFetchDepth - d) = d
        BY <1>1, <2>3
      <3> QED
        BY <3>1 DEF T
    <2> QED
      BY <2>4
  <1> QED
    BY <1>2, <1>15, <1>16, <1>17, <1>18

\* So all of it is in the set.
LEMMA ItemsAreIn ==
    ASSUME NEW All, NEW tree \in All,
           \A t \in All : \A i \in DOMAIN t.rows : t.rows[i] \in All
    PROVE  ItemsOf(tree) \subseteq All
  <1>1. MaxFetchDepth \in 0..MaxFetchDepth
    BY TreeAssumption
  <1> QED
    BY <1>1, ItemsSteps

\* What fetch_menu_tree returns is a tree of accessibles, of the menubar it
\* was called on.
LEMMA FetchIsTree ==
    ASSUME NEW n \in Nodes, NEW deaf
    PROVE  FetchMenuTree(n, deaf).node = n /\ IsTree(FetchMenuTree(n, deaf))
  <1>1. PICK f : Fetches(f, deaf)
    BY FetchSteps
  <1>2. MaxFetchDepth \in 0..MaxFetchDepth
    BY TreeAssumption
  <1>3. FetchMenuTree(n, deaf) = f[MaxFetchDepth][n]
    BY <1>1 DEF Fetches
  <1>4. FetchMenuTree(n, deaf) \in Made(f)
    BY <1>2, <1>3 DEF Made
  <1>5. \A t \in Made(f) : t.node \in Nodes /\ \A i \in DOMAIN t.rows : t.rows[i] \in Made(f)
    <2> SUFFICES ASSUME NEW left \in 0..MaxFetchDepth, NEW x \in Nodes
                 PROVE  /\ f[left][x].node \in Nodes
                        /\ \A i \in DOMAIN f[left][x].rows : f[left][x].rows[i] \in Made(f)
      BY DEF Made
    <2> QED
      BY <1>1, MadeFacts
  <1>6. ItemsOf(FetchMenuTree(n, deaf)) \subseteq Made(f)
    BY <1>4, <1>5, ItemsAreIn
  <1>7. FetchMenuTree(n, deaf).node = n
    BY <1>1, <1>2, <1>3, MadeFacts
  <1> QED
    BY <1>5, <1>6, <1>7 DEF IsTree

----------------------------------------------------------------------------
(* The rows are complete                                                   *)

\* What an accessible has for its rows when no read fails.
Wraps(f, left, n) ==
    /\ Len(Kids[n]) = 1 /\ Kids[n][1] \notin Named
    /\ f[left - 1][Kids[n][1]].rows # <<>>

\* The rows of an accessible, with so many levels left.
RowsAt(f, left, n) == f[left][n].rows

\* Its rows are its children's trees, or, below a wrapper, the wrapper's rows.
LEMMA RowsOfFacts ==
    ASSUME NEW f, Fetches(f, {}), NEW left \in 1..MaxFetchDepth, NEW n \in Nodes
    PROVE  /\ Wraps(f, left, n) => RowsAt(f, left, n) = RowsAt(f, left - 1, Kids[n][1])
           /\ ~Wraps(f, left, n) =>
                 f[left][n].rows = [i \in DOMAIN Kids[n] |-> f[left - 1][Kids[n][i]]]
  <1>1. MaxFetchDepth \in Nat /\ left - 1 \in 0..MaxFetchDepth
    BY TreeAssumption
  <1> DEFINE rows == [i \in DOMAIN Kids[n] |-> f[left - 1][Kids[n][i]]]
             item == [node |-> n, rows |-> rows]
  <1>2. /\ Len(Kids[n]) \in Nat /\ DOMAIN Kids[n] = 1..Len(Kids[n])
        /\ \A i \in DOMAIN Kids[n] : Kids[n][i] \in Nodes
    BY KidsFacts
  <1>3. f[left][n] = FlattenQtWrapper(item, {})
    <2>1. KidsOf(n, {}) = Kids[n]
      BY KidsFacts
    <2>2. f[left][n] = TreeStep({}, f[left - 1], n)
      BY DEF Fetches
    <2> QED
      BY <2>1, <2>2 DEF TreeStep
  <1>4. DOMAIN rows = 1..Len(Kids[n]) /\ \A i \in 1..Len(Kids[n]) : rows[i] = f[left - 1][Kids[n][i]]
    BY <1>2
  <1>5. item.rows = rows
    OBVIOUS
  <1>6. Len(rows) = Len(Kids[n])
    BY <1>2, <1>4
  <1>7. Len(rows) = 1 => rows[1] = f[left - 1][Kids[n][1]] /\ rows[1].node = Kids[n][1]
    <2> SUFFICES ASSUME Len(rows) = 1
                 PROVE  rows[1] = f[left - 1][Kids[n][1]] /\ rows[1].node = Kids[n][1]
      OBVIOUS
    <2>1. 1 \in 1..Len(Kids[n])
      BY <1>6
    <2>2. rows[1] = f[left - 1][Kids[n][1]] /\ Kids[n][1] \in Nodes
      BY <1>2, <1>4, <2>1
    <2>3. f[left - 1][Kids[n][1]].node = Kids[n][1]
      BY <1>1, <2>2, MadeFacts
    <2> QED
      BY <2>2, <2>3
  <1> HIDE DEF rows
  <1>8. WrapsRows(item, {}) <=> Wraps(f, left, n)
    BY <1>5, <1>6, <1>7 DEF WrapsRows, HasLabel, Wraps
  <1>9. CASE Wraps(f, left, n)
    <2>1. f[left][n] = [node |-> n, rows |-> rows[1].rows]
      BY <1>3, <1>8, <1>9 DEF FlattenQtWrapper
    <2>2. rows[1] = f[left - 1][Kids[n][1]]
      BY <1>6, <1>7, <1>9 DEF Wraps
    <2> QED
      BY <1>9, <2>1, <2>2 DEF RowsAt
  <1>10. CASE ~Wraps(f, left, n)
    <2>1. f[left][n] = [node |-> n, rows |-> rows]
      BY <1>3, <1>8, <1>10 DEF FlattenQtWrapper
    <2> QED
      BY <1>10, <2>1 DEF rows
  <1> QED
    BY <1>9, <1>10

\* The first half of that.
LEMMA WrappedRows ==
    ASSUME NEW f, Fetches(f, {}), NEW left \in 1..MaxFetchDepth, NEW n \in Nodes,
           Wraps(f, left, n)
    PROVE  RowsAt(f, left, n) = RowsAt(f, left - 1, Kids[n][1])
  BY RowsOfFacts, Zenon

\* An accessible has rows if it has children and is above the deepest level.
LEMMA HasRows ==
    ASSUME NEW f, Fetches(f, {}), NEW left \in 0..MaxFetchDepth, NEW n \in Nodes
    PROVE  f[left][n].rows # <<>> <=> left # 0 /\ Kids[n] # <<>>
  <1>1. CASE left = 0
    <2>1. f[left][n] = [node |-> n, rows |-> <<>>]
      BY <1>1 DEF Fetches
    <2> QED
      BY <1>1, <2>1
  <1>2. CASE left # 0
    <2>1. left \in 1..MaxFetchDepth
      BY <1>2, TreeAssumption
    <2>2. Kids[n] \in Seq(Nodes) /\ Len(Kids[n]) \in Nat /\ DOMAIN Kids[n] = 1..Len(Kids[n])
      BY KidsFacts
    <2>3. CASE Wraps(f, left, n)
      <3>1. f[left][n].rows = f[left - 1][Kids[n][1]].rows
        <4>1. RowsAt(f, left, n) = RowsAt(f, left - 1, Kids[n][1])
          BY <2>1, <2>3, RowsOfFacts, Zenon
        <4> QED
          BY <4>1 DEF RowsAt
      <3>2. f[left][n].rows # <<>> /\ Len(Kids[n]) = 1
        BY <2>3, <3>1 DEF Wraps
      <3>3. Kids[n] # <<>>
        BY <3>2
      <3> QED
        BY <1>2, <3>2, <3>3
    <2>4. CASE ~Wraps(f, left, n)
      <3>1. f[left][n].rows = [i \in DOMAIN Kids[n] |-> f[left - 1][Kids[n][i]]]
        BY <2>1, <2>4, RowsOfFacts
      <3>2. DOMAIN f[left][n].rows = 1..Len(Kids[n])
        BY <2>2, <3>1
      <3>3. Kids[n] = <<>> => f[left][n].rows = <<>>
        BY <3>1
      <3>4. Kids[n] # <<>> => f[left][n].rows # <<>>
        <4>1. Kids[n] # <<>> => 1 \in 1..Len(Kids[n])
          BY <2>2, EmptySeq
        <4>2. f[left][n].rows = <<>> => 1 \notin DOMAIN f[left][n].rows
          OBVIOUS
        <4> QED
          BY <3>2, <4>1, <4>2
      <3> QED
        BY <1>2, <3>3, <3>4
    <2> QED
      BY <2>3, <2>4
  <1> QED
    BY <1>1, <1>2

\* No row of a tree is a nameless popup that hides the others.
LEMMA NoWrapper ==
    ASSUME NEW f, Fetches(f, {}), NEW m \in 0..MaxFetchDepth, NEW x \in Nodes
    PROVE  ~WrapsRows(f[m][x], {})
  <1>1. MaxFetchDepth \in Nat
    BY TreeAssumption
  <1> DEFINE S == {left \in 0..MaxFetchDepth : \A n \in Nodes : ~WrapsRows(f[left][n], {})}
  <1>2. 0 \in S
    <2>1. ASSUME NEW n \in Nodes
          PROVE  ~WrapsRows(f[0][n], {})
      <3>1. f[0][n].rows = <<>>
        BY <1>1, HasRows
      <3> QED
        BY <3>1 DEF WrapsRows
    <2> QED
      BY <1>1, <2>1
  <1>3. ASSUME NEW i \in 0..(MaxFetchDepth - 1), i \in S
        PROVE  i + 1 \in S
    <2>1. i + 1 \in 1..MaxFetchDepth /\ i + 1 - 1 = i /\ i \in 0..MaxFetchDepth
      BY <1>1
    <2>2. ASSUME NEW n \in Nodes, WrapsRows(f[i + 1][n], {})
          PROVE  FALSE
      <3> DEFINE rows == f[i + 1][n].rows
      <3>1. Len(rows) = 1 /\ rows[1].node \notin Named /\ rows[1].rows # <<>>
        BY <2>2 DEF WrapsRows, HasLabel
      <3>2. CASE Wraps(f, i + 1, n)
        <4>1. rows = f[i][Kids[n][1]].rows /\ Len(Kids[n]) = 1
          <5> DEFINE l == i + 1
          <5>0. l \in 1..MaxFetchDepth /\ Wraps(f, l, n)
            BY <2>1, <3>2
          <5>1. RowsAt(f, l, n) = RowsAt(f, l - 1, Kids[n][1])
            <6> HIDE DEF l
            <6> QED
              BY <5>0, WrappedRows
          <5>2. Len(Kids[n]) = 1
            BY <3>2 DEF Wraps
          <5> QED
            BY <2>1, <5>1, <5>2 DEF RowsAt
        <4>2. Kids[n][1] \in Nodes
          BY <4>1, KidsFacts
        <4>3. WrapsRows(f[i][Kids[n][1]], {})
          BY <3>1, <4>1 DEF WrapsRows, HasLabel
        <4> QED
          BY <1>3, <4>2, <4>3
      <3>3. CASE ~Wraps(f, i + 1, n)
        <4>1. rows = [j \in DOMAIN Kids[n] |-> f[i][Kids[n][j]]]
          BY <2>1, <3>3, RowsOfFacts
        <4>2. /\ Len(Kids[n]) \in Nat /\ DOMAIN Kids[n] = 1..Len(Kids[n])
              /\ \A j \in DOMAIN Kids[n] : Kids[n][j] \in Nodes
          BY KidsFacts
        <4>3. DOMAIN rows = 1..Len(Kids[n])
          BY <4>1, <4>2
        <4>4. Len(Kids[n]) = 1
          BY <3>1, <4>2, <4>3
        <4>5. rows[1] = f[i][Kids[n][1]] /\ Kids[n][1] \in Nodes
          BY <4>1, <4>2, <4>4
        <4>6. rows[1].node = Kids[n][1]
          BY <2>1, <4>5, MadeFacts
        <4> QED
          BY <2>1, <3>1, <3>3, <4>4, <4>5, <4>6 DEF Wraps
      <3> QED
        BY <3>2, <3>3
    <2> QED
      BY <2>1, <2>2
  <1> HIDE DEF S
  <1>4. 0..MaxFetchDepth \subseteq S
    BY <1>1, <1>2, <1>3, BoundedInduction
  <1> QED
    BY <1>4 DEF S

\* The accessible at a level is one whose own children are shown in its place.
Hidden(level, d, x) ==
    /\ d \in 1..(MaxFetchDepth - 1) /\ x \notin Named /\ Kids[x] # <<>>
    /\ \E p \in level[d - 1] : Kids[p] = <<x>>

\* A level is as deep as its number says.
LEMMA LevelDepth ==
    ASSUME NEW depth \in [Nodes -> Nat], IsForest(depth), NEW bar \in Nodes,
           NEW d \in 0..MaxFetchDepth, NEW x \in LevelsBelow(bar, MaxFetchDepth)[d]
    PROVE  depth[x] = depth[bar] + d
  <1> DEFINE level == LevelsBelow(bar, MaxFetchDepth)
  <1>1. /\ MaxFetchDepth \in Nat /\ level \in [0..MaxFetchDepth -> NodeSets] /\ level[0] = {bar}
        /\ \A c \in 1..MaxFetchDepth : level[c] = Children(level[c - 1])
    BY TreeAssumption, LevelSteps
  <1> HIDE DEF level
  <1> DEFINE S == {c \in 0..MaxFetchDepth : \A y \in level[c] : depth[y] = depth[bar] + c}
  <1>2. 0 \in S
    BY <1>1
  <1>3. ASSUME NEW c \in 0..(MaxFetchDepth - 1), c \in S
        PROVE  c + 1 \in S
    <2>1. c + 1 \in 1..MaxFetchDepth /\ c + 1 - 1 = c /\ c \in 0..MaxFetchDepth
      BY <1>1
    <2>2. ASSUME NEW y \in level[c + 1]
          PROVE  depth[y] = depth[bar] + (c + 1)
      <3>1. level[c] \subseteq Nodes
        BY <1>1, <2>1 DEF NodeSets
      <3>2. PICK p \in level[c] : y \in Range(Kids[p])
        BY <1>1, <2>1, <2>2 DEF Children
      <3>3. PICK i \in DOMAIN Kids[p] : Kids[p][i] = y
        BY <3>2 DEF Range
      <3>4. depth[y] = depth[p] + 1
        BY <3>1, <3>2, <3>3 DEF IsForest
      <3>5. depth[p] = depth[bar] + c
        BY <1>3, <3>2
      <3>6. depth[bar] \in Nat
        OBVIOUS
      <3> QED
        BY <2>1, <3>4, <3>5, <3>6
    <2> QED
      BY <2>1, <2>2
  <1> HIDE DEF S
  <1>4. 0..MaxFetchDepth \subseteq S
    BY <1>1, <1>2, <1>3, BoundedInduction
  <1>5. x \in level[d]
    BY DEF level
  <1> QED
    BY <1>4, <1>5 DEF S

\* The rows that a menubar's tree is made of: one for each accessible at each
\* level, but for the hidden ones.
Shown(f, level) ==
    {t \in Made(f) : \E d \in 0..MaxFetchDepth : \E x \in level[d] :
        ~Hidden(level, d, x) /\ t = f[MaxFetchDepth - d][x]}

\* The rows at any level are shown ones.
LEMMA RowsAreShown ==
    ASSUME NEW f, Fetches(f, {}), NEW depth \in [Nodes -> Nat], IsForest(depth),
           NEW level \in [0..MaxFetchDepth -> NodeSets],
           \A d \in 1..MaxFetchDepth : level[d] = Children(level[d - 1]),
           NEW e \in 0..MaxFetchDepth, NEW y \in level[e]
    PROVE  \A i \in DOMAIN f[MaxFetchDepth - e][y].rows :
              f[MaxFetchDepth - e][y].rows[i] \in Shown(f, level)
  <1>1. MaxFetchDepth \in Nat
    BY TreeAssumption
  <1> DEFINE All == Shown(f, level)
             Good(left) == \A x \in level[MaxFetchDepth - left] :
                              \A i \in DOMAIN f[left][x].rows : f[left][x].rows[i] \in All
             S == {left \in 0..MaxFetchDepth : Good(left)}
  <1>2. \A d \in 0..MaxFetchDepth : level[d] \subseteq Nodes
    BY DEF NodeSets
  <1>3. 0 \in S
    <2>1. ASSUME NEW x \in level[MaxFetchDepth - 0]
          PROVE  f[0][x].rows = <<>>
      <3>1. x \in Nodes
        BY <1>1, <1>2
      <3>2. f[0][x] = [node |-> x, rows |-> <<>>]
        BY <3>1 DEF Fetches
      <3> QED
        BY <3>2
    <2> HIDE DEF All
    <2> QED
      BY <1>1, <2>1
  <1>4. ASSUME NEW left \in 0..(MaxFetchDepth - 1), left \in S
        PROVE  left + 1 \in S
    <2> DEFINE d == MaxFetchDepth - (left + 1)
    <2>1. /\ left + 1 \in 1..MaxFetchDepth /\ left + 1 - 1 = left /\ left \in 0..MaxFetchDepth
          /\ d \in 0..MaxFetchDepth /\ d + 1 = MaxFetchDepth - left /\ d + 1 \in 1..MaxFetchDepth
          /\ d + 1 - 1 = d /\ MaxFetchDepth - (d + 1) = left /\ d + 1 \in 0..MaxFetchDepth
          /\ (d + 1 \in 1..(MaxFetchDepth - 1) => left # 0)
      BY <1>1
    <2> HIDE DEF d
    <2>2. ASSUME NEW x \in level[d]
          PROVE  \A i \in DOMAIN f[left + 1][x].rows : f[left + 1][x].rows[i] \in All
      <3>1. x \in Nodes /\ level[d + 1] = Children(level[d]) /\ level[d] \in NodeSets
        BY <1>2, <2>1
      <3>2. \A i \in DOMAIN Kids[x] : Kids[x][i] \in level[d + 1] /\ Kids[x][i] \in Nodes
        <4>1. \A i \in DOMAIN Kids[x] : Kids[x][i] \in Nodes
          BY <3>1, KidsFacts
        <4> QED
          BY <3>1, <4>1, ChildrenFacts
      <3>3. Len(Kids[x]) \in Nat /\ DOMAIN Kids[x] = 1..Len(Kids[x])
        BY <3>1, KidsFacts
      <3>4. CASE Wraps(f, left + 1, x)
        <4>1. f[left + 1][x].rows = f[left + 1 - 1][Kids[x][1]].rows
          <5> DEFINE l == left + 1
          <5>0. l \in 1..MaxFetchDepth /\ Wraps(f, l, x)
            BY <2>1, <3>4
          <5>1. RowsAt(f, l, x) = RowsAt(f, l - 1, Kids[x][1])
            <6> HIDE DEF l
            <6> QED
              BY <3>1, <5>0, WrappedRows
          <5> QED
            BY <5>1 DEF RowsAt
        <4>2. 1 \in DOMAIN Kids[x]
          BY <3>3, <3>4 DEF Wraps
        <4>3. Kids[x][1] \in level[MaxFetchDepth - left]
          BY <2>1, <3>2, <4>2
        <4>4. Good(left)
          BY <1>4
        <4> HIDE DEF All
        <4> QED
          BY <2>1, <4>1, <4>3, <4>4
      <3>5. CASE ~Wraps(f, left + 1, x)
        <4>1. f[left + 1][x].rows = [i \in DOMAIN Kids[x] |-> f[left + 1 - 1][Kids[x][i]]]
          BY <2>1, <3>1, <3>5, RowsOfFacts
        <4>2. ASSUME NEW i \in DOMAIN Kids[x]
              PROVE  f[left][Kids[x][i]] \in All
          <5> DEFINE k == Kids[x][i]
          <5>1. k \in level[d + 1] /\ k \in Nodes
            BY <3>2
          <5>2. f[left][k] \in Made(f)
            BY <2>1, <5>1 DEF Made
          <5>3. ~Hidden(level, d + 1, k)
            <6> SUFFICES ASSUME Hidden(level, d + 1, k) PROVE FALSE
              OBVIOUS
            <6>1. /\ left # 0 /\ k \notin Named /\ Kids[k] # <<>>
                  /\ \E p \in level[d] : Kids[p] = <<k>>
              BY <2>1 DEF Hidden
            <6>2. PICK p \in level[d] : Kids[p] = <<k>>
              BY <6>1
            <6>3. p \in Nodes /\ 1 \in DOMAIN Kids[p] /\ Kids[p][1] = k
              BY <1>2, <2>1, <6>2
            <6>4. p = x
              BY <3>1, <6>3 DEF IsForest
            <6>5. Len(Kids[x]) = 1 /\ Kids[x][1] = k
              <7> HIDE DEF k
              <7>1. Kids[x] = <<k>>
                BY <6>2, <6>4
              <7> QED
                BY <7>1
            <6>6. f[left][k].rows # <<>>
              BY <2>1, <5>1, <6>1, HasRows
            <6> HIDE DEF k
            <6> QED
              BY <2>1, <3>5, <6>1, <6>5, <6>6 DEF Wraps
          <5> QED
            BY <2>1, <5>1, <5>2, <5>3 DEF Shown
        <4> HIDE DEF All
        <4> QED
          BY <2>1, <4>1, <4>2
      <3> QED
        BY <3>4, <3>5
    <2> HIDE DEF All
    <2> QED
      BY <2>1, <2>2 DEF d
  <1> HIDE DEF S
  <1>5. 0..MaxFetchDepth \subseteq S
    BY <1>1, <1>3, <1>4, BoundedInduction
  <1>6. MaxFetchDepth - e \in 0..MaxFetchDepth /\ MaxFetchDepth - (MaxFetchDepth - e) = e
    BY <1>1
  <1> HIDE DEF All
  <1>7. Good(MaxFetchDepth - e)
    BY <1>5, <1>6 DEF S
  <1> QED
    BY <1>6, <1>7 DEF All

\* Each shown row can be come to from the menubar, through rows.
LEMMA ShownAreItems ==
    ASSUME NEW f, Fetches(f, {}), NEW bar \in Nodes,
           NEW level \in [0..MaxFetchDepth -> NodeSets], level[0] = {bar},
           \A d \in 1..MaxFetchDepth : level[d] = Children(level[d - 1]),
           NEW u, u[0] = {f[MaxFetchDepth][bar]},
           \A d \in 1..MaxFetchDepth : u[d] = WithRows(u[d - 1]),
           NEW e \in 0..MaxFetchDepth, NEW y \in level[e], ~Hidden(level, e, y)
    PROVE  f[MaxFetchDepth - e][y] \in u[e]
  <1>1. MaxFetchDepth \in Nat
    BY TreeAssumption
  <1>2. \A d \in 0..MaxFetchDepth : level[d] \subseteq Nodes
    BY DEF NodeSets
  <1>3. ASSUME NEW d \in 0..(MaxFetchDepth - 1)
        PROVE  /\ u[d] \subseteq u[d + 1]
               /\ \A t \in u[d] : \A i \in DOMAIN t.rows : t.rows[i] \in u[d + 1]
    <2>1. d + 1 \in 1..MaxFetchDepth /\ d + 1 - 1 = d
      BY <1>1
    <2>2. u[d + 1] = WithRows(u[d])
      BY <2>1
    <2> QED
      BY <2>2 DEF WithRows, Range
  <1> DEFINE Tree(d, x) == f[MaxFetchDepth - d][x]
             Good(d) == \A x \in level[d] :
                           /\ ~Hidden(level, d, x) => Tree(d, x) \in u[d]
                           /\ d < MaxFetchDepth =>
                                 \A i \in DOMAIN Tree(d, x).rows : Tree(d, x).rows[i] \in u[d + 1]
             S == {d \in 0..MaxFetchDepth : Good(d)}
  <1>4. 0 \in S
    <2>1. Tree(0, bar) \in u[0] /\ 0 \in 0..MaxFetchDepth
      BY <1>1
    <2>2. 0 < MaxFetchDepth =>
             \A i \in DOMAIN Tree(0, bar).rows : Tree(0, bar).rows[i] \in u[0 + 1]
      <3> HIDE DEF Tree
      <3>1. 0 < MaxFetchDepth => 0 \in 0..(MaxFetchDepth - 1)
        BY <1>1
      <3> QED
        BY <1>3, <2>1, <3>1
    <2> HIDE DEF Tree
    <2> QED
      BY <2>1, <2>2
  <1>5. ASSUME NEW d \in 0..(MaxFetchDepth - 1), d \in S
        PROVE  d + 1 \in S
    <2> DEFINE left == MaxFetchDepth - d
    <2>1. /\ d + 1 \in 1..MaxFetchDepth /\ d + 1 - 1 = d /\ d \in 0..MaxFetchDepth
          /\ d + 1 \in 0..MaxFetchDepth /\ d < MaxFetchDepth
          /\ left \in 1..MaxFetchDepth /\ left - 1 = MaxFetchDepth - (d + 1)
          /\ left - 1 \in 0..MaxFetchDepth
          /\ (left - 1 # 0 => d + 1 \in 1..(MaxFetchDepth - 1))
          /\ (d + 1 < MaxFetchDepth => d + 1 \in 0..(MaxFetchDepth - 1))
      BY <1>1
    <2>2. \A x : Tree(d, x) = f[left][x] /\ Tree(d + 1, x) = f[left - 1][x]
      BY <2>1
    <2> HIDE DEF left, Tree
    <2>3. ASSUME NEW x \in level[d + 1]
          PROVE  /\ ~Hidden(level, d + 1, x) => f[left - 1][x] \in u[d + 1]
                 /\ d + 1 < MaxFetchDepth =>
                       \A i \in DOMAIN f[left - 1][x].rows : f[left - 1][x].rows[i] \in u[d + 1 + 1]
      <3>1. PICK p \in level[d] : x \in Range(Kids[p])
        BY <2>1, <2>3 DEF Children
      <3>2. PICK i \in DOMAIN Kids[p] : Kids[p][i] = x
        BY <3>1 DEF Range
      <3>3. p \in Nodes /\ x \in Nodes
        BY <1>2, <2>1, <2>3
      <3>4. Len(Kids[p]) \in Nat /\ DOMAIN Kids[p] = 1..Len(Kids[p]) /\ Kids[p] \in Seq(Nodes)
        BY <3>3, KidsFacts
      <3>5. \A j \in DOMAIN RowsAt(f, left, p) : RowsAt(f, left, p)[j] \in u[d + 1]
        BY <1>5, <2>1, <2>2 DEF RowsAt
      <3>6. CASE Wraps(f, left, p)
        <4>1. RowsAt(f, left, p) = RowsAt(f, left - 1, Kids[p][1])
          BY <2>1, <3>3, <3>6, WrappedRows
        <4>2. Len(Kids[p]) = 1 /\ x = Kids[p][1] /\ x \notin Named /\ f[left - 1][x].rows # <<>>
          BY <3>2, <3>4, <3>6 DEF Wraps
        <4>3. Kids[p] = <<x>>
          BY <3>4, <4>2
        <4>4. left - 1 # 0 /\ Kids[x] # <<>>
          BY <2>1, <3>3, <4>2, HasRows
        <4>5. Hidden(level, d + 1, x)
          <5>1. p \in level[d + 1 - 1]
            BY <2>1, <3>1
          <5>2. \E q \in level[d + 1 - 1] : Kids[q] = <<x>>
            BY <4>3, <5>1
          <5>3. d + 1 \in 1..(MaxFetchDepth - 1)
            BY <2>1, <4>4
          <5> QED
            BY <4>2, <4>4, <5>2, <5>3 DEF Hidden
        <4>6. \A j \in DOMAIN f[left - 1][x].rows : f[left - 1][x].rows[j] \in u[d + 1]
          BY <3>5, <4>1, <4>2 DEF RowsAt
        <4>7. d + 1 < MaxFetchDepth => u[d + 1] \subseteq u[d + 1 + 1]
          BY <1>3, <2>1
        <4> QED
          BY <4>5, <4>6, <4>7
      <3>7. CASE ~Wraps(f, left, p)
        <4>1. f[left][p].rows = [j \in DOMAIN Kids[p] |-> f[left - 1][Kids[p][j]]]
          BY <2>1, <3>3, <3>7, RowsOfFacts
        <4>2. i \in DOMAIN RowsAt(f, left, p) /\ RowsAt(f, left, p)[i] = f[left - 1][x]
          BY <3>2, <4>1 DEF RowsAt
        <4>3. f[left - 1][x] \in u[d + 1]
          BY <3>5, <4>2
        <4>4. d + 1 < MaxFetchDepth =>
                 \A j \in DOMAIN f[left - 1][x].rows : f[left - 1][x].rows[j] \in u[d + 1 + 1]
          BY <1>3, <2>1, <4>3
        <4> QED
          BY <4>3, <4>4
      <3> QED
        BY <3>6, <3>7
    <2> QED
      BY <2>1, <2>2, <2>3
  <1> HIDE DEF S
  <1>6. 0..MaxFetchDepth \subseteq S
    BY <1>1, <1>4, <1>5, BoundedInduction
  <1>7. Good(e)
    BY <1>6 DEF S
  <1> QED
    BY <1>7

\* The two sets that RowsBelow subtracts, of the levels below a menubar.
Reached(level) == UNION {level[d] : d \in 0..MaxFetchDepth}

Dropped(level) ==
    UNION {{n \in level[d] \ Named :
               Kids[n] # <<>> /\ \E p \in level[d - 1] : Kids[p] = <<n>>} :
           d \in 1..(MaxFetchDepth - 1)}

\* When no read fails, the tree of a menubar has what is below it, without the
\* nameless popups, and shows no such popup that hides the rest.
LEMMA FetchIsComplete ==
    ASSUME NEW depth \in [Nodes -> Nat], IsForest(depth), NEW bar \in Nodes
    PROVE  /\ WrapperFree(FetchMenuTree(bar, {}), {})
           /\ {item.node : item \in ItemsOf(FetchMenuTree(bar, {}))} = RowsBelow(bar)
  <1>1. PICK f : Fetches(f, {})
    BY FetchSteps
  <1> DEFINE F == MaxFetchDepth
             level == LevelsBelow(bar, F)
             tree == FetchMenuTree(bar, {})
  <1>2. /\ F \in Nat /\ level \in [0..F -> NodeSets] /\ level[0] = {bar}
        /\ \A d \in 1..F : level[d] = Children(level[d - 1])
    BY TreeAssumption, LevelSteps
  <1>3. \A x : x \in RowsBelow(bar) <=>
                 /\ \E d \in 0..F : x \in level[d]
                 /\ \A d \in 1..(F - 1) : x \in level[d] => ~Hidden(level, d, x)
    <2>1. RowsBelow(bar) = Reached(level) \ Dropped(level)
      BY DEF RowsBelow, Reached, Dropped
    <2> HIDE DEF level
    <2>2. \A x : x \in Reached(level) <=> \E d \in 0..F : x \in level[d]
      BY DEF Reached
    <2>3. \A x : x \in Dropped(level) <=>
                   \E d \in 1..(F - 1) : x \in level[d] /\ Hidden(level, d, x)
      BY DEF Dropped, Hidden
    <2> QED
      BY <2>1, <2>2, <2>3
  <1>4. \A d \in 0..F : \A x \in level[d] : x \in Nodes /\ depth[x] = depth[bar] + d
    <2>1. \A d \in 0..F : level[d] \subseteq Nodes
      <3> HIDE DEF level
      <3> QED
        BY <1>2 DEF NodeSets
    <2> QED
      BY <2>1, LevelDepth
  <1> HIDE DEF level
  <1>5. tree = f[F][bar]
    BY <1>1 DEF Fetches
  <1>6. \A d \in 0..F : F - d \in 0..F
    BY <1>2
  <1>7. \A d \in 0..F : \A x \in level[d] : f[F - d][x].node = x /\ f[F - d][x] \in Made(f)
    <2> SUFFICES ASSUME NEW d \in 0..F, NEW x \in level[d]
                 PROVE  f[F - d][x].node = x /\ f[F - d][x] \in Made(f)
      OBVIOUS
    <2>1. x \in Nodes /\ F - d \in 0..F
      BY <1>4, <1>6
    <2> QED
      BY <1>1, <2>1, MadeFacts DEF Made
  <1>8. \A t \in Shown(f, level) : \A i \in DOMAIN t.rows : t.rows[i] \in Shown(f, level)
    <2> SUFFICES ASSUME NEW t \in Shown(f, level)
                 PROVE  \A i \in DOMAIN t.rows : t.rows[i] \in Shown(f, level)
      OBVIOUS
    <2>1. PICK d \in 0..F : \E x \in level[d] : t = f[F - d][x]
      BY DEF Shown
    <2>2. PICK x \in level[d] : t = f[F - d][x]
      BY <2>1
    <2> QED
      BY <1>1, <1>2, <2>2, RowsAreShown
  <1>9. tree \in Shown(f, level)
    <2>1. 0 \in 0..F /\ bar \in level[0] /\ F - 0 = F
      BY <1>2
    <2>2. ~Hidden(level, 0, bar)
      BY DEF Hidden
    <2>3. tree \in Made(f)
      BY <1>5, <1>7, <2>1
    <2> QED
      BY <1>5, <2>1, <2>2, <2>3 DEF Shown
  <1>10. PICK u \in [0..F -> SUBSET Shown(f, level)] :
              /\ u[0] = {tree} /\ ItemsOf(tree) = u[F]
              /\ \A d \in 1..F : u[d] = WithRows(u[d - 1])
              /\ \A d \in 0..F : u[d] \subseteq u[F]
    <2> HIDE DEF tree
    <2> QED
      BY <1>8, <1>9, ItemsSteps
  <1>11. ItemsOf(tree) \subseteq Shown(f, level)
    BY <1>2, <1>10
  <1>12. WrapperFree(tree, {})
    <2>1. \A t \in Made(f) : ~WrapsRows(t, {})
      BY <1>1, NoWrapper DEF Made
    <2> QED
      BY <1>11, <2>1 DEF WrapperFree, Shown
  <1>13. ASSUME NEW item \in ItemsOf(tree)
         PROVE  item.node \in RowsBelow(bar)
    <2>1. PICK d \in 0..F : \E x \in level[d] : ~Hidden(level, d, x) /\ item = f[F - d][x]
      BY <1>11 DEF Shown
    <2>2. PICK x \in level[d] : ~Hidden(level, d, x) /\ item = f[F - d][x]
      BY <2>1
    <2>3. item.node = x
      BY <1>7, <2>2
    <2>4. ASSUME NEW e \in 1..(F - 1), x \in level[e]
          PROVE  e = d
      <3>1. depth[bar] \in Nat /\ e \in 0..F
        BY <1>2
      <3>2. depth[bar] + e = depth[bar] + d
        BY <1>4, <2>2, <2>4, <3>1
      <3> QED
        BY <1>2, <3>1, <3>2
    <2> QED
      BY <1>3, <2>2, <2>3, <2>4
  <1>14. ASSUME NEW x \in RowsBelow(bar)
         PROVE  \E item \in ItemsOf(tree) : item.node = x
    <2>1. PICK d \in 0..F : x \in level[d]
      BY <1>3
    <2>2. ~Hidden(level, d, x)
      <3>1. Hidden(level, d, x) => d \in 1..(F - 1)
        BY DEF Hidden
      <3> QED
        BY <1>3, <2>1, <3>1
    <2>3. u[0] = {f[F][bar]}
      BY <1>5, <1>10
    <2>4. f[F - d][x] \in u[d]
      BY <1>1, <1>2, <1>10, <2>1, <2>2, <2>3, ShownAreItems
    <2>5. f[F - d][x] \in ItemsOf(tree)
      BY <1>10, <2>4
    <2> QED
      BY <1>7, <2>1, <2>5
  <1> HIDE DEF tree
  <1>15. {item.node : item \in ItemsOf(tree)} = RowsBelow(bar)
    BY <1>13, <1>14
  <1> QED
    BY <1>12, <1>15 DEF tree

----------------------------------------------------------------------------
(* The candidates that are still ahead                                     *)

\* The first element of a list, and those after it.
LEMMA HeadAndTail ==
    ASSUME NEW S, NEW s \in Seq(S), s # <<>>
    PROVE  /\ Head(s) \in S /\ Head(s) \in Range(s)
           /\ Range(Tail(s)) \subseteq Range(s)
           /\ Range(s) \subseteq {Head(s)} \cup Range(Tail(s))
  <1>1. Len(s) \in Nat \ {0}
    BY EmptySeq
  <1>2. /\ Head(s) \in S /\ Tail(s) \in Seq(S) /\ Len(Tail(s)) = Len(s) - 1
        /\ \A j \in 1..Len(Tail(s)) : Tail(s)[j] = s[j + 1]
    BY HeadTailProperties
  <1>3. Head(s) = s[1]
    BY <1>1
  <1>4. Range(s) = {s[j] : j \in 1..Len(s)}
    BY RangeOfList
  <1>5. Range(Tail(s)) = {Tail(s)[j] : j \in 1..Len(Tail(s))}
    BY <1>2, RangeOfList
  <1>6. \A j \in 1..Len(s) : j = 1 \/ (j - 1 \in 1..Len(Tail(s)) /\ s[j] = Tail(s)[j - 1])
    BY <1>1, <1>2
  <1>7. \A j \in 1..Len(Tail(s)) : j + 1 \in 1..Len(s)
    BY <1>1, <1>2
  <1>8. Head(s) \in Range(s)
    BY <1>1, <1>3, <1>4
  <1>9. Range(Tail(s)) \subseteq Range(s)
    BY <1>2, <1>4, <1>5, <1>7
  <1>10. Range(s) \subseteq {Head(s)} \cup Range(Tail(s))
    BY <1>3, <1>4, <1>5, <1>6
  <1> QED
    BY <1>2, <1>8, <1>9, <1>10

\* The rest of a list, and what is left when its first element is done.
LEMMA RestFacts ==
    ASSUME NEW S, NEW c \in Seq(S), NEW i \in 0..Len(c), NEW s, s = SubSeq(c, i + 1, Len(c))
    PROVE  /\ s \in Seq(S)
           /\ s # <<>> => i + 1 \in 0..Len(c) /\ Tail(s) = SubSeq(c, i + 1 + 1, Len(c))
  <1>1. Len(c) \in Nat /\ \A j \in 1..Len(c) : c[j] \in S
    BY LenProperties, ElementOfSeq
  <1>2. /\ s \in Seq(S)
        /\ Len(s) = IF i + 1 <= Len(c) THEN Len(c) - (i + 1) + 1 ELSE 0
    BY <1>1, SubSeqProperties
  <1>3. ASSUME s # <<>>
        PROVE  i + 1 \in 0..Len(c) /\ Tail(s) = SubSeq(c, i + 1 + 1, Len(c))
    <2>1. Len(s) \in Nat \ {0}
      BY <1>2, <1>3, EmptySeq
    <2>2. i + 1 \in 1..Len(c) /\ Len(c) \in (i + 1)..Len(c)
      BY <1>1, <1>2, <2>1
    <2> QED
      BY <2>2, HeadTailOfSubSeq
  <1> QED
    BY <1>2, <1>3

\* A whole list is its rest, before any of it is done.
LEMMA WholeIsRest ==
    ASSUME NEW S, NEW c \in Seq(S)
    PROVE  0 \in 0..Len(c) /\ c = SubSeq(c, 0 + 1, Len(c))
  <1>1. Len(c) \in Nat
    BY LenProperties
  <1> QED
    BY <1>1, SubSeqFull

----------------------------------------------------------------------------
(* The steps of the walk                                                   *)

\* The types of what the applications have and show.
EnvTypes ==
    /\ open \in [Apps -> Seq(Windows)]
    /\ \A a \in Apps : IsInjective(open[a]) /\ \A w \in Range(open[a]) : AppOf[w] = a
    /\ title \in [Windows -> Titles] /\ active \subseteq Marks
    /\ focus \in [win : Windows, foreign : BOOLEAN, title : Titles \cup {NoTitle}]

\* The types of the locals of find_app_for_pid.
LocalTypes ==
    /\ cands \in Seq(Apps) /\ \E i \in 0..Len(cands) : rest = SubSeq(cands, i + 1, Len(cands))
    /\ frames \in Seq([win : Windows \cup Apps, name : Titles \cup {NoTitle}])
    /\ count \in 0..Cardinality(Windows) /\ at \in 0..(count + 1) /\ Len(frames) <= count

\* What a walk has to return.
MenuType(m) == m = {} \/ \E t \in m : m = {t} /\ IsTree(t)

\* TypeOK, in these parts.
LEMMA TypeParts ==
    TypeOK <=> /\ EnvTypes /\ LocalTypes
               /\ pc \in {"idle", "registry", "count", "list", "tiebreak", "state", "find",
                          "fetch", "done"}
               /\ root \in Nodes \cup Apps
               /\ MenuType(menu)
               /\ seen \in [quiet : BOOLEAN, heard : BOOLEAN, crowded : BOOLEAN]
  BY DEF TypeOK, EnvTypes, LocalTypes, MenuType

\* The focused application and its windows.
LEMMA AppFacts ==
    ASSUME EnvTypes
    PROVE  /\ App \in Apps /\ focus.win \in Windows /\ focus.foreign \in BOOLEAN
           /\ AppOf \in [Windows -> Apps] /\ Windows \subseteq Nodes
           /\ Windows \cap Apps = {} /\ Nodes \cap Apps = {}
           /\ \A a \in Apps :
                 /\ open[a] \in Seq(Windows) /\ Len(open[a]) \in 0..Cardinality(Windows)
                 /\ DOMAIN open[a] = 1..Len(open[a])
                 /\ \A i \in 1..Len(open[a]) : open[a][i] \in Windows /\ AppOf[open[a][i]] = a
           /\ Cardinality(Windows) \in Nat \ {0}
  <1>1. /\ App \in Apps /\ focus.win \in Windows /\ focus.foreign \in BOOLEAN
        /\ AppOf \in [Windows -> Apps] /\ Windows \subseteq Nodes
        /\ Windows \cap Apps = {} /\ Nodes \cap Apps = {}
    BY WindowAssumption DEF EnvTypes, App
  <1>2. IsFiniteSet(Windows)
    BY WindowAssumption
  <1>3. ASSUME NEW a \in Apps
        PROVE  /\ open[a] \in Seq(Windows) /\ Len(open[a]) \in 0..Cardinality(Windows)
               /\ DOMAIN open[a] = 1..Len(open[a])
               /\ \A i \in 1..Len(open[a]) : open[a][i] \in Windows /\ AppOf[open[a][i]] = a
    <2>1. open[a] \in Seq(Windows) /\ IsInjective(open[a])
      BY DEF EnvTypes
    <2>2. Len(open[a]) \in 0..Cardinality(Windows)
      BY <1>2, <2>1, InjectiveLength
    <2>3. /\ DOMAIN open[a] = 1..Len(open[a]) /\ Range(open[a]) = {open[a][i] : i \in 1..Len(open[a])}
          /\ \A i \in 1..Len(open[a]) : open[a][i] \in Windows
      BY <2>1, RangeOfList
    <2> QED
      BY <2>1, <2>2, <2>3 DEF EnvTypes
  <1>4. Cardinality(Windows) \in Nat \ {0}
    BY <1>1, <1>2, FS_CardinalityType, FS_EmptySet
  <1> QED
    BY <1>1, <1>3, <1>4

\* What a read may do to the history: note that it failed, or nothing.
Noted ==
    /\ seen' \in [quiet : BOOLEAN, heard : BOOLEAN, crowded : BOOLEAN]
    /\ seen'.quiet => seen'.heard
    /\ seen'.crowded => seen.crowded
    /\ seen'.heard => seen' = seen

\* A read that went well or failed leaves a history that is right.
LEMMA NotedFacts ==
    ASSUME TypeOK, Phases, Heard \/ Failed
    PROVE  Noted
  <1>0. seen \in [quiet : BOOLEAN, heard : BOOLEAN, crowded : BOOLEAN] /\ (seen.quiet => seen.heard)
    BY DEF TypeOK, Phases
  <1>1. CASE Heard
    BY <1>0, <1>1 DEF Heard, Noted
  <1>2. CASE Failed
    <2>1. /\ seen'.quiet = FALSE /\ seen'.heard = FALSE /\ seen'.crowded = seen.crowded
          /\ seen' \in [quiet : BOOLEAN, heard : BOOLEAN, crowded : BOOLEAN]
      BY <1>0, <1>2 DEF Failed
    <2> QED
      BY <2>1 DEF Noted
  <1> QED
    BY <1>1, <1>2

\* A step of the walk itself.
Walks == UNCHANGED <<envVars, focus>> /\ Noted

\* It leaves alone what the applications have, and keeps the history right.
LEMMA WalksKeeps ==
    ASSUME IInv, Walks
    PROVE  /\ EnvTypes /\ EnvTypes' /\ App' = App
           /\ seen' \in [quiet : BOOLEAN, heard : BOOLEAN, crowded : BOOLEAN]
           /\ seen'.quiet => seen'.heard
           /\ seen'.crowded => Len(open'[App']) > 1
  <1>1. EnvTypes
    BY TypeParts DEF IInv
  <1>2. EnvTypes' /\ App' = App
    BY <1>1 DEF Walks, envVars, EnvTypes, App
  <1>3. seen.crowded => Len(open[App]) > 1
    BY DEF IInv, Phases
  <1> QED
    BY <1>1, <1>2, <1>3 DEF Walks, Noted, envVars

\* The same of the next state.
LEMMA TypePartsNext ==
    TypeOK' <=> /\ EnvTypes' /\ LocalTypes'
                /\ pc' \in {"idle", "registry", "count", "list", "tiebreak", "state", "find",
                            "fetch", "done"}
                /\ root' \in Nodes \cup Apps
                /\ MenuType(menu')
                /\ seen' \in [quiet : BOOLEAN, heard : BOOLEAN, crowded : BOOLEAN]
  BY DEF TypeOK, EnvTypes, LocalTypes, MenuType

\* With one list of candidates that is all ahead.
LEMMA CandidatesTypes ==
    ASSUME NEW c \in Seq(Apps), cands' = c, rest' = c, frames' = <<>>,
           count' \in 0..Cardinality(Windows), at' \in 0..(count' + 1)
    PROVE  LocalTypes'
  <1>1. /\ Len(<<>>) = 0
        /\ <<>> \in Seq([win : Windows \cup Apps, name : Titles \cup {NoTitle}])
    BY EmptySeq
  <1>2. 0 \in 0..Len(c) /\ c = SubSeq(c, 0 + 1, Len(c))
    BY WholeIsRest
  <1>3. \E i \in 0..Len(cands') : rest' = SubSeq(cands', i + 1, Len(cands'))
    BY <1>2
  <1>4. Len(frames') <= count'
    BY <1>1
  <1> QED
    BY <1>1, <1>3, <1>4 DEF LocalTypes

\* Without locals.
LEMMA NoLocalsTypes ==
    ASSUME NoLocals
    PROVE  LocalTypes'
  <1>1. <<>> \in Seq(Apps)
    BY EmptySeq
  <1>2. Cardinality(Windows) \in Nat
    BY WindowAssumption, FS_CardinalityType
  <1>3. /\ cands' = <<>> /\ rest' = <<>> /\ frames' = <<>>
        /\ count' \in 0..Cardinality(Windows) /\ at' \in 0..(count' + 1)
    BY <1>2 DEF NoLocals
  <1> QED
    BY <1>1, <1>3, CandidatesTypes

\* The application of a root.
LEMMA RootFacts ==
    /\ \A r \in Apps : root' = r => AppOfRoot' = r
    /\ \A w \in Windows : root' \in Below(w) \cup {w} => AppOfRoot' = AppOf[w]
  <1>1. \A w \in Windows : w \in Below(w) /\ Below(w) \subseteq Nodes /\ Nodes \cap Apps = {}
    BY BelowItself, WindowAssumption
  <1>2. \A w \in Windows : root' \in Below(w) => AppOfRoot' = AppOf[w]
    BY <1>1, WindowOfBelow DEF AppOfRoot
  <1> QED
    BY <1>1, <1>2 DEF AppOfRoot

\* A step of the walk keeps the invariant if it goes on to search a root that
\* resembles the focused application, and does not guess.
LEMMA LooksInKeeps ==
    ASSUME IInv, Walks, NEW r, LooksIn(r),
           \/ r \in Apps \cap ({App} \cup Resembling[App])
           \/ \E w \in Windows : r \in Frame(w) /\ AppOf[w] \in {App} \cup Resembling[App],
           seen.heard /\ seen.crowded /\ ~focus.foreign /\ App \notin Nested \cup Marks
              => r \notin Apps
    PROVE  IInv'
  <1>1. /\ EnvTypes /\ EnvTypes' /\ App' = App
        /\ seen' \in [quiet : BOOLEAN, heard : BOOLEAN, crowded : BOOLEAN]
        /\ seen'.quiet => seen'.heard
        /\ seen'.crowded => Len(open'[App']) > 1
    BY WalksKeeps
  <1>2. pc' = "find" /\ root' = r /\ menu' = menu /\ focus' = focus /\ NoLocals
    BY DEF LooksIn, Walks
  <1>3. frames' = <<>>
    BY <1>2 DEF NoLocals
  <1>4. /\ r \in Apps \/ \E w \in Windows : r \in Frame(w)
        /\ \A w \in Windows : w \in Nodes
    BY <1>1, AppFacts
  <1>5. \A w \in Windows : r \in Frame(w) => r \in Nodes /\ r \in Below(w)
    BY <1>4, FrameFacts
  <1>6. TypeOK'
    <2>1. MenuType(menu')
      BY <1>2, TypeParts DEF IInv
    <2>2. root' \in Nodes \cup Apps
      BY <1>2, <1>4, <1>5
    <2> QED
      BY <1>1, <1>2, <2>1, <2>2, NoLocalsTypes, TypePartsNext
  <1>7. Phases'
    BY <1>1, <1>2, <1>3, <1>4 DEF Phases
  <1>8. FramesOfApp'
    BY <1>2 DEF FramesOfApp
  <1>9. RootResembles'
    BY <1>1, <1>2, <1>5, RootFacts DEF RootResembles
  <1>10. NeverGuesses'
    BY <1>1, <1>2 DEF NeverGuesses, Walks, Noted
  <1>11. MenuOfResemblingApp'
    BY <1>1, <1>2 DEF IInv, MenuOfResemblingApp
  <1> QED
    BY <1>6, <1>7, <1>8, <1>9, <1>10, <1>11 DEF IInv

\* It keeps the invariant if it ends the walk with a menu of such an application.
LEMMA ReturnsKeeps ==
    ASSUME IInv, Walks, NEW m, MenuType(m), Returns(m),
           \A t \in m : AppOf[WindowOf(t.node)] \in {App} \cup Resembling[App]
    PROVE  IInv'
  <1>1. /\ EnvTypes /\ EnvTypes' /\ App' = App
        /\ seen' \in [quiet : BOOLEAN, heard : BOOLEAN, crowded : BOOLEAN]
        /\ seen'.quiet => seen'.heard
        /\ seen'.crowded => Len(open'[App']) > 1
    BY WalksKeeps
  <1>2. pc' = "done" /\ root' = App /\ menu' = m /\ NoLocals
    BY DEF Returns
  <1>3. frames' = <<>>
    BY <1>2 DEF NoLocals
  <1>4. TypeOK'
    BY <1>1, <1>2, AppFacts, NoLocalsTypes, TypePartsNext
  <1>5. Phases'
    BY <1>1, <1>2, <1>3 DEF Phases
  <1>6. FramesOfApp' /\ RootResembles' /\ NeverGuesses'
    BY <1>2 DEF FramesOfApp, RootResembles, NeverGuesses
  <1>7. MenuOfResemblingApp'
    BY <1>1, <1>2 DEF MenuOfResemblingApp
  <1> QED
    BY <1>4, <1>5, <1>6, <1>7 DEF IInv

\* It keeps the invariant if it goes on choosing a root.
LEMMA StaysKeeps ==
    ASSUME IInv, Walks, UNCHANGED <<root, menu>>, LocalTypes', FramesOfApp',
           pc' \in {"count", "list", "tiebreak", "state"},
           pc' \in {"count", "list", "tiebreak"} => ~focus.foreign,
           pc' = "state" /\ ~focus.foreign => ~seen'.heard,
           pc' = "tiebreak" => Range(rest') \subseteq {App},
           pc' # "list" => frames' = <<>>
    PROVE  IInv'
  <1>1. /\ EnvTypes /\ EnvTypes' /\ App' = App
        /\ seen' \in [quiet : BOOLEAN, heard : BOOLEAN, crowded : BOOLEAN]
        /\ seen'.quiet => seen'.heard
        /\ seen'.crowded => Len(open'[App']) > 1
    BY WalksKeeps
  <1>2. focus' = focus
    BY DEF Walks
  <1>3. TypeOK'
    <2>1. MenuType(menu') /\ root' \in Nodes \cup Apps
      BY TypeParts DEF IInv
    <2> QED
      BY <1>1, <2>1, TypePartsNext
  <1>4. Phases'
    BY <1>1, <1>2 DEF Phases
  <1>5. RootResembles' /\ NeverGuesses'
    BY DEF RootResembles, NeverGuesses
  <1>6. MenuOfResemblingApp'
    BY <1>1 DEF IInv, MenuOfResemblingApp
  <1> QED
    BY <1>3, <1>4, <1>5, <1>6 DEF IInv

\* The children of the root of the focused application.
LEMMA TopFacts ==
    ASSUME EnvTypes
    PROVE  /\ Len(TopLevel(App)) \in 0..Cardinality(Windows)
           /\ DOMAIN TopLevel(App) = 1..Len(TopLevel(App))
           /\ App \in Nested =>
                 Len(TopLevel(App)) = 1 /\ \A i \in 1..Len(TopLevel(App)) : TopLevel(App)[i] = App
           /\ App \notin Nested =>
                 /\ TopLevel(App) = open[App]
                 /\ \A i \in 1..Len(TopLevel(App)) :
                       TopLevel(App)[i] \in Windows /\ AppOf[TopLevel(App)[i]] = App
  <1>1. App \in Apps /\ Cardinality(Windows) \in Nat \ {0}
    BY AppFacts
  <1>2. CASE App \in Nested
    <2>1. TopLevel(App) = <<App>>
      BY <1>2 DEF TopLevel
    <2> QED
      BY <1>1, <1>2, <2>1
  <1>3. CASE App \notin Nested
    BY <1>1, <1>3, AppFacts DEF TopLevel
  <1> QED
    BY <1>2, <1>3

\* Each step of the walk keeps the invariant: pass 1,
LEMMA ReadRegistryKeeps ==
    ASSUME IInv, ReadRegistry
    PROVE  IInv'
  <1>1. Walks
    BY NotedFacts DEF IInv, ReadRegistry, Walks
  <1>2. UNCHANGED <<root, menu, frames, at, count>>
    BY DEF ReadRegistry
  <1>3. LocalTypes /\ frames = <<>>
    BY TypeParts DEF IInv, Phases, ReadRegistry
  <1>4. ASSUME NEW answering \in Seq(Apps), PassOne(answering),
               ~seen'.heard \/ answering = Registry
        PROVE  IInv'
    <2>1. CASE pc' = "count"
      <3>1. ~focus.foreign /\ UNCHANGED <<cands, rest>>
        BY <1>4, <2>1 DEF PassOne
      <3>2. LocalTypes'
        BY <1>2, <1>3, <3>1 DEF LocalTypes
      <3>3. FramesOfApp'
        BY <2>1 DEF FramesOfApp
      <3> QED
        BY <1>1, <1>2, <1>3, <2>1, <3>1, <3>2, <3>3, StaysKeeps
    <2>2. CASE pc' # "count"
      <3>1. /\ pc' = "state" /\ cands' = answering /\ rest' = answering
            /\ focus.foreign \/ App \notin Range(answering)
        BY <1>4, <2>2 DEF PassOne
      <3>2. LocalTypes'
        <4>1. count' \in 0..Cardinality(Windows) /\ at' \in 0..(count' + 1) /\ frames' = <<>>
          BY <1>2, <1>3 DEF LocalTypes
        <4> QED
          BY <3>1, <4>1, CandidatesTypes
      <3>3. FramesOfApp'
        BY <3>1 DEF FramesOfApp
      <3>4. ~focus.foreign => ~seen'.heard
        <4>1. App \in Apps /\ Range(Registry) = Apps
          BY AppFacts, TypeParts, WindowAssumption DEF IInv
        <4> QED
          BY <1>4, <3>1, <4>1
      <3> QED
        BY <1>1, <1>2, <1>3, <3>1, <3>2, <3>3, <3>4, StaysKeeps
    <2> QED
      BY <2>1, <2>2
  <1>5. Registry \in Seq(Apps) /\ DOMAIN Registry = 1..Len(Registry)
    BY WindowAssumption, LenProperties
  <1>6. CASE Heard /\ PassOne(Registry)
    BY <1>4, <1>5, <1>6
  <1>7. ASSUME NEW i \in DOMAIN Registry, Failed, PassOne(RemoveAt(Registry, i))
        PROVE  IInv'
    <2>1. RemoveAt(Registry, i) \in Seq(Apps)
      BY <1>5, RemoveAtFacts
    <2>2. ~seen'.heard
      BY <1>7 DEF Failed, IInv, TypeOK
    <2> QED
      BY <1>4, <1>7, <2>1, <2>2
  <1> QED
    BY <1>6, <1>7 DEF ReadRegistry

\* reading the number of frames,
LEMMA CountFramesKeeps ==
    ASSUME IInv, CountFrames
    PROVE  IInv'
  <1>1. Walks
    BY NotedFacts DEF IInv, CountFrames, Walks
  <1>2. /\ UNCHANGED <<root, menu, cands, rest, frames>> /\ at' = 1 /\ pc' = "list"
        /\ ~focus.foreign /\ frames = <<>>
    BY DEF CountFrames, IInv, Phases
  <1>3. EnvTypes /\ App' = App /\ LocalTypes /\ Cardinality(Windows) \in Nat \ {0}
    BY <1>1, WalksKeeps, TypeParts, AppFacts DEF IInv
  <1>4. count' \in 0..Cardinality(Windows) /\ (App \in Nested => count' <= 1)
    BY <1>3, TopFacts DEF CountFrames
  <1>5. LocalTypes'
    <2>0. Len(frames') = 0
      BY <1>2
    <2>1. count' \in Nat /\ at' = 1
      BY <1>2, <1>3, <1>4
    <2>2. at' \in 0..(count' + 1)
      <3>1. \A n \in Nat : 1 \in 0..(n + 1)
        OBVIOUS
      <3> QED
        BY <2>1, <3>1
    <2>3. Len(frames') <= count'
      BY <2>0, <2>1
    <2> QED
      BY <1>2, <1>3, <1>4, <2>2, <2>3 DEF LocalTypes
  <1>6. seen'.heard /\ seen'.crowded /\ App \notin Nested => count' > 1
    <2>1. seen'.heard => Heard
      BY DEF CountFrames, Failed, IInv, TypeOK
    <2>2. seen.crowded => Len(open[App]) > 1
      BY DEF IInv, Phases
    <2>3. Heard => count' = Len(TopLevel(App)) \/ seen'.heard = FALSE
      BY DEF CountFrames, Failed, IInv, TypeOK
    <2> QED
      BY <1>3, <2>1, <2>2, <2>3, TopFacts DEF Heard
  <1>7. FramesOfApp'
    BY <1>2, <1>3, <1>4, <1>6 DEF FramesOfApp
  <1> QED
    BY <1>1, <1>2, <1>5, <1>7, StaysKeeps

\* reading the next frame: the only step that makes frames longer,
LEMMA ReadFrameKeeps ==
    ASSUME IInv, ReadFrame
    PROVE  IInv'
  <1>1. Walks
    BY NotedFacts DEF IInv, ReadFrame, Walks
  <1>2. /\ UNCHANGED <<root, menu, cands, rest, count>> /\ at' = at + 1
        /\ pc = "list" /\ pc' = "list" /\ at <= count /\ ~focus.foreign
    BY DEF ReadFrame, IInv, Phases
  <1>3. EnvTypes /\ App' = App /\ LocalTypes
    BY <1>1, WalksKeeps, TypeParts DEF IInv
  <1>4. /\ at \in Nat /\ at >= 1 /\ Len(frames) \in Nat /\ Len(frames) < at
        /\ count \in 0..Cardinality(Windows) /\ Cardinality(Windows) \in Nat
        /\ frames \in Seq([win : Windows \cup Apps, name : Titles \cup {NoTitle}])
        /\ DOMAIN frames = 1..Len(frames)
    BY <1>2, <1>3, AppFacts, LenProperties DEF IInv, FramesOfApp, LocalTypes
  <1> DEFINE Of(f) == f.win = App \/ (f.win \in Windows /\ AppOf[f.win] = App)
             InTime(n, i) == n >= (IF i > 2 THEN 2 ELSE i - 1)
  <1>5. /\ \A i \in 1..Len(frames) : Of(frames[i])
        /\ App \in Nested => count <= 1
        /\ App \notin Nested => \A i \in 1..Len(frames) : frames[i].win \in Windows
        /\ App \notin Nested /\ seen.heard /\ seen.crowded => count > 1 /\ InTime(Len(frames), at)
    BY <1>2, <1>4 DEF IInv, FramesOfApp
  <1>6. /\ DOMAIN TopLevel(App) = 1..Len(TopLevel(App))
        /\ \A i \in DOMAIN TopLevel(App) :
              Of([win |-> TopLevel(App)[i], name |-> NoTitle])
              /\ (App \notin Nested => TopLevel(App)[i] \in Windows)
              /\ TopLevel(App)[i] \in Windows \cup Apps
        /\ App \notin Nested => TopLevel(App) = open[App]
    BY <1>3, TopFacts, AppFacts
  <1>7. \A x \in Windows \cup Apps : NameOf(x) \in Titles \cup {NoTitle}
    BY <1>3 DEF NameOf, EnvTypes
  <1>8. \/ /\ frames' = frames
           /\ seen'.heard => at \notin DOMAIN TopLevel(App)
        \/ \E n \in Titles \cup {NoTitle} :
              /\ at \in DOMAIN TopLevel(App)
              /\ frames' = Append(frames, [win |-> TopLevel(App)[at], name |-> n])
    <2>1. Failed => ~seen'.heard
      BY DEF Failed, IInv, TypeOK
    <2> QED
      BY <1>6, <1>7, <2>1 DEF ReadFrame
  <1>9. seen'.heard /\ seen'.crowded => seen.heard /\ seen.crowded /\ Len(open[App]) > 1
    BY <1>1 DEF Walks, Noted, IInv, Phases
  <1>10. CASE frames' = frames /\ (seen'.heard => at \notin DOMAIN TopLevel(App))
    <2>1. LocalTypes'
      BY <1>2, <1>3, <1>4, <1>10 DEF LocalTypes
    <2>2. App \notin Nested /\ seen'.heard /\ seen'.crowded => count > 1 /\ InTime(Len(frames), at + 1)
      <3>1. App \notin Nested /\ seen'.heard /\ seen'.crowded => at > 2
        <4>1. Len(open[App]) \in Nat
          BY <1>3, AppFacts
        <4>2. App \notin Nested /\ seen'.heard /\ seen'.crowded => at \notin 1..Len(open[App])
          BY <1>6, <1>10
        <4> QED
          BY <1>4, <1>9, <1>10, <4>1, <4>2
      <3> QED
        BY <1>4, <1>5, <1>9, <3>1
    <2>3. FramesOfApp'
      BY <1>2, <1>3, <1>4, <1>5, <1>10, <2>2 DEF FramesOfApp
    <2> QED
      BY <1>1, <1>2, <2>1, <2>3, StaysKeeps
  <1>11. ASSUME NEW n \in Titles \cup {NoTitle}, at \in DOMAIN TopLevel(App),
                frames' = Append(frames, [win |-> TopLevel(App)[at], name |-> n])
         PROVE  IInv'
    <2> DEFINE f == [win |-> TopLevel(App)[at], name |-> n]
    <2>1. f \in [win : Windows \cup Apps, name : Titles \cup {NoTitle}]
      BY <1>6, <1>11
    <2>2. f.win = TopLevel(App)[at]
      OBVIOUS
    <2>3. frames' = Append(frames, f)
      BY <1>11
    <2> HIDE DEF f
    <2>4. /\ frames' \in Seq([win : Windows \cup Apps, name : Titles \cup {NoTitle}])
          /\ Len(frames') = Len(frames) + 1
          /\ \A i \in 1..Len(frames) : frames'[i] = frames[i]
          /\ frames'[Len(frames) + 1] = f
      BY <1>4, <2>1, <2>3, AppendProperties
    <2>5. DOMAIN frames' = 1..(Len(frames) + 1)
      BY <2>4, LenProperties
    <2>6. LocalTypes'
      <3>1. Len(frames') <= count /\ at + 1 \in 0..(count + 1)
        BY <1>2, <1>4, <2>4
      <3> QED
        BY <1>2, <1>3, <2>4, <3>1 DEF LocalTypes
    <2>7. Of(f) /\ (App \notin Nested => f.win \in Windows)
      BY <1>6, <1>11, <2>2
    <2>8. ASSUME NEW i \in DOMAIN frames'
          PROVE  Of(frames'[i]) /\ (App \notin Nested => frames'[i].win \in Windows)
      <3>1. CASE i = Len(frames) + 1
        BY <2>4, <2>7, <3>1
      <3>2. CASE i # Len(frames) + 1
        <4>1. i \in 1..Len(frames)
          BY <1>4, <2>5, <3>2
        <4> QED
          BY <1>5, <2>4, <4>1
      <3> QED
        BY <3>1, <3>2
    <2>9. App \notin Nested /\ seen'.heard /\ seen'.crowded => count > 1 /\ InTime(Len(frames'), at + 1)
      BY <1>4, <1>5, <1>9, <2>4
    <2>10. at' >= 1 /\ Len(frames') < at'
      BY <1>2, <1>4, <2>4
    <2>11. FramesOfApp'
      BY <1>2, <1>3, <1>5, <2>8, <2>9, <2>10 DEF FramesOfApp
    <2> QED
      BY <1>1, <1>2, <2>6, <2>11, StaysKeeps
  <1> QED
    BY <1>8, <1>10, <1>11

\* choosing a frame, where the walk must not fall back on the application,
LEMMA ChooseFrameKeeps ==
    ASSUME IInv, ChooseFrame
    PROVE  IInv'
  <1>1. Walks
    BY NotedFacts DEF IInv, ChooseFrame, Walks, Heard
  <1>2. pc = "list" /\ at > count /\ seen' = seen /\ ~focus.foreign
    BY DEF ChooseFrame, IInv, Phases
  <1>3. EnvTypes /\ App' = App /\ LocalTypes /\ App \in Apps /\ Windows \cap Apps = {}
    BY <1>1, WalksKeeps, TypeParts, AppFacts DEF IInv
  <1>4. /\ at \in Nat /\ count \in Nat /\ Len(frames) \in Nat /\ Len(frames) <= count
        /\ DOMAIN frames = 1..Len(frames)
    <2>1. Cardinality(Windows) \in Nat
      BY <1>3, AppFacts
    <2> QED
      BY <1>3, <2>1, LenProperties DEF LocalTypes
  <1>5. /\ \A i \in 1..Len(frames) :
              frames[i].win = App \/ (frames[i].win \in Windows /\ AppOf[frames[i].win] = App)
        /\ App \in Nested => count <= 1
        /\ App \notin Nested => \A i \in 1..Len(frames) : frames[i].win \in Windows
        /\ App \notin Nested /\ seen.heard /\ seen.crowded =>
              count > 1 /\ Len(frames) >= (IF at > 2 THEN 2 ELSE at - 1)
    BY <1>2, <1>4 DEF IInv, FramesOfApp
  <1>6. CASE IsUnambiguous /\ LooksIn(App)
    <2>1. ~(seen.heard /\ seen.crowded /\ ~focus.foreign /\ App \notin Nested \cup Marks)
      BY <1>2, <1>4, <1>5, <1>6 DEF IsUnambiguous
    <2> QED
      BY <1>1, <1>3, <1>6, <2>1, LooksInKeeps
  <1>7. CASE /\ ~IsUnambiguous /\ TitleHits # {}
             /\ LooksIn(frames[First(TitleHits)].win)
    <2>1. TitleHits \in SUBSET Nat /\ TitleHits \subseteq 1..Len(frames)
      BY <1>4 DEF TitleHits
    <2>2. First(TitleHits) \in 1..Len(frames)
      BY <1>7, <2>1, FirstIsLeast
    <2>3. App \notin Nested
      BY <1>4, <1>5, <1>7 DEF IsUnambiguous
    <2>4. frames[First(TitleHits)].win \in Windows /\ AppOf[frames[First(TitleHits)].win] = App
      BY <1>3, <1>5, <2>2, <2>3
    <2> DEFINE w == frames[First(TitleHits)].win
    <2> HIDE DEF w
    <2>5. w \in Windows /\ AppOf[w] = App /\ LooksIn(w) /\ w \in Frame(w) /\ w \notin Apps
      BY <1>3, <1>7, <2>4 DEF w, Frame
    <2> QED
      BY <1>1, <1>3, <2>5, LooksInKeeps
  <1>8. CASE /\ pc' = "tiebreak" /\ rest' = <<App>> /\ cands' = <<App>>
             /\ frames' = <<>> /\ at' = 0 /\ count' = 0
             /\ UNCHANGED <<root, menu>>
    <2>1. <<App>> \in Seq(Apps) /\ Range(<<App>>) \subseteq {App}
      BY <1>3 DEF Range
    <2>2. count' \in 0..Cardinality(Windows) /\ at' \in 0..(count' + 1)
      BY <1>3, <1>8, AppFacts
    <2>3. LocalTypes'
      BY <1>8, <2>1, <2>2, CandidatesTypes
    <2>4. FramesOfApp'
      BY <1>8 DEF FramesOfApp
    <2> QED
      BY <1>1, <1>2, <1>8, <2>1, <2>3, <2>4, StaysKeeps
  <1> QED
    BY <1>6, <1>7, <1>8 DEF ChooseFrame

\* reading the number of windows of a candidate,
LEMMA ScanCountsKeeps ==
    ASSUME IInv, ScanCounts
    PROVE  IInv'
  <1>1. Walks
    BY NotedFacts DEF IInv, ScanCounts, Walks
  <1>2. /\ UNCHANGED <<pc, root, menu, cands, rest, frames>> /\ at' = 1
        /\ pc \in {"tiebreak", "state"} /\ rest # <<>> /\ frames = <<>>
        /\ pc = "tiebreak" => ~focus.foreign /\ Range(rest) \subseteq {App}
        /\ pc = "state" /\ ~focus.foreign => ~seen.heard
    BY DEF ScanCounts, Scanning, IInv, Phases
  <1>3. EnvTypes /\ App' = App /\ LocalTypes
    BY <1>1, WalksKeeps, TypeParts DEF IInv
  <1>4. count' \in 0..Cardinality(Windows) /\ Cardinality(Windows) \in Nat
    <2>1. Head(rest) \in Apps
      BY <1>2, <1>3, RestFacts, HeadAndTail DEF LocalTypes
    <2>2. Len(open[Head(rest)]) \in 0..Cardinality(Windows) /\ Cardinality(Windows) \in Nat
      BY <1>3, <2>1, AppFacts
    <2> QED
      BY <2>2 DEF ScanCounts
  <1>5. LocalTypes'
    <2>0. Len(frames') = 0
      BY <1>2
    <2>1. count' \in Nat /\ at' = 1
      BY <1>2, <1>4
    <2>2. at' \in 0..(count' + 1)
      <3>1. \A n \in Nat : 1 \in 0..(n + 1)
        OBVIOUS
      <3> QED
        BY <2>1, <3>1
    <2>3. Len(frames') <= count'
      BY <2>0, <2>1
    <2> QED
      BY <1>2, <1>3, <1>4, <2>2, <2>3 DEF LocalTypes
  <1>6. FramesOfApp'
    BY <1>2 DEF FramesOfApp
  <1>7. ~seen.heard => ~seen'.heard
    BY <1>1 DEF Walks, Noted
  <1> QED
    BY <1>1, <1>2, <1>5, <1>6, <1>7, StaysKeeps

\* passing one of its windows,
LEMMA ScanPassesKeeps ==
    ASSUME IInv, ScanPasses
    PROVE  IInv'
  <1>1. Walks
    BY NotedFacts DEF IInv, ScanPasses, Walks
  <1>2. /\ UNCHANGED <<pc, root, menu, cands, rest, frames, count>> /\ at' = at + 1
        /\ pc \in {"tiebreak", "state"} /\ at \in 1..count /\ frames = <<>>
        /\ pc = "tiebreak" => ~focus.foreign /\ Range(rest) \subseteq {App}
        /\ pc = "state" /\ ~focus.foreign => ~seen.heard
    BY DEF ScanPasses, Scanning, IInv, Phases
  <1>3. EnvTypes /\ App' = App /\ LocalTypes /\ Cardinality(Windows) \in Nat
    BY <1>1, WalksKeeps, TypeParts, AppFacts DEF IInv
  <1>4. LocalTypes'
    BY <1>2, <1>3 DEF LocalTypes
  <1>5. FramesOfApp'
    BY <1>2 DEF FramesOfApp
  <1>6. ~seen.heard => ~seen'.heard
    BY <1>1 DEF Walks, Noted
  <1> QED
    BY <1>1, <1>2, <1>4, <1>5, <1>6, StaysKeeps

\* going on to the next candidate,
LEMMA NextCandidateKeeps ==
    ASSUME IInv, Walks, Scanning, pc = "state", NextCandidate
    PROVE  IInv'
  <1>1. /\ UNCHANGED <<pc, root, menu, cands, frames>> /\ rest' = Tail(rest)
        /\ at' = 0 /\ count' = 0 /\ rest # <<>> /\ frames = <<>>
        /\ ~focus.foreign => ~seen.heard
    BY DEF NextCandidate, Scanning, IInv, Phases
  <1>2. EnvTypes /\ LocalTypes /\ Cardinality(Windows) \in Nat
    BY WalksKeeps, TypeParts, AppFacts DEF IInv
  <1>3. LocalTypes'
    <2>1. PICK i \in 0..Len(cands) : rest = SubSeq(cands, i + 1, Len(cands))
      BY <1>2 DEF LocalTypes
    <2>2. cands \in Seq(Apps)
      BY <1>2 DEF LocalTypes
    <2>3. i + 1 \in 0..Len(cands) /\ Tail(rest) = SubSeq(cands, i + 1 + 1, Len(cands))
      BY <1>1, <2>1, <2>2, RestFacts
    <2>4. \E j \in 0..Len(cands') : rest' = SubSeq(cands', j + 1, Len(cands'))
      BY <1>1, <2>3
    <2>5. Len(frames') = 0
      BY <1>1
    <2>6. count' \in 0..Cardinality(Windows) /\ at' \in 0..(count' + 1) /\ Len(frames') <= count'
      BY <1>1, <1>2, <2>5
    <2> QED
      BY <1>1, <1>2, <2>2, <2>4, <2>6 DEF LocalTypes
  <1>4. FramesOfApp'
    BY <1>1 DEF FramesOfApp
  <1>5. ~seen.heard => ~seen'.heard
    BY DEF Walks, Noted
  <1> QED
    BY <1>1, <1>3, <1>4, <1>5, StaysKeeps

\* What is tested is the application, or in a window of it.
LEMMA TestedFacts ==
    ASSUME EnvTypes, Head(rest) \in Apps, NEW i \in DOMAIN Tested
    PROVE  \/ Tested[i] = Head(rest)
           \/ \E w \in Windows : Tested[i] \in Frame(w) /\ AppOf[w] = Head(rest)
  <1> DEFINE a == Head(rest)
             w == open[a][at]
  <1>1. CASE at = 0
    <2>1. Tested = <<a>>
      BY <1>1 DEF Tested
    <2> QED
      BY <2>1
  <1>2. CASE at # 0 /\ at \notin DOMAIN open[a]
    <2>1. Tested = <<>>
      BY <1>2 DEF Tested
    <2> QED
      BY <2>1
  <1>3. CASE at # 0 /\ at \in DOMAIN open[a]
    <2>1. w \in Windows /\ AppOf[w] = a /\ w \in Nodes
      BY <1>3, AppFacts
    <2>2. Tested = <<w>> \/ Tested = <<w>> \o Kids[w]
      BY <1>3 DEF Tested
    <2> HIDE DEF w
    <2>3. Kids[w] \in Seq(Nodes) /\ Len(Kids[w]) \in Nat /\ DOMAIN Kids[w] = 1..Len(Kids[w])
      BY <2>1, KidsFacts
    <2>4. \A j \in DOMAIN Kids[w] : Kids[w][j] \in Frame(w)
      BY DEF Frame, Range
    <2>5. w \in Frame(w)
      BY DEF Frame
    <2>6. CASE Tested = <<w>>
      BY <2>1, <2>5, <2>6
    <2>7. CASE Tested = <<w>> \o Kids[w]
      <3>1. /\ <<w>> \in Seq(Nodes) /\ Len(<<w>>) = 1
            /\ Tested \in Seq(Nodes) /\ Len(Tested) = 1 + Len(Kids[w])
            /\ \A j \in 1..Len(Tested) :
                  Tested[j] = IF j <= 1 THEN <<w>>[j] ELSE Kids[w][j - 1]
        BY <2>1, <2>3, <2>7, ConcatProperties
      <3>2. i \in 1..Len(Tested)
        BY <3>1, RangeOfList
      <3>3. i = 1 \/ i - 1 \in DOMAIN Kids[w]
        BY <2>3, <3>1, <3>2
      <3> QED
        BY <2>1, <2>4, <2>5, <3>1, <3>2, <3>3
    <2> QED
      BY <2>2, <2>6, <2>7
  <1> QED
    BY <1>1, <1>2, <1>3

\* The first that is tested of a window is the window itself.
LEMMA TestedFirst ==
    ASSUME EnvTypes, Head(rest) \in Apps, at # 0, at \in DOMAIN open[Head(rest)]
    PROVE  1 \in DOMAIN Tested /\ Tested[1] = open[Head(rest)][at]
  <1> DEFINE w == open[Head(rest)][at]
  <1>1. w \in Windows /\ w \in Nodes
    BY AppFacts
  <1>2. Tested = <<w>> \/ Tested = <<w>> \o Kids[w]
    BY DEF Tested
  <1> HIDE DEF w
  <1>3. CASE Tested = <<w>>
    BY <1>3 DEF w
  <1>4. CASE Tested = <<w>> \o Kids[w]
    <2>1. Kids[w] \in Seq(Nodes) /\ Len(Kids[w]) \in Nat
      BY <1>1, KidsFacts
    <2>2. /\ <<w>> \in Seq(Nodes) /\ Len(<<w>>) = 1 /\ <<w>>[1] = w
          /\ Tested \in Seq(Nodes) /\ Len(Tested) = 1 + Len(Kids[w])
          /\ \A j \in 1..Len(Tested) :
                Tested[j] = IF j <= 1 THEN <<w>>[j] ELSE Kids[w][j - 1]
      BY <1>1, <1>4, <2>1, ConcatProperties
    <2>3. 1 \in 1..Len(Tested) /\ DOMAIN Tested = 1..Len(Tested)
      BY <2>1, <2>2, RangeOfList
    <2> QED
      BY <2>2, <2>3 DEF w
  <1> QED
    BY <1>2, <1>3, <1>4

\* taking an active window or going on,
LEMMA ScanHitsKeeps ==
    ASSUME IInv, ScanHits
    PROVE  IInv'
  <1>1. Walks
    BY NotedFacts DEF IInv, ScanHits, Walks
  <1>2. Scanning /\ (pc = "state" \/ Range(rest) \subseteq {App})
    BY DEF ScanHits, Scanning, IInv, Phases
  <1>3. EnvTypes /\ LocalTypes
    BY WalksKeeps, TypeParts, <1>1 DEF IInv
  <1> DEFINE a == Head(rest)
  <1>4. a \in Apps /\ a \in Range(rest)
    BY <1>2, <1>3, RestFacts, HeadAndTail DEF LocalTypes, Scanning
  <1>7. ASSUME NEW i \in ActiveHits, pc = "state" => IsCorroborated(a), ActiveHit(Tested[i])
        PROVE  IInv'
    <2> DEFINE x == Tested[i]
    <2>1. a \in {App} \cup Resembling[App]
      BY <1>2, <1>4, <1>7 DEF IsCorroborated, Scanning
    <2>2. LooksIn(x) /\ x \in active
      BY <1>7 DEF ActiveHit, ActiveHits
    <2>3. x = a \/ \E w \in Windows : x \in Frame(w) /\ AppOf[w] = a
      BY <1>3, <1>4, TestedFacts DEF ActiveHits
    <2>4. x \in Apps => x = a
      BY <1>3, <2>3, AppFacts, FrameFacts
    <2>5. seen.heard /\ ~focus.foreign /\ App \notin Marks => x \notin Apps
      <3>1. x \in Marks
        BY <1>3, <2>2 DEF EnvTypes
      <3>2. seen.heard /\ ~focus.foreign => a = App
        BY <1>2, <1>4 DEF IInv, Phases
      <3> QED
        BY <2>4, <3>1, <3>2
    <2> HIDE DEF a, x
    <2>6. \/ x \in Apps \cap ({App} \cup Resembling[App])
          \/ \E w \in Windows : x \in Frame(w) /\ AppOf[w] \in {App} \cup Resembling[App]
      BY <1>4, <2>1, <2>3
    <2> QED
      BY <1>1, <2>2, <2>5, <2>6, LooksInKeeps
  <1>8. CASE pc = "state" /\ NextCandidate
    BY <1>1, <1>2, <1>8, NextCandidateKeeps
  <1> QED
    BY <1>7, <1>8 DEF ScanHits

\* It keeps the invariant if it ends the walk with nothing.
LEMMA ReturnsNothingKeeps ==
    ASSUME IInv, Walks, Returns({})
    PROVE  IInv'
  BY ReturnsKeeps DEF MenuType

\* not finding one,
LEMMA ScanMissesKeeps ==
    ASSUME IInv, ScanMisses
    PROVE  IInv'
  <1>1. Walks
    BY NotedFacts DEF IInv, ScanMisses, Walks, Heard
  <1>2. CASE Returns({})
    BY <1>1, <1>2, ReturnsNothingKeeps
  <1>3. CASE pc = "state" /\ NextCandidate
    BY <1>1, <1>3, NextCandidateKeeps DEF ScanMisses
  <1> QED
    BY <1>2, <1>3 DEF ScanMisses

\* pass 3,
LEMMA NameFallbackKeeps ==
    ASSUME IInv, NameFallback
    PROVE  IInv'
  <1>1. Walks
    BY NotedFacts DEF IInv, NameFallback, Walks
  <1>2. EnvTypes /\ LocalTypes /\ (focus.foreign \/ ~seen.heard)
    BY <1>1, WalksKeeps, TypeParts DEF IInv, Phases, NameFallback
  <1>3. PICK deaf \in {{}} \cup {{i} : i \in DOMAIN cands} :
          LET named == {i \in DOMAIN cands \ deaf : IsCorroborated(cands[i])}
          IN  IF named = {} THEN Returns({}) ELSE LooksIn(cands[First(named)])
    BY DEF NameFallback
  <1> DEFINE named == {i \in DOMAIN cands \ deaf : IsCorroborated(cands[i])}
  <1>4. CASE named = {}
    BY <1>1, <1>3, <1>4, ReturnsNothingKeeps
  <1>5. CASE named # {}
    <2>1. DOMAIN cands = 1..Len(cands) /\ \A i \in 1..Len(cands) : cands[i] \in Apps
      BY <1>2, LenProperties, ElementOfSeq DEF LocalTypes
    <2>2. named \in SUBSET Nat
      BY <2>1
    <2>3. First(named) \in named
      <3> HIDE DEF named
      <3> QED
        BY <1>5, <2>2, FirstIsLeast
    <2> DEFINE a == cands[First(named)]
    <2>4. a \in Apps /\ a \in Resembling[App] /\ LooksIn(a)
      BY <1>3, <1>5, <2>1, <2>3 DEF IsCorroborated
    <2> HIDE DEF a, named
    <2> QED
      BY <1>1, <1>2, <2>4, LooksInKeeps
  <1> QED
    BY <1>4, <1>5

\* The search comes to a menubar of a window of the application at the root,
\* or of the window that the root is in.
LEMMA MenubarInFacts ==
    ASSUME EnvTypes, NEW r, r \in Apps \/ \E w \in Windows : r \in Frame(w),
           NEW deaf, NEW bar \in MenubarIn(r, deaf)
    PROVE  /\ bar \in Nodes
           /\ \E w \in Windows : /\ bar \in Below(w)
                                 /\ r \in Below(w) \/ r = AppOf[w]
  <1>1. /\ \A a \in Apps :
              /\ open[a] \in Seq(Windows) /\ Len(open[a]) \in Nat
              /\ DOMAIN open[a] = 1..Len(open[a])
              /\ \A i \in 1..Len(open[a]) : open[a][i] \in Windows /\ AppOf[open[a][i]] = a
        /\ Windows \subseteq Nodes /\ MaxFindDepth \in Nat \ {0, 1}
    BY AppFacts, TreeAssumption
  <1>2. \A w \in Windows : Below(w) \subseteq Nodes
    BY <1>1, BelowItself
  <1>3. \A w \in Windows, d \in 0..2 : FindMenubar(w, d, deaf) \subseteq Below(w)
    BY <1>1, MenubarIsBelow
  <1>4. CASE r \in Apps
    <2> DEFINE d == IF r \in Nested THEN 2 ELSE 1
               s == [i \in DOMAIN open[r] |-> FindMenubar(open[r][i], d, deaf)]
    <2>1. MenubarIn(r, deaf) = FirstSome(s)
      BY <1>4 DEF MenubarIn
    <2>2. DOMAIN s = 1..Len(open[r])
      BY <1>1, <1>4
    <2>3. \A i \in 1..Len(open[r]) : s[i] = FindMenubar(open[r][i], d, deaf)
      BY <2>2
    <2>4. d \in 0..2
      OBVIOUS
    <2> HIDE DEF s, d
    <2>5. PICK i \in 1..Len(open[r]) : FirstSome(s) = s[i]
      <3>1. Len(open[r]) \in Nat
        BY <1>1, <1>4
      <3>2. FirstSome(s) = {} \/ \E i \in 1..Len(open[r]) : FirstSome(s) = s[i]
        BY <2>2, <3>1, FirstSomeFacts
      <3> QED
        BY <2>1, <3>2
    <2>6. open[r][i] \in Windows /\ AppOf[open[r][i]] = r
      BY <1>1, <1>4
    <2>7. bar \in Below(open[r][i])
      BY <1>3, <2>1, <2>3, <2>4, <2>5, <2>6
    <2> QED
      BY <1>2, <2>6, <2>7
  <1>5. CASE r \notin Apps
    <2>1. bar \in FindMenubar(r, 0, deaf)
      BY <1>5 DEF MenubarIn
    <2>2. PICK w \in Windows : r \in Frame(w)
      BY <1>5
    <2>3. bar \in Below(w) /\ r \in Below(w)
      BY <1>1, <2>1, <2>2, FrameFacts
    <2> QED
      BY <1>2, <2>3
  <1> QED
    BY <1>4, <1>5

\* the search for the menubar, which stays in the application,
LEMMA FindsMenubarKeeps ==
    ASSUME IInv, FindsMenubar
    PROVE  IInv'
  <1>1. Walks
    BY NotedFacts DEF IInv, FindsMenubar, Walks
  <1>2. /\ EnvTypes /\ EnvTypes' /\ App' = App /\ LocalTypes
        /\ seen' \in [quiet : BOOLEAN, heard : BOOLEAN, crowded : BOOLEAN]
        /\ seen'.quiet => seen'.heard
        /\ seen'.crowded => Len(open'[App']) > 1
    BY <1>1, WalksKeeps, TypeParts DEF IInv
  <1>3. /\ pc = "find" /\ frames = <<>>
        /\ root \in Apps \/ \E w \in Windows : root \in Frame(w)
    BY DEF FindsMenubar, IInv, Phases
  <1>4. CASE Returns({})
    BY <1>1, <1>4, ReturnsNothingKeeps
  <1>5. ASSUME NEW deaf, root' \in MenubarIn(root, deaf), pc' = "fetch",
               UNCHANGED <<findVars, menu>>
        PROVE  IInv'
    <2>1. PICK w \in Windows : root' \in Below(w) /\ (root \in Below(w) \/ root = AppOf[w])
      BY <1>2, <1>3, <1>5, MenubarInFacts
    <2>2. root' \in Nodes
      BY <1>2, <1>3, <1>5, MenubarInFacts
    <2>3. AppOf[w] \in {App} \cup Resembling[App]
      <3>1. Below(w) \cap Apps = {} /\ AppOf[w] \in Apps
        BY <1>2, AppFacts, BelowItself
      <3>2. root \in Below(w) => WindowOf(root) = w
        BY WindowOfBelow
      <3>3. AppOfRoot = AppOf[w]
        BY <2>1, <3>1, <3>2 DEF AppOfRoot
      <3> QED
        BY <1>3, <3>3 DEF IInv, RootResembles
    <2>4. AppOfRoot' = AppOf[w]
      BY <2>1, RootFacts
    <2>5. TypeOK'
      <3>1. LocalTypes' /\ MenuType(menu')
        BY <1>2, <1>5, TypeParts DEF LocalTypes, findVars, IInv
      <3> QED
        BY <1>2, <1>5, <2>2, <3>1, TypePartsNext
    <2>6. Phases'
      BY <1>2, <1>3, <1>5, <2>2 DEF Phases, findVars
    <2>7. FramesOfApp' /\ NeverGuesses'
      BY <1>5 DEF FramesOfApp, NeverGuesses
    <2>8. RootResembles'
      BY <1>2, <2>3, <2>4 DEF RootResembles
    <2>9. MenuOfResemblingApp'
      BY <1>2, <1>5 DEF IInv, MenuOfResemblingApp
    <2> QED
      BY <2>5, <2>6, <2>7, <2>8, <2>9 DEF IInv
  <1> QED
    BY <1>4, <1>5 DEF FindsMenubar

\* reading the menubar,
LEMMA FetchesMenuKeeps ==
    ASSUME IInv, FetchesMenu
    PROVE  IInv'
  <1>1. Walks
    BY NotedFacts DEF IInv, FetchesMenu, Walks
  <1>2. pc = "fetch" /\ root \in Nodes /\ root \notin Apps
    BY WindowAssumption DEF FetchesMenu, IInv, Phases
  <1>3. PICK deaf : LET tree == IF IsOpen(WindowOf(root)) THEN FetchMenuTree(root, deaf)
                               ELSE [node |-> root, rows |-> <<>>]
                    IN  Returns(IF tree.rows = <<>> THEN {} ELSE {tree})
    BY DEF FetchesMenu
  <1> DEFINE tree == FetchMenuTree(root, deaf)
  <1>4. tree.node = root /\ IsTree(tree)
    BY <1>2, FetchIsTree
  <1>5. AppOf[WindowOf(root)] \in {App} \cup Resembling[App]
    BY <1>2 DEF IInv, RootResembles, AppOfRoot
  <1>6. CASE Returns({})
    BY <1>1, <1>6, ReturnsNothingKeeps
  <1>7. CASE IsOpen(WindowOf(root)) /\ Returns({tree})
    <2> HIDE DEF tree
    <2>1. MenuType({tree})
      BY <1>4 DEF MenuType
    <2>2. \A t \in {tree} : AppOf[WindowOf(t.node)] \in {App} \cup Resembling[App]
      BY <1>4, <1>5
    <2> QED
      BY <1>1, <1>7, <2>1, <2>2, ReturnsKeeps
  <1> QED
    BY <1>3, <1>6, <1>7

\* giving up,
LEMMA GivesUpKeeps ==
    ASSUME IInv, GivesUp
    PROVE  IInv'
  <1>1. Walks
    BY NotedFacts DEF IInv, GivesUp, Walks
  <1> QED
    BY <1>1, ReturnsNothingKeeps DEF GivesUp

\* and the start of a walk.
LEMMA BeginKeeps ==
    ASSUME IInv, NEW w \in Windows, NEW foreign \in BOOLEAN, NEW t \in Titles \cup {NoTitle},
           Begin(w, foreign, t)
    PROVE  IInv'
  <1>1. EnvTypes
    BY TypeParts DEF IInv
  <1>2. /\ UNCHANGED <<open, title, active>> /\ NoLocals /\ pc' = "registry"
        /\ focus' = [win |-> w, foreign |-> foreign, title |-> t]
        /\ seen' = [quiet |-> TRUE, heard |-> TRUE, crowded |-> Len(open[AppOf[w]]) > 1]
        /\ root' = AppOf[w] /\ menu' = {}
    BY DEF Begin, envVars
  <1>3. EnvTypes'
    BY <1>1, <1>2 DEF EnvTypes
  <1>4. App' = AppOf[w] /\ AppOf[w] \in Apps
    BY <1>1, <1>2, AppFacts DEF App
  <1>5. /\ seen' \in [quiet : BOOLEAN, heard : BOOLEAN, crowded : BOOLEAN]
        /\ seen'.heard = TRUE /\ seen'.crowded = (Len(open[AppOf[w]]) > 1)
    BY <1>2
  <1>6. TypeOK'
    <2>1. MenuType(menu')
      BY <1>2 DEF MenuType
    <2> QED
      BY <1>2, <1>3, <1>4, <1>5, <2>1, NoLocalsTypes, TypePartsNext
  <1>7. Phases'
    <2>1. frames' = <<>> /\ at' = 0
      BY <1>2 DEF NoLocals
    <2>2. seen'.crowded => Len(open'[App']) > 1
      BY <1>2, <1>4, <1>5
    <2> QED
      BY <1>2, <1>5, <2>1, <2>2 DEF Phases
  <1>8. FramesOfApp' /\ RootResembles' /\ NeverGuesses'
    BY <1>2 DEF FramesOfApp, RootResembles, NeverGuesses
  <1>9. MenuOfResemblingApp'
    BY <1>2 DEF MenuOfResemblingApp
  <1> QED
    BY <1>6, <1>7, <1>8, <1>9 DEF IInv

----------------------------------------------------------------------------
(* The steps of the applications                                           *)

\* A change keeps the invariant if it keeps the types of what it changes.
LEMMA ChangesKeeps ==
    ASSUME IInv, Changes, EnvTypes'
    PROVE  IInv'
  <1>1. /\ UNCHANGED <<pc, focus, rest, cands, frames, at, count, root, menu>>
        /\ seen' = [seen EXCEPT !.quiet = FALSE, !.crowded = @ /\ Len(open'[App]) > 1]
    BY DEF Changes, findVars
  <1>2. App' = App
    BY <1>1 DEF App
  <1>3. seen \in [quiet : BOOLEAN, heard : BOOLEAN, crowded : BOOLEAN]
    BY DEF IInv, TypeOK
  <1>4. /\ seen'.quiet = FALSE /\ seen'.heard = seen.heard
        /\ seen'.crowded = (seen.crowded /\ Len(open'[App]) > 1)
        /\ seen' \in [quiet : BOOLEAN, heard : BOOLEAN, crowded : BOOLEAN]
    BY <1>1, <1>3
  <1>5. TypeOK'
    <2>1. LocalTypes' /\ MenuType(menu')
      BY <1>1, TypeParts DEF LocalTypes, IInv
    <2> QED
      BY <1>1, <1>4, <2>1, TypeParts, TypePartsNext DEF IInv
  <1>6. Phases'
    BY <1>1, <1>2, <1>4 DEF IInv, Phases
  <1>7. FramesOfApp'
    BY <1>1, <1>2, <1>4 DEF IInv, FramesOfApp
  <1>8. RootResembles'
    BY <1>1, <1>2 DEF IInv, RootResembles, AppOfRoot
  <1>9. NeverGuesses'
    BY <1>1, <1>2, <1>4 DEF IInv, NeverGuesses
  <1>10. MenuOfResemblingApp'
    BY <1>1, <1>2 DEF IInv, MenuOfResemblingApp
  <1> QED
    BY <1>5, <1>6, <1>7, <1>8, <1>9, <1>10 DEF IInv

\* What the applications do keeps it: opening a window,
LEMMA OpensKeeps ==
    ASSUME IInv, NEW w \in Windows, Opens(w)
    PROVE  IInv'
  <1>1. EnvTypes /\ AppOf[w] \in Apps
    BY TypeParts, WindowAssumption DEF IInv
  <1> DEFINE a == AppOf[w]
             s == open[a]
  <1>2. /\ s \in Seq(Windows) /\ Len(s) \in Nat /\ DOMAIN s = 1..Len(s) /\ IsInjective(s)
        /\ \A i \in 1..Len(s) : s[i] \in Windows /\ AppOf[s[i]] = a
    BY <1>1, AppFacts DEF EnvTypes
  <1>3. \A i \in 1..Len(s) : s[i] # w
    BY <1>2 DEF Opens, IsOpen, Range
  <1> DEFINE t == Append(s, w)
  <1>4. /\ t \in Seq(Windows) /\ Len(t) = Len(s) + 1
        /\ \A i \in 1..Len(s) : t[i] = s[i]
        /\ t[Len(s) + 1] = w
    BY <1>2, AppendProperties
  <1>5. DOMAIN t = 1..(Len(s) + 1) /\ Range(t) = {t[i] : i \in 1..Len(t)}
    <2>1. DOMAIN t = 1..Len(t) /\ Range(t) = {t[i] : i \in 1..Len(t)}
      <3> HIDE DEF t
      <3> QED
        BY <1>4, RangeOfList
    <2> QED
      BY <1>4, <2>1
  <1>6. open' = [open EXCEPT ![a] = t] /\ UNCHANGED <<title, active, focus>>
    BY DEF Opens, Changes
  <1> HIDE DEF a, s, t
  <1>7. \A i \in DOMAIN t : i \in 1..Len(s) \/ i = Len(s) + 1
    BY <1>2, <1>5
  <1>8. IsInjective(t)
    BY <1>2, <1>3, <1>4, <1>7 DEF IsInjective
  <1>9. \A v \in Range(t) : AppOf[v] = a
    BY <1>2, <1>4, <1>5, <1>7 DEF a
  <1>10. EnvTypes'
    BY <1>1, <1>4, <1>6, <1>8, <1>9 DEF EnvTypes
  <1> QED
    BY <1>10, ChangesKeeps DEF Opens

\* closing one, which may end crowded,
LEMMA ClosesKeeps ==
    ASSUME IInv, NEW w \in Windows, Closes(w)
    PROVE  IInv'
  <1>1. EnvTypes /\ AppOf[w] \in Apps
    BY TypeParts, WindowAssumption DEF IInv
  <1> DEFINE a == AppOf[w]
             s == open[a]
  <1>2. /\ s \in Seq(Windows) /\ Len(s) \in Nat /\ DOMAIN s = 1..Len(s) /\ IsInjective(s)
        /\ \A i \in 1..Len(s) : s[i] \in Windows /\ AppOf[s[i]] = a
    BY <1>1, AppFacts DEF EnvTypes
  <1>3. PICK i \in 1..Len(s) : open' = [open EXCEPT ![a] = RemoveAt(s, i)]
    BY <1>2 DEF Closes
  <1> DEFINE t == RemoveAt(s, i)
  <1>4. /\ t \in Seq(Windows) /\ Len(t) = Len(s) - 1
        /\ \A j \in 1..(Len(s) - 1) : t[j] = IF j < i THEN s[j] ELSE s[j + 1]
    BY <1>2, RemoveAtFacts
  <1>5. DOMAIN t = 1..(Len(s) - 1) /\ Range(t) = {t[j] : j \in 1..Len(t)}
    BY <1>4, RangeOfList
  <1>6. open' = [open EXCEPT ![a] = t] /\ active' \subseteq active /\ UNCHANGED <<title, focus>>
    BY <1>3 DEF Closes, Changes
  <1> HIDE DEF a, s, t
  <1>7. IsInjective(t)
    <2> SUFFICES ASSUME NEW j \in 1..(Len(s) - 1), NEW k \in 1..(Len(s) - 1), t[j] = t[k]
                 PROVE  j = k
      BY <1>5 DEF IsInjective
    <2> DEFINE From(n) == IF n < i THEN n ELSE n + 1
    <2>1. \A n \in 1..(Len(s) - 1) : From(n) \in 1..Len(s) /\ t[n] = s[From(n)]
      BY <1>2, <1>4
    <2>2. From(j) = From(k)
      <3> HIDE DEF From
      <3> QED
        BY <1>2, <2>1 DEF IsInjective
    <2> QED
      BY <1>2, <2>2
  <1>8. \A v \in Range(t) : AppOf[v] = a
    <2>1. \A j \in 1..(Len(s) - 1) : j \in 1..Len(s) /\ j + 1 \in 1..Len(s)
      BY <1>2
    <2> QED
      BY <1>2, <1>4, <1>5, <2>1
  <1>9. EnvTypes'
    BY <1>1, <1>4, <1>6, <1>7, <1>8 DEF EnvTypes
  <1> QED
    BY <1>9, ChangesKeeps DEF Closes

\* renaming one,
LEMMA RetitlesKeeps ==
    ASSUME IInv, NEW w \in Windows, NEW t \in Titles, Retitles(w, t)
    PROVE  IInv'
  <1>1. EnvTypes
    BY TypeParts DEF IInv
  <1>2. EnvTypes'
    BY <1>1 DEF Retitles, Changes, EnvTypes
  <1> QED
    BY <1>2, ChangesKeeps DEF Retitles

\* and activating one.
LEMMA ActivatesKeeps ==
    ASSUME IInv, NEW x \in Marks, Activates(x)
    PROVE  IInv'
  <1>1. EnvTypes
    BY TypeParts DEF IInv
  <1>2. EnvTypes'
    BY <1>1 DEF Activates, Changes, EnvTypes
  <1> QED
    BY <1>2, ChangesKeeps DEF Activates

\* At the start.
LEMMA InitInv == Init => IInv
  <1> SUFFICES ASSUME Init PROVE IInv
    OBVIOUS
  <1>1. /\ AppOf \in [Windows -> Apps] /\ Cardinality(Windows) \in Nat /\ NoTitle \notin Titles
    BY WindowAssumption, FS_CardinalityType
  <1>2. /\ pc = "idle" /\ open = [a \in Apps |-> <<>>] /\ active = {}
        /\ title \in [Windows -> Titles]
        /\ cands = <<>> /\ rest = <<>> /\ frames = <<>> /\ at = 0 /\ count = 0
        /\ root = App /\ menu = {}
        /\ seen = [quiet |-> FALSE, heard |-> TRUE, crowded |-> FALSE]
    BY DEF Init
  <1>3. focus \in [win : Windows, foreign : BOOLEAN, title : Titles \cup {NoTitle}]
    BY DEF Init
  <1>4. EnvTypes
    <2>1. IsInjective(<<>>) /\ Range(<<>>) = {}
      BY DEF IsInjective, Range
    <2>2. \A a \in Apps : open[a] = <<>>
      BY <1>2
    <2>3. open \in [Apps -> Seq(Windows)]
      BY <1>2
    <2> QED
      BY <1>2, <1>3, <2>1, <2>2, <2>3 DEF EnvTypes
  <1>5. LocalTypes
    <2>1. <<>> = SubSeq(<<>>, 0 + 1, Len(<<>>)) /\ 0 \in 0..Len(<<>>)
      BY WholeIsRest, EmptySeq
    <2>2. \E i \in 0..Len(cands) : rest = SubSeq(cands, i + 1, Len(cands))
      BY <1>2, <2>1
    <2> QED
      BY <1>1, <1>2, <2>2 DEF LocalTypes
  <1>6. TypeOK
    <2>1. MenuType(menu) /\ App \in Apps
      BY <1>1, <1>2, <1>3 DEF MenuType, App
    <2> QED
      BY <1>2, <1>4, <1>5, <2>1, TypeParts
  <1> QED
    BY <1>2, <1>6 DEF IInv, Phases, FramesOfApp, RootResembles, NeverGuesses, MenuOfResemblingApp

\* The invariant: every step keeps it.
THEOREM Invariant == Spec => []IInv
  <1>1. ASSUME IInv, [Next]_vars PROVE IInv'
    <2>1. CASE UNCHANGED vars
      <3>1. /\ UNCHANGED <<open, title, active, pc, focus, rest, cands, frames, at, count>>
            /\ UNCHANGED <<root, menu, seen>>
        BY <2>1 DEF vars, envVars, findVars
      <3>2. App' = App /\ AppOfRoot' = AppOfRoot
        BY <3>1 DEF App, AppOfRoot
      <3>3. TypeOK'
        BY <1>1, <3>1 DEF IInv, TypeOK
      <3>4. Phases' /\ RootResembles' /\ NeverGuesses' /\ MenuOfResemblingApp'
        BY <1>1, <3>1, <3>2 DEF IInv, Phases, RootResembles, NeverGuesses, MenuOfResemblingApp
      <3>5. FramesOfApp'
        BY <1>1, <3>1, <3>2 DEF IInv, FramesOfApp
      <3> QED
        BY <3>3, <3>4, <3>5 DEF IInv
    <2>2. CASE Change
      BY <1>1, <2>2, OpensKeeps, ClosesKeeps, RetitlesKeeps, ActivatesKeeps DEF Change
    <2>3. ASSUME NEW w \in Windows, NEW f \in BOOLEAN, NEW t \in Titles \cup {NoTitle},
                 Begin(w, f, t)
          PROVE  IInv'
      BY <1>1, <2>3, BeginKeeps
    <2>4. CASE ReadRegistry \/ CountFrames \/ ReadFrame \/ ChooseFrame
      BY <1>1, <2>4, ReadRegistryKeeps, CountFramesKeeps, ReadFrameKeeps, ChooseFrameKeeps
    <2>5. CASE ScanCounts \/ ScanPasses \/ ScanHits \/ ScanMisses \/ NameFallback
      BY <1>1, <2>5, ScanCountsKeeps, ScanPassesKeeps, ScanHitsKeeps, ScanMissesKeeps,
         NameFallbackKeeps
    <2>6. CASE FindsMenubar \/ FetchesMenu \/ GivesUp
      BY <1>1, <2>6, FindsMenubarKeeps, FetchesMenuKeeps, GivesUpKeeps
    <2> QED
      BY <1>1, <2>1, <2>2, <2>3, <2>4, <2>5, <2>6 DEF Next
  <1> QED
    BY <1>1, InitInv, PTL DEF Spec

\* The variables have their types, whatever changes or fails under a walk.
THEOREM TypeCorrect == Spec => []TypeOK
  BY Invariant, PTL DEF IInv

\* ADR-0030: of several windows, the search starts at one, never above them
\* all.
THEOREM NoGuess == Spec => []NeverGuesses
  BY Invariant, PTL DEF IInv

\* The menu is of the focused application or of one whose Name passes for it.
THEOREM ResemblingMenu == Spec => []MenuOfResemblingApp
  BY Invariant, PTL DEF IInv

----------------------------------------------------------------------------
(* An undisturbed walk finds the window that it can tell                   *)

\* When the window can be told after a step of the walk, it could be before,
\* no read has failed, and the walk was on its way.
LEMMA ToldBefore ==
    ASSUME IInv, FindsTold, Walks, Told'
    PROVE  /\ OnTheWay /\ EnvTypes /\ LocalTypes /\ App' = App
           /\ UNCHANGED <<open, title, active, focus, seen>>
           /\ seen.quiet /\ seen.heard /\ ~Failed
           /\ ToldByState \/ ToldByTitle
           /\ \E i \in 1..Len(open[App]) : open[App][i] = focus.win
  <1>1. UNCHANGED <<open, title, active, focus>> /\ Noted
    BY DEF Walks, envVars
  <1>2. seen' = seen /\ seen.quiet /\ seen.heard
    BY <1>1 DEF Noted, Told, IInv, Phases
  <1>3. App' = App
    BY <1>1 DEF App
  <1>4. ToldByState \/ ToldByTitle
    BY <1>1, <1>3 DEF Told, ToldByState, ToldByTitle, TitleIsUnique
  <1>5. IsOpen(focus.win)
    BY <1>1 DEF Told, IsOpen
  <1>6. OnTheWay
    BY <1>2, <1>4, <1>5 DEF FindsTold, Told
  <1>7. EnvTypes /\ LocalTypes
    BY TypeParts DEF IInv
  <1>8. ~Failed
    BY <1>2 DEF Failed, IInv, TypeOK
  <1>9. \E i \in 1..Len(open[App]) : open[App][i] = focus.win
    <2>1. App \in Apps /\ DOMAIN open[App] = 1..Len(open[App])
      BY <1>7, AppFacts
    <2> QED
      BY <1>5, <2>1 DEF IsOpen, App, Range
  <1> QED
    BY <1>1, <1>2, <1>3, <1>4, <1>6, <1>7, <1>8, <1>9

\* Each step keeps such a walk on its way: pass 1,
LEMMA ReadRegistryTold ==
    ASSUME IInv, FindsTold, ReadRegistry, Told'
    PROVE  OnTheWay'
  <1>1. Walks
    BY NotedFacts DEF IInv, ReadRegistry, Walks
  <1>2. EnvTypes /\ App' = App /\ ~Failed /\ (ToldByState \/ ToldByTitle)
    BY <1>1, ToldBefore
  <1>3. App \in Apps /\ Range(Registry) = Apps /\ at' = 0
    BY <1>2, AppFacts, WindowAssumption DEF ReadRegistry, IInv, Phases
  <1>4. PassOne(Registry)
    BY <1>2 DEF ReadRegistry
  <1>5. pc' = "count" \/ (pc' = "state" /\ rest' = Registry)
    BY <1>4 DEF PassOne
  <1> QED
    BY <1>2, <1>3, <1>5 DEF OnTheWay

\* reading the number of frames,
LEMMA CountFramesTold ==
    ASSUME IInv, FindsTold, CountFrames, Told'
    PROVE  OnTheWay'
  <1>1. Walks
    BY NotedFacts DEF IInv, CountFrames, Walks
  <1>2. EnvTypes /\ App' = App /\ ~Failed /\ UNCHANGED <<open, title>>
    BY <1>1, ToldBefore
  <1>3. pc' = "list" /\ at' = 1 /\ frames' = <<>> /\ count' = Len(TopLevel(App))
    BY <1>2 DEF CountFrames, IInv, Phases
  <1>4. TopLevel(App)' = TopLevel(App)
    BY <1>2 DEF TopLevel
  <1>5. DOMAIN frames' = {} /\ Len(frames') = 0
    BY <1>3
  <1> QED
    BY <1>3, <1>4, <1>5 DEF OnTheWay

\* reading the next frame,
LEMMA ReadFrameTold ==
    ASSUME IInv, FindsTold, ReadFrame, Told'
    PROVE  OnTheWay'
  <1>1. Walks
    BY NotedFacts DEF IInv, ReadFrame, Walks
  <1>2. /\ EnvTypes /\ App' = App /\ ~Failed /\ UNCHANGED <<open, title>> /\ OnTheWay
        /\ LocalTypes
    BY <1>1, ToldBefore
  <1>3. /\ pc = "list" /\ pc' = "list" /\ at' = at + 1 /\ count' = count /\ at <= count
        /\ count = Len(TopLevel(App)) /\ Len(frames) = at - 1
        /\ \A i \in DOMAIN frames :
              frames[i] = [win |-> TopLevel(App)[i], name |-> NameOf(TopLevel(App)[i])]
    BY <1>2 DEF ReadFrame, OnTheWay
  <1>4. TopLevel(App)' = TopLevel(App) /\ \A x : NameOf(x)' = NameOf(x)
    BY <1>2 DEF TopLevel, NameOf
  <1>5. /\ Cardinality(Windows) \in Nat /\ at \in Nat /\ count \in Nat /\ Len(frames) \in Nat
        /\ DOMAIN frames = 1..Len(frames) /\ at >= 1
        /\ frames \in Seq([win : Windows \cup Apps, name : Titles \cup {NoTitle}])
    <2>1. Cardinality(Windows) \in Nat
      BY <1>2, AppFacts
    <2> QED
      BY <1>2, <1>3, <2>1, LenProperties DEF LocalTypes, IInv, FramesOfApp
  <1> DEFINE x == TopLevel(App)[at]
             f == [win |-> x, name |-> NameOf(x)]
  <1>6. at \in DOMAIN TopLevel(App) /\ x \in Windows \cup Apps
    <2>1. /\ DOMAIN TopLevel(App) = 1..Len(TopLevel(App))
          /\ \A i \in DOMAIN TopLevel(App) : TopLevel(App)[i] \in Windows \cup Apps
      BY <1>2, TopFacts, AppFacts
    <2> QED
      BY <1>3, <1>5, <2>1
  <1>7. frames' = Append(frames, f)
    BY <1>2, <1>6 DEF ReadFrame
  <1>8. f \in [win : Windows \cup Apps, name : Titles \cup {NoTitle}]
    BY <1>2, <1>6 DEF NameOf, EnvTypes
  <1>9. f = [win |-> TopLevel(App)[at], name |-> NameOf(TopLevel(App)[at])]
    OBVIOUS
  <1> HIDE DEF f, x
  <1>10. /\ frames' \in Seq([win : Windows \cup Apps, name : Titles \cup {NoTitle}])
         /\ Len(frames') = Len(frames) + 1
         /\ \A i \in 1..Len(frames) : frames'[i] = frames[i]
         /\ frames'[Len(frames) + 1] = f
    BY <1>5, <1>7, <1>8, AppendProperties
  <1>11. DOMAIN frames' = 1..(Len(frames) + 1)
    BY <1>10, LenProperties
  <1>12. ASSUME NEW i \in DOMAIN frames'
         PROVE  frames'[i] = [win |-> TopLevel(App)[i], name |-> NameOf(TopLevel(App)[i])]
    <2>1. CASE i = at
      BY <1>3, <1>5, <1>9, <1>10, <2>1
    <2>2. CASE i # at
      <3>1. i \in 1..Len(frames)
        BY <1>3, <1>5, <1>11, <2>2
      <3> QED
        BY <1>3, <1>5, <1>10, <3>1
    <2> QED
      BY <2>1, <2>2
  <1>13. Len(frames') = at' - 1
    BY <1>3, <1>5, <1>10
  <1> QED
    BY <1>2, <1>3, <1>4, <1>12, <1>13 DEF OnTheWay

\* choosing a frame: the only one, or the one with the title,
LEMMA ChooseFrameTold ==
    ASSUME IInv, FindsTold, ChooseFrame, Told'
    PROVE  OnTheWay'
  <1>1. Walks
    BY NotedFacts DEF IInv, ChooseFrame, Walks, Heard
  <1>2. /\ EnvTypes /\ App' = App /\ UNCHANGED <<open, focus>> /\ OnTheWay /\ LocalTypes
        /\ ToldByState \/ ToldByTitle
    BY <1>1, ToldBefore
  <1>3. PICK k \in 1..Len(open[App]) : open[App][k] = focus.win
    BY <1>1, ToldBefore
  <1>4. /\ pc = "list" /\ at > count /\ ~focus.foreign
        /\ count = Len(TopLevel(App)) /\ Len(frames) = at - 1
        /\ \A i \in DOMAIN frames :
              frames[i] = [win |-> TopLevel(App)[i], name |-> NameOf(TopLevel(App)[i])]
    BY <1>2 DEF ChooseFrame, OnTheWay, IInv, Phases
  <1>5. ToldByTitle
    BY <1>2, <1>4 DEF ToldByState
  <1>6. /\ App \in Apps /\ open[App] \in Seq(Windows) /\ Len(open[App]) \in Nat
        /\ \A i \in 1..Len(open[App]) : open[App][i] \in Windows
    BY <1>2, AppFacts
  <1>7. /\ Len(frames) = Len(TopLevel(App)) /\ Len(frames) \in Nat
        /\ DOMAIN frames = 1..Len(frames)
    <2>1. Cardinality(Windows) \in Nat
      BY <1>2, AppFacts
    <2>2. count \in Nat /\ at \in 0..(count + 1) /\ Len(frames) \in Nat /\ DOMAIN frames = 1..Len(frames)
      BY <1>2, <2>1, LenProperties DEF LocalTypes
    <2> QED
      BY <1>4, <2>2
  <1>8. CASE IsUnambiguous /\ LooksIn(App)
    <2>1. Len(open[App]) = 1
      <3>1. CASE App \in Nested
        BY <1>5, <3>1 DEF ToldByTitle
      <3>2. CASE App \notin Nested
        <4>1. Len(open[App]) <= 1
          BY <1>7, <1>8, <3>2 DEF IsUnambiguous, TopLevel
        <4> DEFINE n == Len(open[App])
        <4>2. n \in Nat /\ k \in 1..n /\ n <= 1
          BY <1>3, <1>6, <4>1
        <4> HIDE DEF n
        <4>3. n = 1
          BY <4>2
        <4> QED
          BY <4>3 DEF n
      <3> QED
        BY <3>1, <3>2
    <2>2. open[App] = <<focus.win>>
      <3>1. open[App][1] = focus.win
        BY <1>3, <2>1
      <3> QED
        BY <1>6, <2>1, <3>1
    <2> QED
      BY <1>2, <1>8, <2>2 DEF LooksIn, OnTheWay
  <1>9. CASE ~IsUnambiguous
    <2>1. App \notin Nested
      <3>1. Len(frames) > 1
        BY <1>7, <1>9 DEF IsUnambiguous
      <3> QED
        BY <1>2, <1>7, <3>1, TopFacts
    <2>2. TopLevel(App) = open[App]
      BY <2>1 DEF TopLevel
    <2>3. TitleIsUnique
      BY <1>5, <1>7, <1>9, <2>2 DEF ToldByTitle, IsUnambiguous
    <2>4. \A i \in 1..Len(frames) : frames[i].win = open[App][i] /\ frames[i].name = title[open[App][i]]
      <3> SUFFICES ASSUME NEW i \in 1..Len(frames)
                   PROVE  frames[i].win = open[App][i] /\ frames[i].name = title[open[App][i]]
        OBVIOUS
      <3>1. frames[i] = [win |-> open[App][i], name |-> NameOf(open[App][i])]
        BY <1>4, <1>7, <2>2
      <3>2. open[App][i] \in Windows
        BY <1>6, <1>7, <2>2
      <3>3. NameOf(open[App][i]) = title[open[App][i]]
        BY <3>2 DEF NameOf
      <3> QED
        BY <3>1, <3>3
    <2>5. k \in TitleHits
      <3>1. k \in DOMAIN frames /\ frames[k].name = title[focus.win]
        BY <1>3, <1>7, <2>2, <2>4
      <3>2. title[focus.win] \in Titles /\ NoTitle \notin Titles
        BY <1>2, WindowAssumption DEF EnvTypes
      <3> QED
        BY <2>3, <3>1, <3>2 DEF TitleHits, TitleMatches, TitleIsUnique
    <2>6. First(TitleHits) \in TitleHits
      <3>1. TitleHits \in SUBSET Nat
        BY <1>7 DEF TitleHits
      <3> QED
        BY <2>5, <3>1, FirstIsLeast
    <2>7. frames[First(TitleHits)].win = focus.win
      <3> DEFINE i == First(TitleHits)
      <3>1. i \in 1..Len(frames) /\ frames[i].name = focus.title
        BY <1>7, <2>6 DEF TitleHits, TitleMatches
      <3> HIDE DEF i
      <3>2. open[App][i] \in Range(open[App]) /\ title[open[App][i]] = focus.title
        BY <1>6, <1>7, <2>2, <2>4, <3>1, LenProperties DEF Range
      <3>3. open[App][i] = focus.win
        BY <2>3, <3>2 DEF TitleIsUnique
      <3> QED
        BY <2>4, <3>1, <3>3 DEF i
    <2>8. LooksIn(focus.win)
      BY <1>9, <2>5, <2>7 DEF ChooseFrame
    <2> QED
      BY <1>2, <2>8 DEF LooksIn, OnTheWay
  <1> QED
    BY <1>8, <1>9 DEF ChooseFrame

\* reading the number of windows of a candidate,
LEMMA ScanCountsTold ==
    ASSUME IInv, FindsTold, ScanCounts, Told'
    PROVE  OnTheWay'
  <1>1. Walks
    BY NotedFacts DEF IInv, ScanCounts, Walks
  <1>2. /\ EnvTypes /\ App' = App /\ UNCHANGED <<open, focus>> /\ OnTheWay /\ ~Failed
    BY <1>1, ToldBefore
  <1>3. PICK k \in 1..Len(open[App]) : open[App][k] = focus.win
    BY <1>1, ToldBefore
  <1>4. /\ pc = "state" /\ pc' = "state" /\ rest' = rest /\ App \in Range(rest)
        /\ at' = 1 /\ count' = Len(open[Head(rest)])
    BY <1>2 DEF ScanCounts, Scanning, OnTheWay
  <1>5. DOMAIN open[App] = 1..Len(open[App])
    BY <1>2, AppFacts
  <1>6. Head(rest) = App =>
           \E i \in 1 .. count' : i \in DOMAIN open[App] /\ open[App][i] = focus.win
    BY <1>3, <1>4, <1>5
  <1> QED
    BY <1>2, <1>4, <1>6 DEF OnTheWay

\* passing a window that is not the one,
LEMMA ScanPassesTold ==
    ASSUME IInv, FindsTold, ScanPasses, Told'
    PROVE  OnTheWay'
  <1>1. Walks
    BY NotedFacts DEF IInv, ScanPasses, Walks
  <1>2. /\ EnvTypes /\ App' = App /\ UNCHANGED <<open, focus>> /\ OnTheWay /\ ~Failed /\ LocalTypes
        /\ ToldByState \/ ToldByTitle
    BY <1>1, ToldBefore
  <1>3. /\ pc = "state" /\ pc' = "state" /\ rest' = rest /\ App \in Range(rest)
        /\ at' = at + 1 /\ count' = count /\ at \in 1..count
        /\ ActiveHits = {} /\ rest # <<>>
    BY <1>2 DEF ScanPasses, Scanning, OnTheWay
  <1>4. focus.win \in active
    BY <1>1, <1>3, ToldBefore DEF ToldByState, ToldByTitle, IInv, Phases
  <1>5. at \in DOMAIN open[Head(rest)] => open[Head(rest)][at] \notin active
    <2> SUFFICES ASSUME at \in DOMAIN open[Head(rest)]
                 PROVE  open[Head(rest)][at] \notin active
      OBVIOUS
    <2>1. Head(rest) \in Apps /\ at # 0
      <3>1. Head(rest) \in Apps
        BY <1>2, <1>3, RestFacts, HeadAndTail DEF LocalTypes
      <3> QED
        BY <1>3, <3>1
    <2>2. 1 \in DOMAIN Tested /\ Tested[1] = open[Head(rest)][at]
      BY <1>2, <2>1, TestedFirst
    <2> QED
      BY <1>3, <2>2 DEF ActiveHits
  <1>6. Head(rest) = App =>
           \E i \in at + 1 .. count : i \in DOMAIN open[App] /\ open[App][i] = focus.win
    <2> SUFFICES ASSUME Head(rest) = App
                 PROVE  \E i \in at + 1 .. count : i \in DOMAIN open[App] /\ open[App][i] = focus.win
      OBVIOUS
    <2>1. Cardinality(Windows) \in Nat /\ count \in Nat /\ at \in Nat /\ at > 0
      BY <1>2, <1>3, AppFacts DEF LocalTypes
    <2>2. PICK i \in at .. count : i \in DOMAIN open[App] /\ open[App][i] = focus.win
      BY <1>2, <1>3, <2>1 DEF OnTheWay
    <2>3. i # at
      BY <1>4, <1>5, <2>2
    <2>4. i \in at + 1 .. count
      BY <2>1, <2>2, <2>3
    <2> QED
      BY <2>2, <2>4
  <1> QED
    BY <1>2, <1>3, <1>6 DEF OnTheWay

\* taking it,
LEMMA ScanHitsTold ==
    ASSUME IInv, FindsTold, ScanHits, Told'
    PROVE  OnTheWay'
  <1>1. Walks
    BY NotedFacts DEF IInv, ScanHits, Walks
  <1>2. /\ EnvTypes /\ App' = App /\ UNCHANGED <<open, focus>> /\ OnTheWay /\ ~Failed /\ LocalTypes
    BY <1>1, ToldBefore
  <1>3. pc = "state" /\ rest # <<>>
    BY <1>2 DEF ScanHits, Scanning, OnTheWay
  <1>4. ToldByState
    BY <1>1, <1>3, ToldBefore DEF ToldByTitle, IInv, Phases
  <1> DEFINE a == Head(rest)
  <1>5. a \in Apps /\ focus.win \in Windows /\ focus.win \notin Apps
    BY <1>2, <1>3, RestFacts, HeadAndTail, AppFacts DEF LocalTypes
  <1>6. ASSUME NEW i \in ActiveHits
        PROVE  a = App /\ Tested[i] = focus.win
    <2>1. i \in DOMAIN Tested /\ Tested[i] = focus.win
      BY <1>4 DEF ActiveHits, ToldByState
    <2>2. PICK w \in Windows : focus.win \in Frame(w) /\ AppOf[w] = a
      BY <1>2, <1>5, <2>1, TestedFacts
    <2>3. focus.win \in Below(w) /\ focus.win \in Below(focus.win)
      BY <1>2, <1>5, <2>2, AppFacts, FrameFacts, BelowItself
    <2>4. w = focus.win
      BY <1>5, <2>3, WindowAssumption
    <2> QED
      BY <2>1, <2>2, <2>4 DEF App
  <1>7. PICK i \in ActiveHits : TRUE
    BY DEF ScanHits
  <1>8. LooksIn(focus.win)
    BY <1>2, <1>4, <1>6, <1>7 DEF ScanHits, ActiveHit, IsCorroborated, ToldByState
  <1> QED
    BY <1>2, <1>8 DEF LooksIn, OnTheWay

\* going on from an application that does not have it,
LEMMA ScanMissesTold ==
    ASSUME IInv, FindsTold, ScanMisses, Told'
    PROVE  OnTheWay'
  <1>1. Walks
    BY NotedFacts DEF IInv, ScanMisses, Walks, Heard
  <1>2. /\ EnvTypes /\ App' = App /\ UNCHANGED <<open, focus>> /\ OnTheWay /\ LocalTypes
    BY <1>1, ToldBefore
  <1>3. pc = "state" /\ rest # <<>> /\ NextCandidate /\ at > count /\ App \in Range(rest)
    BY <1>2 DEF ScanMisses, Scanning, OnTheWay
  <1>4. Head(rest) # App
    <2> SUFFICES ASSUME Head(rest) = App PROVE FALSE
      OBVIOUS
    <2>1. Cardinality(Windows) \in Nat /\ count \in Nat /\ at \in Nat
      BY <1>2, AppFacts DEF LocalTypes
    <2>2. at > 0
      BY <1>3, <2>1
    <2>3. PICK i \in at .. count : TRUE
      BY <1>2, <1>3, <2>2 DEF OnTheWay
    <2> QED
      BY <1>3, <2>1, <2>3
  <1>5. App \in Range(Tail(rest))
    BY <1>2, <1>3, <1>4, RestFacts, HeadAndTail DEF LocalTypes
  <1>6. pc' = "state" /\ rest' = Tail(rest) /\ at' = 0
    BY <1>3 DEF NextCandidate
  <1> QED
    BY <1>2, <1>5, <1>6 DEF OnTheWay

\* pass 3, which is not reached,
LEMMA NameFallbackTold ==
    ASSUME IInv, FindsTold, NameFallback, Told'
    PROVE  OnTheWay'
  <1>1. Walks
    BY NotedFacts DEF IInv, NameFallback, Walks
  <1>2. OnTheWay
    BY <1>1, ToldBefore
  <1>3. App \in Range(<<>>)
    BY <1>2 DEF NameFallback, OnTheWay
  <1> QED
    BY <1>3 DEF Range

\* the search for the menubar,
LEMMA FindsMenubarTold ==
    ASSUME DepthSuffices, IInv, FindsTold, FindsMenubar, Told'
    PROVE  OnTheWay'
  <1>1. Walks
    BY NotedFacts DEF IInv, FindsMenubar, Walks
  <1>2. /\ EnvTypes /\ App' = App /\ UNCHANGED <<open, focus>> /\ OnTheWay /\ ~Failed
    BY <1>1, ToldBefore
  <1>3. focus.win \in Windows \ Apps /\ App \in Apps /\ focus.win \in Nodes /\ IsOpen(focus.win)
    BY <1>2, AppFacts DEF Told, IsOpen
  <1>0. WindowOf(focus.win) = focus.win
    BY <1>3, BelowItself, WindowOfBelow
  <1> DEFINE bars == FindMenubar(focus.win, 0, {})
  <1>4. bars \in Hit
    BY <1>3, TreeAssumption, MenubarIsBelow
  <1>5. root = focus.win \/ (root = App /\ open[App] = <<focus.win>>)
    BY <1>2 DEF FindsMenubar, OnTheWay
  <1>6. MenubarIn(root, {}) = bars
    <2>1. CASE root = focus.win
      BY <1>0, <1>3, <2>1 DEF MenubarIn
    <2>2. CASE root = App /\ open[App] = <<focus.win>>
      <3> DEFINE d == IF App \in Nested THEN 2 ELSE 1
                 s == [i \in DOMAIN open[App] |-> FindMenubar(open[App][i], d, {})]
      <3>1. MenubarIn(root, {}) = FirstSome(s)
        BY <1>3, <2>2 DEF MenubarIn
      <3>2. DOMAIN open[App] = 1..1 /\ open[App][1] = focus.win
        BY <2>2
      <3>3. DOMAIN s = 1..1 /\ s[1] = FindMenubar(focus.win, d, {})
        BY <3>2
      <3>4. FindMenubar(focus.win, d, {}) = bars
        BY <1>3 DEF DepthSuffices, App
      <3> HIDE DEF s, d, bars
      <3>5. FirstSome(s) = s[1]
        BY <3>3, FirstSomeFacts
      <3> QED
        BY <3>1, <3>3, <3>4, <3>5
    <2> QED
      BY <1>5, <2>1, <2>2
  <1>7. \/ bars = {} /\ Returns({})
        \/ root' \in bars /\ pc' = "fetch"
    <2> HIDE DEF bars
    <2> QED
      BY <1>2, <1>6 DEF FindsMenubar
  <1>8. CASE bars = {} /\ Returns({})
    <2>1. MenuOf(focus.win)' = {}
      BY <1>2, <1>8 DEF MenuOf
    <2> QED
      BY <1>8, <2>1 DEF Returns, OnTheWay
  <1>9. CASE root' \in bars /\ pc' = "fetch"
    <2>1. bars = {root'}
      BY <1>4, <1>9 DEF Hit
    <2> QED
      BY <1>2, <1>9, <2>1 DEF OnTheWay
  <1> QED
    BY <1>7, <1>8, <1>9

\* and reading it.
LEMMA FetchesMenuTold ==
    ASSUME IInv, FindsTold, FetchesMenu, Told'
    PROVE  OnTheWay'
  <1>1. Walks
    BY NotedFacts DEF IInv, FetchesMenu, Walks
  <1>2. /\ EnvTypes /\ App' = App /\ UNCHANGED <<open, focus>> /\ OnTheWay /\ ~Failed
    BY <1>1, ToldBefore
  <1>3. focus.win \in Windows /\ focus.win \in Nodes /\ IsOpen(focus.win)
    BY <1>2, AppFacts DEF Told, IsOpen
  <1>4. FindMenubar(focus.win, 0, {}) = {root}
    BY <1>2 DEF FetchesMenu, OnTheWay
  <1>5. WindowOf(root) = focus.win
    <2>1. {root} \subseteq Below(focus.win)
      <3>1. 0 \in 0..MaxFindDepth
        BY TreeAssumption
      <3> QED
        BY <1>3, <1>4, <3>1, MenubarIsBelow
    <2> QED
      BY <1>3, <2>1, WindowOfBelow
  <1> DEFINE tree == FetchMenuTree(root, {})
  <1>6. Returns(IF tree.rows = <<>> THEN {} ELSE {tree})
    BY <1>2, <1>3, <1>5 DEF FetchesMenu
  <1>7. MenuOf(focus.win) = IF tree.rows = <<>> THEN {} ELSE {tree}
    <2>1. {FetchMenuTree(bar, {}) : bar \in {root}} = {tree}
      OBVIOUS
    <2> QED
      BY <1>4, <2>1 DEF MenuOf
  <1>8. MenuOf(focus.win)' = MenuOf(focus.win)
    BY <1>2 DEF MenuOf
  <1> HIDE DEF tree
  <1> QED
    BY <1>6, <1>7, <1>8 DEF Returns, OnTheWay

\* Every step keeps an undisturbed walk on its way.
LEMMA StepTold ==
    ASSUME DepthSuffices, IInv, FindsTold, Next
    PROVE  FindsTold'
  <1>1. ASSUME Changes PROVE ~Told'
    <2>1. seen' = [seen EXCEPT !.quiet = FALSE, !.crowded = @ /\ Len(open'[App]) > 1]
      BY <1>1 DEF Changes
    <2>2. seen \in [quiet : BOOLEAN, heard : BOOLEAN, crowded : BOOLEAN]
      BY DEF IInv, TypeOK
    <2>3. seen'.quiet = FALSE
      BY <2>1, <2>2
    <2> QED
      BY <2>3 DEF Told
  <1>2. CASE Change
    BY <1>1, <1>2 DEF Change, Opens, Closes, Retitles, Activates, FindsTold
  <1>3. ASSUME NEW w \in Windows, NEW f \in BOOLEAN, NEW t \in Titles \cup {NoTitle},
               Begin(w, f, t)
        PROVE  FindsTold'
    BY <1>3 DEF Begin, FindsTold, OnTheWay
  <1>4. CASE GivesUp
    <2>1. Walks
      BY <1>4, NotedFacts DEF IInv, GivesUp, Walks
    <2> QED
      BY <1>4, <2>1, ToldBefore DEF GivesUp, FindsTold
  <1>5. CASE ReadRegistry \/ CountFrames \/ ReadFrame \/ ChooseFrame
    BY <1>5, ReadRegistryTold, CountFramesTold, ReadFrameTold, ChooseFrameTold DEF FindsTold
  <1>6. CASE ScanCounts \/ ScanPasses \/ ScanHits \/ ScanMisses \/ NameFallback
    BY <1>6, ScanCountsTold, ScanPassesTold, ScanHitsTold, ScanMissesTold, NameFallbackTold
    DEF FindsTold
  <1>7. CASE FindsMenubar \/ FetchesMenu
    BY <1>7, FindsMenubarTold, FetchesMenuTold DEF FindsTold
  <1> QED
    BY <1>2, <1>3, <1>4, <1>5, <1>6, <1>7 DEF Next

\* An undisturbed walk finds the window that it can tell.
THEOREM Finds ==
    ASSUME DepthSuffices
    PROVE  Spec => []FindsTold
  <1>1. Init => FindsTold
    <2>1. ASSUME Init PROVE ~Told
      BY <2>1 DEF Init, Told
    <2> QED
      BY <2>1 DEF FindsTold
  <1>2. ASSUME IInv, FindsTold, [Next]_vars PROVE FindsTold'
    <2>1. CASE UNCHANGED vars
      <3>1. /\ UNCHANGED <<open, title, active, pc, focus, rest, frames, at, count>>
            /\ UNCHANGED <<root, menu, seen>>
        BY <2>1 DEF vars, envVars, findVars
      <3>2. App' = App
        BY <3>1 DEF App
      <3>3. Told' = Told
        BY <3>1, <3>2 DEF Told, IsOpen, ToldByState, ToldByTitle, TitleIsUnique
      <3>4. OnTheWay' = OnTheWay
        BY <3>1, <3>2 DEF OnTheWay, TopLevel, NameOf, MenuOf
      <3> QED
        BY <1>2, <3>3, <3>4 DEF FindsTold
    <2>2. CASE Next
      BY <1>2, <2>2, StepTold
    <2> QED
      BY <1>2, <2>1, <2>2
  <1> QED
    BY <1>1, <1>2, Invariant, PTL DEF Spec

\* ADR-0030: of an application that niri knows the pid of, an undisturbed walk
\* returns the menu of the focused window.
THEOREM FocusedMenu ==
    ASSUME DepthSuffices
    PROVE  Spec => []MenuOfFocusedWindow
  <1>1. FindsTold => MenuOfFocusedWindow
    BY DEF FindsTold, Told, ToldByTitle, OnTheWay, MenuOfFocusedWindow, Undisturbed
  <1> QED
    BY <1>1, Finds, PTL

\* Of one that niri does not know the pid of, it does so if only this window
\* is active and the application's Name passes.
THEOREM ActiveMenu ==
    ASSUME DepthSuffices
    PROVE  Spec => []MenuOfActiveWindow
  <1>1. FindsTold => MenuOfActiveWindow
    BY DEF FindsTold, Told, ToldByState, OnTheWay, MenuOfActiveWindow, Undisturbed
  <1> QED
    BY <1>1, Finds, PTL

----------------------------------------------------------------------------
(* The rows of a walk                                                      *)

\* What a walk returns when it reads the menubar.
LEMMA FetchesMenuWhole ==
    ASSUME IInv, FetchesMenu
    PROVE  FetchedWhole'
  <1>1. pc = "fetch" /\ root \in Nodes
    BY DEF FetchesMenu, IInv, Phases
  <1>2. SUFFICES ASSUME seen'.quiet
                 PROVE  \A t \in menu' : \E n \in Nodes : t = FetchMenuTree(n, {})
    BY DEF FetchedWhole
  <1>3. ~Failed
    BY <1>2, TypeParts DEF Failed, IInv, TypeOK
  <1>4. PICK deaf :
           /\ IF deaf = {} THEN Heard ELSE Failed
           /\ LET tree == IF IsOpen(WindowOf(root)) THEN FetchMenuTree(root, deaf)
                          ELSE [node |-> root, rows |-> <<>>]
              IN  Returns(IF tree.rows = <<>> THEN {} ELSE {tree})
    BY DEF FetchesMenu
  <1>5. deaf = {}
    BY <1>3, <1>4
  <1> DEFINE tree == FetchMenuTree(root, {})
  <1>6. Returns({}) \/ Returns({tree})
    BY <1>4, <1>5
  <1> HIDE DEF tree
  <1>7. menu' \subseteq {tree}
    BY <1>6 DEF Returns
  <1> QED
    BY <1>1, <1>7 DEF tree

\* An undisturbed walk returns what it has read without a failure.
THEOREM Fetched == Spec => []FetchedWhole
  <1>1. Init => FetchedWhole
    BY DEF Init, FetchedWhole
  <1>2. ASSUME IInv, FetchedWhole, [Next]_vars PROVE FetchedWhole'
    <2>1. CASE UNCHANGED vars
      BY <1>2, <2>1 DEF vars, envVars, findVars, FetchedWhole
    <2>2. CASE Change
      <3>1. Changes
        BY <2>2 DEF Change, Opens, Closes, Retitles, Activates
      <3>2. seen'.quiet = FALSE
        BY <1>2, <3>1 DEF Changes, IInv, TypeOK
      <3> QED
        BY <3>2 DEF FetchedWhole
    <2>3. ASSUME NEW w \in Windows, NEW f \in BOOLEAN, NEW t \in Titles \cup {NoTitle},
                 Begin(w, f, t)
          PROVE  FetchedWhole'
      BY <2>3 DEF Begin, FetchedWhole
    <2>4. ASSUME Returns({}) PROVE FetchedWhole'
      BY <2>4 DEF Returns, FetchedWhole
    <2>5. CASE ReadRegistry \/ CountFrames \/ ReadFrame \/ ChooseFrame
      BY <2>5 DEF ReadRegistry, PassOne, CountFrames, ReadFrame, ChooseFrame, LooksIn,
                  FetchedWhole
    <2>6. CASE ScanCounts \/ ScanPasses
      BY <2>6 DEF ScanCounts, ScanPasses, Scanning, FetchedWhole
    <2>7. CASE ScanHits \/ ScanMisses
      BY <2>4, <2>7 DEF ScanHits, ScanMisses, Scanning, NextCandidate, ActiveHit, LooksIn,
                        FetchedWhole
    <2>8. CASE NameFallback \/ GivesUp
      BY <2>4, <2>8 DEF NameFallback, GivesUp, LooksIn, FetchedWhole
    <2>9. CASE FindsMenubar
      BY <2>4, <2>9 DEF FindsMenubar, FetchedWhole
    <2>10. CASE FetchesMenu
      BY <1>2, <2>10, FetchesMenuWhole
    <2> QED
      BY <1>2, <2>1, <2>2, <2>3, <2>5, <2>6, <2>7, <2>8, <2>9, <2>10 DEF Next
  <1> QED
    BY <1>1, <1>2, Invariant, PTL DEF Spec

\* Spec 009: the rows are what the application has, down to MAX_FETCH_DEPTH,
\* and none is a nameless one that hides the others.
THEOREM CompleteRows ==
    ASSUME NEW depth \in [Nodes -> Nat], IsForest(depth)
    PROVE  Spec => []RowsAreComplete
  <1>1. FetchedWhole => RowsAreComplete
    <2> SUFFICES ASSUME FetchedWhole, Undisturbed, NEW t \in menu
                 PROVE  /\ WrapperFree(t, {})
                        /\ {item.node : item \in ItemsOf(t)} = RowsBelow(t.node)
      BY DEF RowsAreComplete
    <2>1. PICK n \in Nodes : t = FetchMenuTree(n, {})
      BY DEF FetchedWhole, Undisturbed
    <2>2. t.node = n
      BY <2>1, FetchIsTree
    <2> QED
      BY <2>1, <2>2, FetchIsComplete
  <1> QED
    BY <1>1, Fetched, PTL

=============================================================================
