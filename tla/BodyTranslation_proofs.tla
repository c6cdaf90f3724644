------------------------ MODULE BodyTranslation_proofs ------------------------
(* What the translation of a body guarantees whatever the body: which blocks *)
(* are in the code, that the loops are computed exactly, which specification *)
(* each gets, and that the lifetimes it ends are right on every path of the  *)
(* code.                                                                     *)
EXTENDS CodeRun, FixedPoints

---------------------------------------------------------------------------
(* What paths reach is the least set that the graph does not lead out of.    *)
IsReach(graph, from, within, R) ==
  /\ R \in SUBSET within /\ from \cap within \subseteq R
  /\ \A b \in R : graph[b] \cap within \subseteq R
  /\ \A C \in SUBSET within :
       from \cap within \subseteq C /\ (\A b \in C : graph[b] \cap within \subseteq C) => R \subseteq C

LEMMA ReachLeast ==
  ASSUME NEW graph, NEW from, NEW within, IsFiniteSet(within)
  PROVE  IsReach(graph, from, within, Reach(graph, from, within))
<1> DEFINE grown(set) == set \cup ((UNION {graph[b] : b \in set}) \cap within)
           Upto(f) == f = [n \in 0..Cardinality(within) |->
                             IF n = 0 THEN from \cap within ELSE grown(f[n - 1])]
           upto == CHOOSE f : Upto(f)
           step == [S \in SUBSET within |-> grown(S)]
           start == from \cap within
           N == Cardinality(within)
<1>1. Reach(graph, from, within) = upto[N]
  BY DEF Reach
<1>2. Inflationary(within, step)
  BY DEF Inflationary
<1>3. N \in Nat /\ start \in SUBSET within
  BY FS_CardinalityType
<1>4. \A S \in SUBSET within : grown(S) \in SUBSET within /\ step[S] = grown(S)
  OBVIOUS
<1>5. PICK g : Iterates(N, step, start, g)
  <2> HIDE DEF step, start, N
  <2> QED BY <1>3, IterationExists
<1> DEFINE T(f) == {n \in 0..N : f[n] \in SUBSET within}
<1>6. ASSUME NEW f, \A n \in 0..N : f[n] = IF n = 0 THEN start ELSE grown(f[n - 1])
      PROVE  \A n \in 0..N : f[n] \in SUBSET within
  <2>1. 0 \in T(f)
    <3> HIDE DEF grown, N, start
    <3> QED BY <1>3, <1>6
  <2>2. ASSUME NEW n \in 0..(N - 1), n \in T(f) PROVE n + 1 \in T(f)
    <3>1. n + 1 \in 0..N /\ n + 1 # 0 /\ (n + 1) - 1 = n
      BY <1>3
    <3>2. f[n] \in SUBSET within /\ f[n + 1] = grown(f[n])
      <4> HIDE DEF grown, N, start
      <4> QED BY <1>6, <2>2, <3>1
    <3>3. f[n + 1] \in SUBSET within
      BY <1>4, <3>2
    <3> QED BY <3>1, <3>3
  <2>3. \A n \in 0..N : n \in T(f)
    <3> HIDE DEF T, N
    <3> QED BY <1>3, <2>1, <2>2, RangeInduction
  <2> QED BY <2>3
<1>7. \A n \in 0..N : g[n] = IF n = 0 THEN start ELSE step[g[n - 1]]
  <2> HIDE DEF step, start, N
  <2> QED BY <1>5 DEF Iterates
<1>8. \A n \in 0..N : g[n] \in SUBSET within
  <2> DEFINE U == {n \in 0..N : g[n] \in SUBSET within}
  <2>1. 0 \in U
    <3> HIDE DEF step, N, start
    <3> QED BY <1>3, <1>7
  <2>2. ASSUME NEW n \in 0..(N - 1), n \in U PROVE n + 1 \in U
    <3>1. n + 1 \in 0..N /\ n + 1 # 0 /\ (n + 1) - 1 = n
      BY <1>3
    <3>2. g[n] \in SUBSET within /\ g[n + 1] = step[g[n]]
      <4> HIDE DEF step, N, start
      <4> QED BY <1>7, <2>2, <3>1
    <3>3. g[n + 1] \in SUBSET within
      BY <1>4, <3>2
    <3> QED BY <3>1, <3>3
  <2>3. \A n \in 0..N : n \in U
    <3> HIDE DEF U, N
    <3> QED BY <1>3, <2>1, <2>2, RangeInduction
  <2> QED BY <2>3
<1>9. Upto(g)
  <2> HIDE DEF step, grown, start, N
  <2>1. \A n \in 0..N : n # 0 => n - 1 \in 0..N
    BY <1>3
  <2>2. \A n \in 0..N : g[n] = IF n = 0 THEN start ELSE grown(g[n - 1])
    BY <1>4, <1>7, <1>8, <2>1
  <2>3. g = [n \in 0..N |-> IF n = 0 THEN start ELSE step[g[n - 1]]]
    BY <1>5 DEF Iterates
  <2>4. g = [n \in 0..N |-> IF n = 0 THEN start ELSE grown(g[n - 1])]
    <3> DEFINE h == [n \in 0..N |-> IF n = 0 THEN start ELSE grown(g[n - 1])]
    <3>1. g = [n \in 0..N |-> g[n]]
      BY <2>3
    <3>2. \A n \in 0..N : h[n] = g[n]
      BY <2>2
    <3>3. h = [n \in 0..N |-> h[n]]
      OBVIOUS
    <3> HIDE DEF h
    <3>4. g = h
      BY <3>1, <3>2, <3>3
    <3> QED BY <3>4 DEF h
  <2> QED BY <2>4 DEF start, N
<1>10. Upto(upto)
  <2> HIDE DEF Upto
  <2> QED BY <1>9
<1>11. \A n \in 0..N : upto[n] = IF n = 0 THEN start ELSE grown(upto[n - 1])
  <2> HIDE DEF upto, grown
  <2> QED BY <1>10
<1>12. \A n \in 0..N : upto[n] \in SUBSET within
  <2> HIDE DEF upto, grown, start, N, T
  <2> QED BY <1>6, <1>11
<1>13. Iterates(N, step, start, upto)
  <2>1. \A n \in 0..N : n # 0 => n - 1 \in 0..N
    BY <1>3
  <2>2. upto = [n \in 0..N |-> upto[n]]
    <3> HIDE DEF upto, grown
    <3> QED BY <1>10
  <2> DEFINE h == [n \in 0..N |-> IF n = 0 THEN start ELSE step[upto[n - 1]]]
  <2> HIDE DEF step, grown, start, N, upto
  <2>3. \A n \in 0..N : h[n] = upto[n]
    BY <1>4, <1>11, <1>12, <2>1
  <2>4. h = [n \in 0..N |-> h[n]]
    OBVIOUS
  <2> HIDE DEF h
  <2>5. upto = h
    BY <2>2, <2>3, <2>4
  <2> QED BY <2>5 DEF h, Iterates
<1>14. LeastFixedPoint(within, step, start, upto[N])
  <2> HIDE DEF step, start, upto
  <2> QED BY <1>2, <1>3, <1>13, IterationFixed
<1> DEFINE R == upto[N]
<1>15. /\ R \in SUBSET within /\ start \subseteq R /\ grown(R) = R
       /\ \A C \in SUBSET within : start \subseteq C /\ (\A S \in SUBSET C : grown(S) \subseteq C) => R \subseteq C
  <2> HIDE DEF upto, grown, start, N
  <2>1. \A C \in SUBSET within : \A S \in SUBSET C : S \in SUBSET within
    OBVIOUS
  <2> QED BY <1>4, <1>14, <2>1 DEF LeastFixedPoint, ClosedUnder
<1> HIDE DEF R
<1>16. \A C : (\A b \in C : graph[b] \cap within \subseteq C) => \A S \in SUBSET C : grown(S) \subseteq C
  OBVIOUS
<1>17. \A b \in R : graph[b] \cap within \subseteq R
  BY <1>15
<1>18. ASSUME NEW C \in SUBSET within, start \subseteq C, \A b \in C : graph[b] \cap within \subseteq C
       PROVE  R \subseteq C
  <2>1. \A S \in SUBSET C : grown(S) \subseteq C
    BY <1>16, <1>18
  <2> HIDE DEF grown, start
  <2> QED BY <1>15, <1>18, <2>1
<1>19. IsReach(graph, from, within, R)
  <2> HIDE DEF grown
  <2>1. R \in SUBSET within /\ from \cap within \subseteq R
    BY <1>15
  <2> QED BY <2>1, <1>17, <1>18 DEF IsReach
<1> QED
  BY <1>1, <1>19 DEF R

---------------------------------------------------------------------------
(* Dominators.  `Avoiding(a)` are the blocks that some path from the start   *)
(* reaches without meeting a: those that a does not dominate.                *)
Avoiding(a) == Reach(CfgGraph(body), {START_BLOCK}, DOMAIN body \ {a})

LEMMA BodyTyped ==
  ASSUME body \in Bodies
  PROVE  /\ IsFiniteSet(DOMAIN body) /\ DOMAIN body \subseteq Nat /\ START_BLOCK \in DOMAIN body
         /\ \A b \in DOMAIN body :
              /\ CfgSuccessors(body, b) \subseteq DOMAIN body \ {START_BLOCK}
              /\ successors(body, b) \in Seq(DOMAIN body)
              /\ ToSet(successors(body, b)) \subseteq CfgSuccessors(body, b)
              /\ body[b].stmts \in Seq(ToSet(body[b].stmts))
<1>1. IsMirBody(body)
  BY BodiesAssumption
<1>2. ASSUME NEW b \in DOMAIN body
      PROVE  /\ successors(body, b) \in Seq(DOMAIN body)
             /\ ToSet(successors(body, b)) \subseteq CfgSuccessors(body, b)
  <2> DEFINE term == body[b].term
  <2>1. IsTerm(term, DOMAIN body)
    BY <1>1 DEF IsMirBody
  <2>2. successors(body, b) = real_targets(term)
    BY DEF successors
  <2>3. ToSet(term.targets) \subseteq CfgSuccessors(body, b)
    BY DEF CfgSuccessors
  <2> HIDE DEF term
  <2>4. term.targets \in Seq(DOMAIN body) /\ (term.kind \in StepKinds => term.targets # <<>>)
    BY <2>1 DEF IsTerm
  <2>5. CASE term.kind \in EndKinds
    BY <2>2, <2>5 DEF real_targets, ToSet
  <2>6. CASE term.kind \notin EndKinds /\ term.kind \in StepKinds
    <3>1. 1 \in DOMAIN term.targets /\ term.targets[1] \in DOMAIN body
      BY <2>4, <2>6
    <3>2. successors(body, b) = <<term.targets[1]>>
      BY <2>2, <2>6 DEF real_targets
    <3>3. ToSet(successors(body, b)) = {term.targets[1]} /\ term.targets[1] \in ToSet(term.targets)
      BY <3>1, <3>2 DEF ToSet
    <3> QED BY <2>3, <3>1, <3>2, <3>3
  <2>7. CASE term.kind \notin EndKinds /\ term.kind \notin StepKinds
    BY <2>2, <2>3, <2>4, <2>7 DEF real_targets
  <2> QED BY <2>5, <2>6, <2>7
<1> QED
  BY <1>1, <1>2 DEF IsMirBody

LEMMA AvoidingLeast ==
  ASSUME body \in Bodies, NEW a
  PROVE  /\ Avoiding(a) \in SUBSET (DOMAIN body \ {a})
         /\ START_BLOCK # a => START_BLOCK \in Avoiding(a)
         /\ START_BLOCK = a => Avoiding(a) = {}
         /\ \A b \in Avoiding(a) : CfgSuccessors(body, b) \ {a} \subseteq Avoiding(a)
         /\ \A C \in SUBSET (DOMAIN body \ {a}) :
              START_BLOCK \in C /\ (\A b \in C : CfgSuccessors(body, b) \ {a} \subseteq C) => Avoiding(a) \subseteq C
<1> DEFINE graph == CfgGraph(body)
           within == DOMAIN body \ {a}
<1>1. /\ IsFiniteSet(DOMAIN body) /\ START_BLOCK \in DOMAIN body
      /\ \A b \in DOMAIN body : CfgSuccessors(body, b) \subseteq DOMAIN body
  BY BodyTyped
<1>2. IsFiniteSet(within)
  BY <1>1, FS_Subset
<1>3. \A b \in DOMAIN body : graph[b] = CfgSuccessors(body, b)
  BY DEF CfgGraph
<1>4. Avoiding(a) = Reach(graph, {START_BLOCK}, within)
  BY DEF Avoiding
<1> HIDE DEF graph
<1>5. IsReach(graph, {START_BLOCK}, within, Avoiding(a))
  BY <1>2, <1>4, ReachLeast
<1>6. \A C \in SUBSET within :
        {START_BLOCK} \cap within \subseteq C /\ (\A b \in C : graph[b] \cap within \subseteq C) => Avoiding(a) \subseteq C
  BY <1>5 DEF IsReach
<1>7. \A b \in within : graph[b] \cap within = CfgSuccessors(body, b) \ {a}
  BY <1>1, <1>3
<1>8. /\ Avoiding(a) \in SUBSET within /\ {START_BLOCK} \cap within \subseteq Avoiding(a)
      /\ \A b \in Avoiding(a) : CfgSuccessors(body, b) \ {a} \subseteq Avoiding(a)
  BY <1>5, <1>7 DEF IsReach
<1>9. ASSUME START_BLOCK = a PROVE Avoiding(a) = {}
  <2>1. {START_BLOCK} \cap within \subseteq {} /\ {} \in SUBSET within
    BY <1>9
  <2> HIDE DEF within
  <2>2. Avoiding(a) \subseteq {}
    BY <1>6, <2>1
  <2> QED BY <2>2
<1>10. ASSUME NEW C \in SUBSET within, START_BLOCK \in C, \A b \in C : CfgSuccessors(body, b) \ {a} \subseteq C
       PROVE  Avoiding(a) \subseteq C
  <2>1. \A b \in C : graph[b] \cap within \subseteq C
    BY <1>7, <1>10
  <2>2. {START_BLOCK} \cap within \subseteq C
    BY <1>10
  <2> HIDE DEF within
  <2> QED BY <1>6, <1>10, <2>1, <2>2
<1> QED
  BY <1>1, <1>8, <1>9, <1>10

LEMMA AllReached ==
  ASSUME body \in Bodies, NEW C \in SUBSET DOMAIN body, START_BLOCK \in C,
         \A b \in C : CfgSuccessors(body, b) \subseteq C
  PROVE  C = DOMAIN body
<1> DEFINE graph == CfgGraph(body)
<1>1. /\ IsFiniteSet(DOMAIN body)
      /\ \A b \in DOMAIN body : graph[b] = CfgSuccessors(body, b)
  BY BodyTyped DEF CfgGraph
<1>2. Reach(graph, {START_BLOCK}, DOMAIN body) = DOMAIN body
  BY BodiesAssumption DEF IsMirBody
<1> HIDE DEF graph
<1>3. IsReach(graph, {START_BLOCK}, DOMAIN body, DOMAIN body)
  BY <1>1, <1>2, ReachLeast
<1>4. {START_BLOCK} \cap DOMAIN body \subseteq C /\ \A b \in C : graph[b] \cap DOMAIN body \subseteq C
  BY <1>1
<1>5. DOMAIN body \subseteq C
  BY <1>3, <1>4 DEF IsReach
<1> QED
  BY <1>5

LEMMA Dominated ==
  ASSUME NEW a, NEW b
  PROVE  dominates(body, a, b) <=> b = a \/ b \notin Avoiding(a)
BY DEF dominates, Avoiding

(* Dominance is antisymmetric, two dominators of a block are comparable, and *)
(* what dominates a block and is not the block dominates those it is entered *)
(* from.                                                                     *)
LEMMA DominatorsDiffer ==
  ASSUME body \in Bodies, NEW a \in DOMAIN body, NEW b \in DOMAIN body,
         dominates(body, a, b), dominates(body, b, a)
  PROVE  a = b
<1> SUFFICES ASSUME a # b PROVE FALSE
  OBVIOUS
<1>1. b \notin Avoiding(a) /\ a \notin Avoiding(b)
  BY Dominated
<1> DEFINE C == Avoiding(a) \cap Avoiding(b)
<1>2. START_BLOCK \in C
  BY <1>1, AvoidingLeast
<1>3. \A c \in C : CfgSuccessors(body, c) \subseteq C
  <2> TAKE c \in C
  <2>1. CfgSuccessors(body, c) \ {a} \subseteq Avoiding(a) /\ CfgSuccessors(body, c) \ {b} \subseteq Avoiding(b)
    BY AvoidingLeast
  <2> QED BY <1>1, <2>1
<1>4. C \in SUBSET (DOMAIN body \ {a})
  BY AvoidingLeast
<1>5. C = DOMAIN body
  <2> HIDE DEF C
  <2> QED BY <1>2, <1>3, <1>4, AllReached
<1> QED
  BY <1>4, <1>5

LEMMA DominatorsChain ==
  ASSUME body \in Bodies, NEW a \in DOMAIN body, NEW b \in DOMAIN body, NEW x \in DOMAIN body,
         dominates(body, a, x), dominates(body, b, x)
  PROVE  dominates(body, a, b) \/ dominates(body, b, a)
<1> SUFFICES ASSUME ~dominates(body, a, b), ~dominates(body, b, a) PROVE FALSE
  OBVIOUS
<1>1. b # a /\ b \in Avoiding(a) /\ a \in Avoiding(b)
  BY Dominated
<1> DEFINE C == Avoiding(a) \cup Avoiding(b)
<1>2. START_BLOCK \in C
  BY <1>1, AvoidingLeast
<1>3. \A c \in C : CfgSuccessors(body, c) \subseteq C
  <2>1. \A c \in Avoiding(a) : CfgSuccessors(body, c) \ {a} \subseteq Avoiding(a)
    BY AvoidingLeast
  <2>2. \A c \in Avoiding(b) : CfgSuccessors(body, c) \ {b} \subseteq Avoiding(b)
    BY AvoidingLeast
  <2> QED BY <1>1, <2>1, <2>2
<1>4. C \in SUBSET DOMAIN body
  BY AvoidingLeast
<1>5. C = DOMAIN body
  <2> HIDE DEF C
  <2> QED BY <1>2, <1>3, <1>4, AllReached
<1>6. x \in Avoiding(a) \/ x \in Avoiding(b)
  BY <1>5
<1>7. (x = a \/ x \notin Avoiding(a)) /\ (x = b \/ x \notin Avoiding(b))
  BY Dominated
<1> QED
  BY <1>1, <1>6, <1>7, AvoidingLeast

LEMMA DominatorEnters ==
  ASSUME body \in Bodies, NEW a \in DOMAIN body, NEW p \in DOMAIN body, NEW b \in CfgSuccessors(body, p),
         dominates(body, a, b), a # b
  PROVE  dominates(body, a, p)
<1>1. b \notin Avoiding(a)
  BY Dominated
<1>2. p \in Avoiding(a) => b \in Avoiding(a)
  BY AvoidingLeast
<1> QED
  BY <1>1, <1>2, Dominated

---------------------------------------------------------------------------
(* Natural loops: the least sets that hold the head and what leads to its    *)
(* back edges, without going up from the head.                               *)
LEMMA LoopLeast ==
  ASSUME body \in Bodies, NEW h \in DOMAIN body
  PROVE  /\ h \in NaturalLoop(h) /\ NaturalLoop(h) \in SUBSET DOMAIN body
         /\ BackSources(h) \subseteq NaturalLoop(h)
         /\ \A b \in NaturalLoop(h) : b # h => predecessors(body, b) \subseteq NaturalLoop(h)
         /\ \A C \in SUBSET DOMAIN body :
              h \in C /\ BackSources(h) \subseteq C /\ (\A b \in C : b # h => predecessors(body, b) \subseteq C)
                => NaturalLoop(h) \subseteq C
<1> DEFINE within == DOMAIN body \ {h}
           from == BackSources(h) \ {h}
           up == Reach(Upwards, from, within)
<1>1. IsFiniteSet(within)
  BY BodyTyped, FS_Subset
<1>2. NaturalLoop(h) = {h} \cup up
  BY DEF NaturalLoop
<1>3. from \cap within = from /\ BackSources(h) \subseteq DOMAIN body
  BY DEF BackSources
<1>4. \A b \in within : Upwards[b] = predecessors(body, b) /\ predecessors(body, b) \subseteq DOMAIN body
  BY DEF Upwards, predecessors
<1>5. IsReach(Upwards, from, within, up)
  <2> HIDE DEF within, from
  <2> QED BY <1>1, ReachLeast
<1> HIDE DEF up, from
<1>6. up \in SUBSET within /\ from \subseteq up /\ \A b \in up : Upwards[b] \cap within \subseteq up
  BY <1>3, <1>5 DEF IsReach
<1>7. \A C \in SUBSET within : from \subseteq C /\ (\A b \in C : Upwards[b] \cap within \subseteq C) => up \subseteq C
  BY <1>3, <1>5 DEF IsReach
<1>8. \A b \in up : predecessors(body, b) \subseteq {h} \cup up
  BY <1>4, <1>6
<1>9. ASSUME NEW C \in SUBSET DOMAIN body, h \in C, BackSources(h) \subseteq C,
             \A b \in C : b # h => predecessors(body, b) \subseteq C
      PROVE  {h} \cup up \subseteq C
  <2>1. C \ {h} \in SUBSET within /\ from \subseteq C \ {h}
    BY <1>9 DEF from
  <2>2. \A b \in C \ {h} : Upwards[b] \cap within \subseteq C \ {h}
    BY <1>4, <1>9
  <2> HIDE DEF within
  <2>3. up \subseteq C \ {h}
    BY <1>7, <2>1, <2>2
  <2> QED BY <1>9, <2>3
<1>10. BackSources(h) \subseteq {h} \cup up
  BY <1>6 DEF from
<1> QED
  BY <1>2, <1>6, <1>8, <1>9, <1>10

LEMMA LoopDominated ==
  ASSUME body \in Bodies, NEW h \in DOMAIN body, NEW b \in NaturalLoop(h)
  PROVE  dominates(body, h, b)
<1> DEFINE C == {c \in DOMAIN body : dominates(body, h, c)}
<1>1. h \in C
  BY Dominated
<1>2. BackSources(h) \subseteq C
  BY DEF BackSources
<1>3. ASSUME NEW c \in C, c # h PROVE predecessors(body, c) \subseteq C
  <2> SUFFICES ASSUME NEW p \in predecessors(body, c) PROVE p \in C
    OBVIOUS
  <2>1. p \in DOMAIN body /\ c \in CfgSuccessors(body, p)
    BY BodyTyped DEF predecessors
  <2>2. dominates(body, h, p)
    BY <1>3, <2>1, DominatorEnters
  <2> QED BY <2>1, <2>2
<1>4. NaturalLoop(h) \subseteq C
  <2> HIDE DEF C
  <2>1. C \in SUBSET DOMAIN body
    BY DEF C
  <2> QED BY <1>1, <1>2, <1>3, <2>1, LoopLeast
<1> QED
  BY <1>4

(* A loop whose head is in another is inside it.                             *)
LEMMA LoopInside ==
  ASSUME body \in Bodies, NEW h \in DOMAIN body, NEW k \in DOMAIN body, k # h, k \in NaturalLoop(h)
  PROVE  h \notin NaturalLoop(k) /\ NaturalLoop(k) \subseteq NaturalLoop(h)
<1>1. h \notin NaturalLoop(k)
  <2> SUFFICES ASSUME h \in NaturalLoop(k) PROVE FALSE
    OBVIOUS
  <2>1. dominates(body, h, k) /\ dominates(body, k, h)
    BY LoopDominated
  <2> QED BY <2>1, DominatorsDiffer
<1> DEFINE C == NaturalLoop(k) \cap NaturalLoop(h)
<1>2. C \in SUBSET DOMAIN body /\ k \in C
  BY LoopLeast
<1>3. BackSources(k) \subseteq C
  <2>1. BackSources(k) \subseteq predecessors(body, k)
    BY DEF BackSources, predecessors
  <2>2. predecessors(body, k) \subseteq NaturalLoop(h) /\ BackSources(k) \subseteq NaturalLoop(k)
    BY LoopLeast
  <2> QED BY <2>1, <2>2
<1>4. \A c \in C : c # k => predecessors(body, c) \subseteq C
  <2> SUFFICES ASSUME NEW c \in C, c # k PROVE predecessors(body, c) \subseteq C
    OBVIOUS
  <2>1. c # h
    BY <1>1
  <2> QED BY <2>1, LoopLeast
<1>5. NaturalLoop(k) \subseteq C
  <2> HIDE DEF C
  <2> QED BY <1>2, <1>3, <1>4, LoopLeast
<1> QED
  BY <1>1, <1>5

(* Loops that are really entered and share a block are inside each other.    *)
LEMMA LoopsMeet ==
  ASSUME body \in Bodies, NEW h \in DOMAIN body, NEW k \in DOMAIN body, k # h, EnteredReally(k),
         dominates(body, h, k), NEW b \in NaturalLoop(h), b \in NaturalLoop(k)
  PROVE  k \in NaturalLoop(h)
<1> SUFFICES ASSUME k \notin NaturalLoop(h) PROVE FALSE
  OBVIOUS
<1>1. h \notin NaturalLoop(k)
  <2> SUFFICES ASSUME h \in NaturalLoop(k) PROVE FALSE
    OBVIOUS
  <2>1. dominates(body, k, h)
    BY LoopDominated
  <2> QED BY <2>1, DominatorsDiffer
<1> DEFINE C == NaturalLoop(k) \ NaturalLoop(h)
           graph == RealGraph(body)
<1>2. IsFiniteSet(NaturalLoop(k)) /\ C \in SUBSET NaturalLoop(k) /\ {k} \cap NaturalLoop(k) \subseteq C
  BY BodyTyped, LoopLeast, FS_Subset
<1>3. \A c \in C : graph[c] \cap NaturalLoop(k) \subseteq C
  <2> SUFFICES ASSUME NEW c \in C, NEW s \in graph[c] \cap NaturalLoop(k), s \in NaturalLoop(h) PROVE FALSE
    OBVIOUS
  <2>1. c \in DOMAIN body
    BY LoopLeast
  <2>2. c \in predecessors(body, s)
    BY <2>1 DEF predecessors, RealGraph
  <2>3. s # h
    BY <1>1
  <2>4. c \in NaturalLoop(h)
    BY <2>2, <2>3, LoopLeast
  <2> QED BY <2>4
<1>4. IsReach(graph, {k}, NaturalLoop(k), Reach(graph, {k}, NaturalLoop(k)))
  <2> HIDE DEF graph
  <2> QED BY <1>2, ReachLeast
<1>5. Reach(graph, {k}, NaturalLoop(k)) \subseteq C
  <2> HIDE DEF C, graph
  <2> QED BY <1>2, <1>3, <1>4 DEF IsReach
<1>6. NaturalLoop(k) \subseteq C
  BY <1>5 DEF EnteredReally
<1> QED
  BY <1>6

LEMMA LoopsNested ==
  ASSUME body \in Bodies, NEW h \in DOMAIN body, NEW k \in DOMAIN body, k # h,
         EnteredReally(h), EnteredReally(k), NEW b \in NaturalLoop(h), b \in NaturalLoop(k)
  PROVE  k \in NaturalLoop(h) \/ h \in NaturalLoop(k)
<1>1. b \in DOMAIN body /\ dominates(body, h, b) /\ dominates(body, k, b)
  BY LoopLeast, LoopDominated
<1>2. dominates(body, h, k) \/ dominates(body, k, h)
  BY <1>1, DominatorsChain
<1> QED
  BY <1>2, LoopsMeet

---------------------------------------------------------------------------
(* The deepest loop around a block is the one that owns it.                  *)
LEMMA DeepestOwns ==
  ASSUME body \in Bodies, NEW bodies, bodies = [h \in Heads |-> NaturalLoop(h)],
         \A h \in Heads : EnteredReally(h), NEW h \in Heads, NEW b \in DOMAIN body
  PROVE  get_loop_head(bodies, b) = h <=> b \in OwnBlocks(h)
<1> DEFINE around(c) == enclosing_loop_heads_set(bodies, c)
           depth(k) == loop_head_depth(bodies, k)
           heads == around(b)
           deepest == {k \in heads : \A j \in heads : depth(j) <= depth(k)}
<1>1. Heads \subseteq DOMAIN body /\ DOMAIN body \subseteq Nat /\ IsFiniteSet(Heads)
  BY BodyTyped, FS_Subset DEF Heads
<1>2. \A c : around(c) = {k \in Heads : c \in NaturalLoop(k)}
  BY DEF enclosing_loop_heads_set
<1>3. \A k : depth(k) = Cardinality(around(k))
  BY DEF loop_head_depth
<1>4. get_loop_head(bodies, b) = IF heads = {} THEN -1 ELSE Max(deepest)
  BY DEF get_loop_head
<1> HIDE DEF around, depth
<1>5. \A k : IsFiniteSet(around(k)) /\ around(k) \subseteq Heads /\ depth(k) \in Nat
  BY <1>1, <1>2, <1>3, FS_Subset, FS_CardinalityType
<1>6. ASSUME NEW j \in Heads, NEW k \in Heads, j # k, k \in NaturalLoop(j) PROVE depth(j) < depth(k)
  <2>1. j \notin NaturalLoop(k) /\ NaturalLoop(k) \subseteq NaturalLoop(j) /\ k \in NaturalLoop(k)
    BY <1>1, <1>6, LoopInside, LoopLeast
  <2>2. ASSUME NEW i \in around(j) PROVE i \in around(k)
    <3>1. i \in Heads /\ j \in NaturalLoop(i)
      BY <1>2, <2>2
    <3>2. CASE i = j
      BY <1>2, <1>6, <3>2
    <3>3. CASE i # j
      <4>1. NaturalLoop(j) \subseteq NaturalLoop(i)
        BY <1>1, <3>1, <3>3, LoopInside
      <4> QED BY <1>2, <1>6, <3>1, <4>1
    <3> QED BY <3>2, <3>3
  <2>3. k \in around(k) /\ k \notin around(j)
    <3> SUFFICES ASSUME k \in around(j) PROVE FALSE
      BY <1>2, <2>1
    <3>1. j \in NaturalLoop(k)
      BY <1>2
    <3> QED BY <2>1, <3>1
  <2>4. around(j) \in SUBSET around(k) /\ around(j) # around(k)
    BY <2>2, <2>3
  <2> QED BY <1>3, <1>5, <2>4, FS_Subset
<1>7. ASSUME NEW j \in heads, NEW k \in heads, j # k
      PROVE  (k \in NaturalLoop(j) /\ depth(j) < depth(k)) \/ (j \in NaturalLoop(k) /\ depth(k) < depth(j))
  <2>1. j \in Heads /\ k \in Heads /\ b \in NaturalLoop(j) /\ b \in NaturalLoop(k)
    BY <1>2
  <2>2. k \in NaturalLoop(j) \/ j \in NaturalLoop(k)
    BY <1>1, <1>7, <2>1, LoopsNested
  <2> QED BY <1>6, <1>7, <2>1, <2>2
<1>8. b \in OwnBlocks(h) <=> h \in heads /\ \A k \in heads : k # h => k \notin NaturalLoop(h)
  <2>1. b \in OwnBlocks(h) <=> b \in NaturalLoop(h) /\ \A k \in Heads : k \in NaturalLoop(h) /\ k # h => b \notin NaturalLoop(k)
    BY DEF OwnBlocks
  <2> QED BY <1>2, <2>1
<1>9. heads \subseteq Heads /\ heads \subseteq Nat
  BY <1>1, <1>5
<1> HIDE DEF heads
<1>10. ASSUME b \in OwnBlocks(h) PROVE get_loop_head(bodies, b) = h
  <2>1. h \in heads /\ \A k \in heads : k # h => k \notin NaturalLoop(h) /\ depth(k) < depth(h)
    BY <1>7, <1>8, <1>10
  <2>2. deepest = {h}
    <3>1. \A k \in heads : depth(k) <= depth(h)
      BY <1>5, <2>1
    <3>2. \A k \in deepest : k = h
      BY <1>5, <2>1
    <3> QED BY <2>1, <3>1, <3>2
  <2>3. Max({h}) = h
    <3>1. h \in Nat
      BY <1>1
    <3> QED BY <3>1 DEF Max
  <2> HIDE DEF deepest
  <2> QED BY <1>4, <2>1, <2>2, <2>3
<1>11. ASSUME get_loop_head(bodies, b) = h PROVE b \in OwnBlocks(h)
  <2>1. heads # {} /\ Max(deepest) = h
    BY <1>1, <1>4, <1>11
  <2> DEFINE R == {e \in Heads \X Heads : depth(e[1]) < depth(e[2])}
  <2>2. \E k \in heads : \A j \in heads : <<k, j>> \notin R
    <3>1. \A j \in Heads : <<j, j>> \notin R
      BY <1>5
    <3>2. \A i, j, k \in Heads : <<i, j>> \in R /\ <<j, k>> \in R => <<i, k>> \in R
      BY <1>5
    <3>3. \A S \in SUBSET Heads : S # {} => \E k \in S : \A j \in S : <<k, j>> \notin R
      <4> HIDE DEF R
      <4> QED BY <1>1, <3>1, <3>2, MaximalElement
    <3> HIDE DEF R
    <3> QED BY <1>9, <2>1, <3>3
  <2>3. PICK k \in heads : \A j \in heads : ~(depth(k) < depth(j))
    BY <1>9, <2>2
  <2>4. k \in deepest
    BY <1>5, <2>3
  <2>5. deepest \subseteq Nat /\ IsFiniteSet(deepest) /\ deepest # {}
    BY <1>1, <1>9, <2>4, FS_Subset
  <2>6. \E x \in deepest : \A y \in deepest : x >= y
    <3> DEFINE G == {e \in deepest \X deepest : e[1] < e[2]}
    <3> HIDE DEF deepest
    <3>1. \A x \in deepest : <<x, x>> \notin G
      BY <2>5
    <3>2. \A x, y, z \in deepest : <<x, y>> \in G /\ <<y, z>> \in G => <<x, z>> \in G
      BY <2>5
    <3>3. \A S \in SUBSET deepest : S # {} => \E x \in S : \A y \in S : <<x, y>> \notin G
      <4> HIDE DEF G
      <4> QED BY <2>5, <3>1, <3>2, MaximalElement
    <3>4. \E x \in deepest : \A y \in deepest : <<x, y>> \notin G
      <4> HIDE DEF G
      <4> QED BY <2>5, <3>3
    <3>5. \A x, y \in deepest : x >= y <=> <<x, y>> \notin G
      BY <2>5
    <3> HIDE DEF G
    <3> QED BY <3>4, <3>5
  <2>7. Max(deepest) \in deepest
    <3> HIDE DEF deepest
    <3> QED BY <2>6 DEF Max
  <2>8. h \in heads /\ \A j \in heads : depth(j) <= depth(h)
    BY <2>1, <2>7
  <2>9. \A j \in heads : j # h => j \notin NaturalLoop(h)
    <3> SUFFICES ASSUME NEW j \in heads, j # h, j \in NaturalLoop(h) PROVE FALSE
      OBVIOUS
    <3>1. depth(h) < depth(j)
      BY <1>6, <1>9
    <3> QED BY <1>5, <2>8, <3>1
  <2> QED BY <1>8, <2>8, <2>9
<1> QED
  BY <1>10, <1>11

---------------------------------------------------------------------------
(* `Kept` takes the elements of a set from a sequence, in their order: it    *)
(* picks rising places of the first i ones.                                  *)
Picks(kept, s, i) ==
  \E g \in [1..Len(kept) -> 1..i] :
    /\ \A n \in 1..Len(kept) : kept[n] = s[g[n]]
    /\ \A m, n \in 1..Len(kept) : m < n => g[m] < g[n]

LEMMA PicksLater ==
  ASSUME NEW kept, NEW s, NEW i \in Nat, Picks(kept, s, i)
  PROVE  Picks(kept, s, i + 1)
<1>1. PICK g \in [1..Len(kept) -> 1..i] :
        /\ \A n \in 1..Len(kept) : kept[n] = s[g[n]]
        /\ \A m, n \in 1..Len(kept) : m < n => g[m] < g[n]
  BY DEF Picks
<1>2. g \in [1..Len(kept) -> 1..(i + 1)]
  OBVIOUS
<1> QED
  BY <1>1, <1>2 DEF Picks

LEMMA PicksNext ==
  ASSUME NEW S, NEW kept \in Seq(S), NEW s, NEW i \in Nat, s[i + 1] \in S, Picks(kept, s, i)
  PROVE  Picks(kept \o <<s[i + 1]>>, s, i + 1)
<1> DEFINE more == kept \o <<s[i + 1]>>
           len == Len(kept)
<1>1. len \in Nat /\ Len(more) = len + 1 /\ more[len + 1] = s[i + 1] /\ \A n \in 1..len : more[n] = kept[n]
  OBVIOUS
<1>2. PICK g \in [1..len -> 1..i] :
        /\ \A n \in 1..len : kept[n] = s[g[n]]
        /\ \A m, n \in 1..len : m < n => g[m] < g[n]
  BY DEF Picks
<1> DEFINE h == [n \in 1..(len + 1) |-> IF n = len + 1 THEN i + 1 ELSE g[n]]
<1> HIDE DEF more, len
<1>3. \A n \in 1..(len + 1) : n = len + 1 \/ n \in 1..len
  BY <1>1
<1>4. /\ h[len + 1] = i + 1 /\ len + 1 \in 1..(len + 1)
      /\ \A n \in 1..len : h[n] = g[n] /\ h[n] \in 1..i
  BY <1>1
<1>5. h \in [1..(len + 1) -> 1..(i + 1)]
  BY <1>3, <1>4
<1> HIDE DEF h
<1>6. \A n \in 1..(len + 1) : more[n] = s[h[n]]
  BY <1>1, <1>2, <1>3, <1>4
<1>7. ASSUME NEW m \in 1..(len + 1), NEW n \in 1..(len + 1), m < n PROVE h[m] < h[n]
  <2>1. m \in 1..len
    BY <1>1, <1>7
  <2>2. CASE n = len + 1
    BY <1>4, <2>1, <2>2
  <2>3. CASE n \in 1..len
    BY <1>2, <1>4, <1>7, <2>1, <2>3
  <2> QED BY <1>3, <2>2, <2>3
<1>8. Picks(more, s, i + 1)
  BY <1>1, <1>5, <1>6, <1>7 DEF Picks
<1> QED
  BY <1>8 DEF more

LEMMA KeptElements ==
  ASSUME NEW S, NEW s \in Seq(S), NEW set
  PROVE  /\ Kept(s, set) \in Seq(S) /\ ToSet(Kept(s, set)) = ToSet(s) \cap set
         /\ Picks(Kept(s, set), s, Len(s))
<1> DEFINE one(i) == IF s[i] \in set THEN <<s[i]>> ELSE <<>>
           seqs == [i \in DOMAIN s |-> one(i)]
<1>1. DOMAIN s = 1..Len(s) /\ Len(s) \in Nat /\ \A i \in 1..Len(s) : s[i] \in S
  OBVIOUS
<1>2. Kept(s, set) = FlattenSeq(seqs)
  BY DEF Kept
<1>3. \A i \in 1..Len(s) : /\ one(i) \in Seq(S)
                           /\ s[i] \in set => one(i) = <<s[i]>> /\ ToSet(one(i)) = {s[i]}
                           /\ s[i] \notin set => one(i) = <<>> /\ ToSet(one(i)) = {}
  BY <1>1 DEF ToSet
<1>4. /\ seqs \in Seq(Seq(S)) /\ Len(seqs) = Len(s)
      /\ \A i \in 1..Len(s) : seqs[i] = one(i)
  <2> HIDE DEF one
  <2>1. seqs \in [1..Len(s) -> Seq(S)] /\ \A i \in 1..Len(s) : seqs[i] = one(i)
    BY <1>1, <1>3
  <2> HIDE DEF seqs
  <2> QED BY <1>1, <2>1
<1> HIDE DEF seqs, one
<1>5. /\ FlattenSeq(seqs) \in Seq(S)
      /\ ToSet(FlattenSeq(seqs)) = UNION {ToSet(seqs[i]) : i \in 1..Len(seqs)}
  BY <1>4, FlattenElements
<1>6. ToSet(s) = {s[i] : i \in 1..Len(s)}
  BY <1>1 DEF ToSet
<1>7. UNION {ToSet(seqs[i]) : i \in 1..Len(seqs)} = ToSet(s) \cap set
  <2>1. ASSUME NEW i \in 1..Len(seqs), NEW e \in ToSet(seqs[i]) PROVE e \in ToSet(s) \cap set
    BY <1>3, <1>4, <1>6, <2>1
  <2>2. ASSUME NEW e \in ToSet(s) \cap set PROVE \E i \in 1..Len(seqs) : e \in ToSet(seqs[i])
    <3>1. PICK i \in 1..Len(s) : s[i] = e
      BY <1>6
    <3>2. i \in 1..Len(seqs) /\ e \in ToSet(seqs[i])
      BY <1>3, <1>4, <3>1
    <3> QED BY <3>2
  <2> QED BY <2>1, <2>2
<1>8. Picks(FlattenSeq(seqs), s, Len(s))
  <2>1. CASE Len(s) = 0
    <3>1. FlattenSeq(seqs) = <<>>
      <4>1. seqs = <<>>
        BY <1>4, <2>1
      <4> QED BY <2>1, <1>4, <4>1 DEF FlattenSeq
    <3>2. 1..Len(FlattenSeq(seqs)) = {} /\ 1..Len(s) = {}
      BY <2>1, <3>1
    <3> DEFINE g == [n \in {} |-> n]
    <3>3. g \in [1..Len(FlattenSeq(seqs)) -> 1..Len(s)]
      BY <3>2
    <3> HIDE DEF g
    <3> QED BY <3>2, <3>3 DEF Picks
  <2>2. CASE Len(s) # 0
    <3> DEFINE f == CHOOSE f : Flattens(seqs, f)
               N == Len(s) - 1
               T == {n \in 0..N : f[n + 1] \in Seq(S) /\ Picks(f[n + 1], s, n + 1)}
    <3>1. FlattenSeq(seqs) = f[Len(s)]
      BY <1>4, <2>2 DEF FlattenSeq, Flattens
    <3>2. Flattens(seqs, f)
      BY <1>4, <2>2, FlattenExists
    <3>3. \A i \in 1..Len(s) : f[i] = IF i = 1 THEN seqs[i] ELSE f[i - 1] \o seqs[i]
      <4> HIDE DEF f
      <4> QED BY <1>4, <3>2 DEF Flattens
    <3> HIDE DEF f
    <3>4. N \in Nat /\ N + 1 = Len(s)
      BY <1>1, <2>2
    <3>5. \A n \in 0..N : n + 1 \in 1..Len(s) /\ n \in Nat
      BY <3>4
    <3>6. ASSUME NEW n \in 0..N, NEW kept \in Seq(S), Picks(kept, s, n), f[n + 1] = kept \o seqs[n + 1]
          PROVE  n \in T
      <4>1. n \in Nat /\ s[n + 1] \in S /\ seqs[n + 1] = one(n + 1) /\ one(n + 1) \in Seq(S)
        BY <1>1, <1>3, <1>4, <3>5
      <4>2. f[n + 1] \in Seq(S)
        BY <3>6, <4>1
      <4>3. CASE s[n + 1] \in set
        <5>1. f[n + 1] = kept \o <<s[n + 1]>>
          BY <1>3, <3>5, <3>6, <4>1, <4>3
        <5> QED BY <3>6, <4>1, <4>2, <5>1, PicksNext
      <4>4. CASE s[n + 1] \notin set
        <5>1. f[n + 1] = kept \o <<>>
          BY <1>3, <3>5, <3>6, <4>1, <4>4
        <5>2. kept \o <<>> = kept
          OBVIOUS
        <5> QED BY <3>6, <4>1, <4>2, <5>1, <5>2, PicksLater
      <4> QED BY <4>3, <4>4
    <3>7. 0 \in T
      <4>1. Picks(<<>>, s, 0)
        <5> DEFINE g == [n \in {} |-> n]
        <5>1. 1..Len(<<>>) = {} /\ 1..0 = {}
          OBVIOUS
        <5>2. g \in [1..Len(<<>>) -> 1..0]
          BY <5>1
        <5> HIDE DEF g
        <5> QED BY <5>1, <5>2 DEF Picks
      <4>2. f[0 + 1] = <<>> \o seqs[0 + 1] /\ 0 \in 0..N
        <5>1. 1 \in 1..Len(s)
          BY <3>4
        <5>2. f[1] = seqs[1] /\ seqs[1] \in Seq(S)
          BY <1>3, <1>4, <3>3, <5>1
        <5> QED BY <3>4, <5>2
      <4>3. <<>> \in Seq(S)
        OBVIOUS
      <4> HIDE DEF T, N
      <4> QED BY <3>6, <4>1, <4>2, <4>3
    <3>8. ASSUME NEW n \in 0..(N - 1), n \in T PROVE n + 1 \in T
      <4>1. n + 1 \in 0..N /\ (n + 1) + 1 \in 1..Len(s) /\ (n + 1) + 1 # 1 /\ ((n + 1) + 1) - 1 = n + 1
        BY <3>4
      <4>2. f[(n + 1) + 1] = f[n + 1] \o seqs[(n + 1) + 1]
        BY <3>3, <4>1
      <4>3. f[n + 1] \in Seq(S) /\ Picks(f[n + 1], s, n + 1)
        BY <3>8
      <4> HIDE DEF T, N
      <4> QED BY <3>6, <4>1, <4>2, <4>3
    <3>9. \A n \in 0..N : n \in T
      <4> HIDE DEF T, N
      <4> QED BY <3>4, <3>7, <3>8, RangeInduction
    <3>10. N \in T
      <4> HIDE DEF T
      <4> QED BY <3>4, <3>9
    <3> QED BY <3>1, <3>4, <3>10
  <2> QED BY <2>1, <2>2
<1> QED
  BY <1>2, <1>5, <1>7, <1>8

---------------------------------------------------------------------------
(* The depth-first search.  Edges that are not back edges go ahead, and no   *)
(* block is ahead of itself.                                                 *)
Forward == [c \in DOMAIN body |-> {t \in CfgSuccessors(body, c) : ~dominates(body, t, c)}]
Ahead(c) == Reach(Forward, Forward[c], DOMAIN body)

LEMMA AheadLeast ==
  ASSUME body \in Bodies, NEW c \in DOMAIN body
  PROVE  /\ Forward[c] \subseteq Ahead(c) /\ Ahead(c) \in SUBSET DOMAIN body /\ c \notin Ahead(c)
         /\ \A b \in Ahead(c) : Forward[b] \subseteq Ahead(c)
<1>1. IsFiniteSet(DOMAIN body) /\ \A b \in DOMAIN body : Forward[b] \subseteq DOMAIN body
  BY BodyTyped DEF Forward
<1>2. IsReach(Forward, Forward[c], DOMAIN body, Ahead(c))
  BY <1>1, ReachLeast DEF Ahead
<1>3. c \notin Ahead(c)
  BY BodiesAssumption DEF Reducible, Ahead, Forward
<1> QED
  BY <1>1, <1>2, <1>3 DEF IsReach

LEMMA ForwardEdge ==
  ASSUME body \in Bodies, NEW c \in DOMAIN body, NEW t \in ToSet(successors(body, c))
  PROVE  /\ t \in DOMAIN body /\ (<<c, t>> \in back_edges(body) <=> dominates(body, t, c))
         /\ <<c, t>> \notin back_edges(body) => t \in Forward[c]
<1>1. t \in CfgSuccessors(body, c) /\ t \in DOMAIN body
  BY BodyTyped
<1>2. <<c, t>> \in back_edges(body) <=> dominates(body, t, c)
  BY <1>1 DEF back_edges
<1> QED
  BY <1>1, <1>2 DEF Forward

LEMMA GroupsTyped ==
  ASSUME body \in Bodies, NEW bodies, NEW b \in DOMAIN body
  PROVE  /\ Groups(body, bodies, b) \in Seq(DOMAIN body)
         /\ ToSet(Groups(body, bodies, b)) = ToSet(successors(body, b))
<1> DEFINE outer == {s \in DOMAIN body : get_loop_depth(bodies, s) < get_loop_depth(bodies, b)}
           succs == successors(body, b)
<1>1. succs \in Seq(DOMAIN body)
  BY BodyTyped
<1>2. Groups(body, bodies, b) = Kept(succs, outer) \o Kept(succs, DOMAIN body \ outer)
  BY DEF Groups
<1> HIDE DEF outer, succs
<1>3. /\ Kept(succs, outer) \in Seq(DOMAIN body) /\ Kept(succs, DOMAIN body \ outer) \in Seq(DOMAIN body)
      /\ ToSet(Kept(succs, outer)) = ToSet(succs) \cap outer
      /\ ToSet(Kept(succs, DOMAIN body \ outer)) = ToSet(succs) \cap (DOMAIN body \ outer)
  BY <1>1, KeptElements
<1>4. ToSet(succs) \subseteq DOMAIN body
  BY <1>1 DEF ToSet
<1>5. ToSet(Groups(body, bodies, b)) = ToSet(Kept(succs, outer)) \cup ToSet(Kept(succs, DOMAIN body \ outer))
  BY <1>2, <1>3, JoinedElements, ZenonT(60)
<1>6. ToSet(Groups(body, bodies, b)) = ToSet(succs)
  BY <1>3, <1>4, <1>5
<1>7. Groups(body, bodies, b) \in Seq(DOMAIN body)
  BY <1>2, <1>3
<1> QED
  BY <1>6, <1>7 DEF succs

(* The state of the search: blocks that are left are sorted after those they *)
(* lead on to; of a block that is open each successor is still to be looked  *)
(* at, or was, unless it is the next one on the stack or X, which is about   *)
(* to be put there; and those further up are ahead.                          *)
Entry == [block : DOMAIN body, rest : Seq(DOMAIN body)]

Typed(stack, temporary, sorted) ==
  stack \in Seq(Entry) /\ temporary \in SUBSET DOMAIN body /\ sorted \in Seq(DOMAIN body)

Placed(stack, temporary, sorted) ==
  /\ temporary = ToSet(sorted) \cup {stack[k].block : k \in 1..Len(stack)}
  /\ \A j, k \in 1..Len(stack) : stack[j].block = stack[k].block => j = k
  /\ \A k \in 1..Len(stack) : stack[k].block \notin ToSet(sorted)
  /\ \A i, j \in 1..Len(sorted) : sorted[i] = sorted[j] => i = j

SortedAfter(sorted) ==
  \A i \in 1..Len(sorted) : \A t \in ToSet(successors(body, sorted[i])) :
    <<sorted[i], t>> \in back_edges(body) \/ \E j \in 1..(i - 1) : sorted[j] = t

LookedAt(stack, sorted, X) ==
  \A k \in 1..Len(stack) : \A t \in ToSet(successors(body, stack[k].block)) :
    \/ t \in ToSet(stack[k].rest) \/ t \in ToSet(sorted) \/ <<stack[k].block, t>> \in back_edges(body)
    \/ k < Len(stack) /\ stack[k + 1].block = t
    \/ k = Len(stack) /\ t \in X

Climbs(stack, bodies) ==
  \A k \in 1..Len(stack) :
    /\ ToSet(stack[k].rest) \subseteq ToSet(successors(body, stack[k].block))
    /\ Len(stack[k].rest) <= Len(Groups(body, bodies, stack[k].block))
    /\ \A j \in 1..(k - 1) : stack[k].block \in Ahead(stack[j].block)

SearchInv(stack, temporary, sorted, bodies, X) ==
  /\ Typed(stack, temporary, sorted) /\ Placed(stack, temporary, sorted) /\ SortedAfter(sorted)
  /\ LookedAt(stack, sorted, X) /\ Climbs(stack, bodies)

(* What the search has still to do: every step takes something from it.      *)
Left(stack, temporary, bodies) ==
  {v \in Visits(body, bodies) :
     \/ v[1] \notin temporary
     \/ \E k \in 1..Len(stack) : stack[k].block = v[1] /\ v[2] <= Len(stack[k].rest)}

LEMMA TopOf ==
  ASSUME NEW S, NEW stack \in Seq(S), stack # <<>>
  PROVE  /\ Len(stack) \in Nat /\ Len(stack) \in 1..Len(stack) /\ Last(stack) = stack[Len(stack)] /\ Last(stack) \in S
         /\ Front(stack) \in Seq(S) /\ Len(Front(stack)) = Len(stack) - 1
         /\ \A k \in 1..(Len(stack) - 1) : Front(stack)[k] = stack[k]
<1>1. Len(stack) \in Nat /\ Len(stack) \in 1..Len(stack)
  OBVIOUS
<1>2. DOMAIN stack = 1..Len(stack) /\ Len(stack) - 1 \in Nat /\ \A k \in 1..(Len(stack) - 1) : stack[k] \in S
  OBVIOUS
<1>3. Front(stack) = SubSeq(stack, 1, Len(stack) - 1)
  BY DEF Front
<1>4. Front(stack) \in Seq(S) /\ Len(Front(stack)) = Len(stack) - 1
  BY <1>1, <1>2, <1>3
<1>5. \A k \in 1..(Len(stack) - 1) : Front(stack)[k] = stack[k]
  BY <1>1, <1>2, <1>3
<1> QED
  BY <1>1, <1>4, <1>5 DEF Last

LEMMA Pushes ==
  ASSUME NEW S, NEW stack \in Seq(S), NEW e \in S
  PROVE  /\ Append(stack, e) \in Seq(S) /\ Len(Append(stack, e)) = Len(stack) + 1 /\ Len(stack) \in Nat
         /\ Append(stack, e)[Len(stack) + 1] = e
         /\ \A k \in 1..Len(stack) : Append(stack, e)[k] = stack[k]
         /\ 1..(Len(stack) + 1) = (1..Len(stack)) \cup {Len(stack) + 1}
         /\ ToSet(Append(stack, e)) = ToSet(stack) \cup {e}
<1>1. /\ Append(stack, e) \in Seq(S) /\ Len(Append(stack, e)) = Len(stack) + 1 /\ Len(stack) \in Nat
      /\ Append(stack, e)[Len(stack) + 1] = e
      /\ \A k \in 1..Len(stack) : Append(stack, e)[k] = stack[k]
      /\ 1..(Len(stack) + 1) = (1..Len(stack)) \cup {Len(stack) + 1}
      /\ DOMAIN stack = 1..Len(stack) /\ DOMAIN Append(stack, e) = 1..(Len(stack) + 1)
  OBVIOUS
<1> DEFINE more == Append(stack, e)
           len == Len(stack)
<1> HIDE DEF more, len
<1>2. /\ DOMAIN more = (1..len) \cup {len + 1} /\ more[len + 1] = e /\ \A k \in 1..len : more[k] = stack[k]
      /\ DOMAIN stack = 1..len
  BY <1>1 DEF more, len
<1>3. ToSet(more) = ToSet(stack) \cup {e}
  BY <1>2 DEF ToSet
<1> QED
  BY <1>1, <1>3 DEF more

LEMMA TailOf ==
  ASSUME NEW S, NEW s \in Seq(S), s # <<>>
  PROVE  /\ Head(s) \in S /\ Tail(s) \in Seq(S) /\ Len(Tail(s)) = Len(s) - 1 /\ Len(s) \in Nat \ {0}
         /\ ToSet(s) = ToSet(Tail(s)) \cup {Head(s)}
<1>1. /\ Head(s) \in S /\ Tail(s) \in Seq(S) /\ Len(Tail(s)) = Len(s) - 1 /\ Len(s) \in Nat \ {0}
      /\ Head(s) = s[1] /\ DOMAIN s = 1..Len(s) /\ DOMAIN Tail(s) = 1..(Len(s) - 1)
      /\ \A i \in 1..(Len(s) - 1) : Tail(s)[i] = s[i + 1]
  OBVIOUS
<1> DEFINE t == Tail(s)
           h == Head(s)
           n == Len(s)
<1> HIDE DEF t, h, n
<1>2. /\ n \in Nat \ {0} /\ h = s[1] /\ DOMAIN s = 1..n /\ DOMAIN t = 1..(n - 1)
      /\ \A i \in 1..(n - 1) : t[i] = s[i + 1]
  BY <1>1 DEF t, h, n
<1>3. ASSUME NEW i \in 1..n PROVE s[i] \in ToSet(t) \cup {h}
  <2>1. CASE i = 1
    BY <1>2, <2>1
  <2>2. CASE i # 1
    <3>1. i - 1 \in 1..(n - 1) /\ (i - 1) + 1 = i
      BY <1>2, <2>2
    <3> QED BY <1>2, <3>1 DEF ToSet
  <2> QED BY <2>1, <2>2
<1>4. ASSUME NEW i \in 1..(n - 1) PROVE t[i] \in ToSet(s)
  <2>1. i + 1 \in 1..n
    BY <1>2
  <2> QED BY <1>2, <2>1 DEF ToSet
<1>5. h \in ToSet(s)
  BY <1>2 DEF ToSet
<1>6. ToSet(s) = ToSet(t) \cup {h}
  BY <1>2, <1>3, <1>4, <1>5 DEF ToSet
<1> QED
  BY <1>1, <1>6 DEF t, h

(* Looking at the next successor of the block on top, and opening a block.   *)
Shortened(stack) == Append(Front(stack), [Last(stack) EXCEPT !.rest = Tail(@)])
Opened(stack, bodies, b) == Append(stack, [block |-> b, rest |-> Groups(body, bodies, b)])
MayOpen(stack, b) == stack # <<>> => b \in Forward[Last(stack).block]
OnlyIn(X, b) == X \subseteq {b}

LEMMA SearchShortens ==
  ASSUME body \in Bodies, NEW stack, NEW temporary, NEW sorted, NEW bodies,
         SearchInv(stack, temporary, sorted, bodies, {}), stack # <<>>, Last(stack).rest # <<>>,
         NEW left, left = Shortened(stack)
  PROVE  /\ SearchInv(left, temporary, sorted, bodies, {Head(Last(stack).rest)})
         /\ left # <<>> /\ Last(left).block = Last(stack).block
         /\ Last(stack).block \in DOMAIN body
         /\ Head(Last(stack).rest) \in ToSet(successors(body, Last(stack).block))
         /\ Left(left, temporary, bodies) \subseteq Left(stack, temporary, bodies)
         /\ Left(left, temporary, bodies) # Left(stack, temporary, bodies)
<1> DEFINE m == Len(stack)
           top == stack[m]
           e == [top EXCEPT !.rest = Tail(top.rest)]
           next == Head(top.rest)
<1>1. /\ m \in Nat /\ m \in 1..m /\ Last(stack) = top /\ top \in Entry
      /\ Front(stack) \in Seq(Entry) /\ Len(Front(stack)) = m - 1
      /\ \A k \in 1..(m - 1) : Front(stack)[k] = stack[k]
  BY TopOf DEF SearchInv, Typed
<1>2. \A k \in 1..m : stack[k] \in Entry /\ stack[k].block \in DOMAIN body /\ stack[k].rest \in Seq(DOMAIN body)
  <2>1. \A k \in 1..m : stack[k] \in Entry
    BY DEF SearchInv, Typed
  <2>2. \A x \in Entry : x.block \in DOMAIN body /\ x.rest \in Seq(DOMAIN body)
    BY DEF Entry
  <2> QED BY <2>1, <2>2
<1>3. left = Append(Front(stack), e)
  BY <1>1 DEF Shortened
<1> HIDE DEF m
<1>4. /\ next \in DOMAIN body /\ Tail(top.rest) \in Seq(DOMAIN body)
      /\ Len(Tail(top.rest)) = Len(top.rest) - 1 /\ Len(top.rest) \in Nat \ {0}
      /\ ToSet(top.rest) = ToSet(Tail(top.rest)) \cup {next}
  BY <1>1, <1>2, TailOf
<1>5. e \in Entry /\ e.block = top.block /\ e.rest = Tail(top.rest)
  BY <1>1, <1>4 DEF Entry
<1> HIDE DEF e, next, top
<1>6. /\ left \in Seq(Entry) /\ Len(left) = m /\ left[m] = e
      /\ \A k \in 1..m : k # m => left[k] = stack[k]
  <2>1. /\ left \in Seq(Entry) /\ Len(left) = (m - 1) + 1 /\ left[(m - 1) + 1] = e
        /\ \A k \in 1..(m - 1) : left[k] = Front(stack)[k]
    BY <1>1, <1>3, <1>5, Pushes
  <2>2. (m - 1) + 1 = m /\ \A k \in 1..m : k # m => k \in 1..(m - 1)
    BY <1>1
  <2> QED BY <1>1, <2>1, <2>2
<1>7. /\ \A k \in 1..m : left[k].block = stack[k].block
      /\ \A k \in 1..m : k # m => left[k].rest = stack[k].rest
      /\ stack[m] = top /\ left[m].rest = Tail(top.rest)
  BY <1>5, <1>6 DEF top
<1> DEFINE was(k) == stack[k].rest
           is(k) == left[k].rest
<1>7a. \A k \in 1..m :
        /\ Len(was(k)) \in Nat /\ Len(is(k)) \in Nat /\ Len(is(k)) <= Len(was(k)) /\ ToSet(is(k)) \subseteq ToSet(was(k))
        /\ k = m => Len(is(k)) < Len(was(k)) /\ ToSet(was(k)) = ToSet(is(k)) \cup {next}
        /\ k # m => was(k) = is(k)
  <2>1. Len(is(m)) = Len(was(m)) - 1 /\ Len(was(m)) \in Nat \ {0} /\ ToSet(was(m)) = ToSet(is(m)) \cup {next}
    BY <1>4, <1>7 DEF top
  <2>2. \A k \in 1..m : Len(was(k)) \in Nat
    BY <1>2
  <2>3. \A k \in 1..m : k # m => was(k) = is(k)
    BY <1>7
  <2> HIDE DEF was, is
  <2> QED BY <2>1, <2>2, <2>3
<1>8. Typed(left, temporary, sorted) /\ SortedAfter(sorted)
  BY <1>6 DEF SearchInv, Typed
<1>9. Placed(left, temporary, sorted)
  <2>1. Placed(stack, temporary, sorted)
    BY DEF SearchInv
  <2>2. {left[k].block : k \in 1..m} = {stack[k].block : k \in 1..m}
    BY <1>7
  <2> QED BY <1>6, <1>7, <2>1, <2>2 DEF Placed, m
<1>10. LookedAt(left, sorted, {next})
  <2> SUFFICES ASSUME NEW k \in 1..m, NEW t \in ToSet(successors(body, left[k].block))
               PROVE  \/ t \in ToSet(left[k].rest) \/ t \in ToSet(sorted) \/ <<left[k].block, t>> \in back_edges(body)
                      \/ k < m /\ left[k + 1].block = t
                      \/ k = m /\ t \in {next}
    BY <1>6 DEF LookedAt
  <2>1. \/ t \in ToSet(stack[k].rest) \/ t \in ToSet(sorted) \/ <<stack[k].block, t>> \in back_edges(body)
        \/ k < m /\ stack[k + 1].block = t
    <3>1. LookedAt(stack, sorted, {})
      BY DEF SearchInv
    <3> QED BY <1>7, <3>1 DEF LookedAt, m
  <2>2. k < m => k + 1 \in 1..m
    BY <1>1
  <2>3. CASE k = m
    <3>1. ToSet(stack[k].rest) = ToSet(left[k].rest) \cup {next}
      BY <1>7a, <2>3
    <3>2. ~(k < m) /\ left[k].block = stack[k].block
      BY <1>1, <1>7, <2>3
    <3> QED BY <2>1, <2>3, <3>1, <3>2
  <2>4. CASE k # m
    BY <1>7, <2>1, <2>2, <2>4
  <2> QED BY <2>3, <2>4
<1>11. Climbs(left, bodies)
  <2> SUFFICES ASSUME NEW k \in 1..m
               PROVE  /\ ToSet(left[k].rest) \subseteq ToSet(successors(body, left[k].block))
                      /\ Len(left[k].rest) <= Len(Groups(body, bodies, left[k].block))
                      /\ \A j \in 1..(k - 1) : left[k].block \in Ahead(left[j].block)
    BY <1>6 DEF Climbs
  <2>1. /\ ToSet(stack[k].rest) \subseteq ToSet(successors(body, stack[k].block))
        /\ Len(stack[k].rest) <= Len(Groups(body, bodies, stack[k].block))
        /\ \A j \in 1..(k - 1) : stack[k].block \in Ahead(stack[j].block)
    BY DEF SearchInv, Climbs, m
  <2>2. \A j \in 1..(k - 1) : j \in 1..m
    BY <1>1
  <2>3. /\ ToSet(left[k].rest) \subseteq ToSet(stack[k].rest)
        /\ Len(left[k].rest) <= Len(stack[k].rest) /\ Len(left[k].rest) \in Nat /\ Len(stack[k].rest) \in Nat
    BY <1>7a
  <2>4. Len(Groups(body, bodies, left[k].block)) \in Nat
    BY <1>2, <1>7, GroupsTyped
  <2>5. Len(left[k].rest) <= Len(Groups(body, bodies, left[k].block))
    <3>1. Len(stack[k].rest) <= Len(Groups(body, bodies, left[k].block))
      BY <1>7, <2>1
    <3>2. \A x, y, z \in Nat : x <= y /\ y <= z => x <= z
      OBVIOUS
    <3> QED BY <2>3, <2>4, <3>1, <3>2
  <2> QED BY <1>7, <2>1, <2>2, <2>3, <2>5
<1>12. next \in ToSet(successors(body, top.block)) /\ top.block \in DOMAIN body
  <2>1. ToSet(top.rest) \subseteq ToSet(successors(body, top.block))
    BY <1>1, <1>7 DEF SearchInv, Climbs, m
  <2> QED BY <1>1, <1>2, <1>4, <1>7, <2>1
<1>13. Left(left, temporary, bodies) \subseteq Left(stack, temporary, bodies)
  <2> SUFFICES ASSUME NEW v \in Visits(body, bodies), NEW k \in 1..m, left[k].block = v[1], v[2] <= Len(left[k].rest)
               PROVE  \E i \in 1..m : stack[i].block = v[1] /\ v[2] <= Len(stack[i].rest)
    BY <1>6 DEF Left, m
  <2>1. v[2] \in Nat
    <3>1. PICK b \in DOMAIN body : v \in {b} \X (0..(Len(Groups(body, bodies, b)) + 1))
      BY DEF Visits
    <3> QED BY <3>1
  <2>2. v[2] <= Len(stack[k].rest)
    <3>1. Len(left[k].rest) <= Len(stack[k].rest) /\ Len(left[k].rest) \in Nat /\ Len(stack[k].rest) \in Nat
      BY <1>7a
    <3>2. \A x, y, z \in Nat : x <= y /\ y <= z => x <= z
      OBVIOUS
    <3> QED BY <2>1, <3>1, <3>2
  <2> QED BY <1>7, <2>2
<1>14. Left(left, temporary, bodies) # Left(stack, temporary, bodies)
  <2> DEFINE v == <<top.block, Len(top.rest)>>
  <2>1. v \in Visits(body, bodies)
    <3>1. Len(top.rest) <= Len(Groups(body, bodies, top.block)) /\ Len(Groups(body, bodies, top.block)) \in Nat
      BY <1>1, <1>7, <1>12, GroupsTyped DEF SearchInv, Climbs, m
    <3>2. Len(top.rest) \in 0..(Len(Groups(body, bodies, top.block)) + 1)
      BY <1>4, <3>1
    <3>3. v \in {top.block} \X (0..(Len(Groups(body, bodies, top.block)) + 1))
      BY <3>2
    <3> QED BY <1>12, <3>3 DEF Visits
  <2>2. v \in Left(stack, temporary, bodies)
    BY <1>1, <1>4, <1>7, <2>1 DEF Left, m
  <2>3. top.block \in temporary /\ \A k \in 1..m : stack[k].block = top.block => k = m
    BY <1>1, <1>7 DEF SearchInv, Placed, m
  <2>4. ASSUME v \in Left(left, temporary, bodies) PROVE FALSE
    <3>1. PICK k \in 1..m : left[k].block = top.block /\ Len(top.rest) <= Len(left[k].rest)
      BY <1>6, <2>3, <2>4 DEF Left
    <3>2. k = m
      BY <1>7, <2>3, <3>1
    <3>3. Len(left[m].rest) < Len(stack[m].rest) /\ Len(left[m].rest) \in Nat /\ Len(stack[m].rest) \in Nat
      BY <1>7a, <1>1
    <3>4. Len(stack[m].rest) <= Len(left[m].rest)
      BY <1>7, <3>1, <3>2
    <3>5. \A x, y \in Nat : ~(x <= y /\ y < x)
      OBVIOUS
    <3> QED BY <3>3, <3>4, <3>5
  <2> QED BY <2>2, <2>4
<1>15. left # <<>> /\ Last(left) = left[m]
  <2>1. left # <<>>
    BY <1>1, <1>6
  <2> QED BY <1>6, <2>1 DEF Last
<1> QED
  BY <1>1, <1>6, <1>7, <1>8, <1>9, <1>10, <1>11, <1>12, <1>13, <1>14, <1>15 DEF SearchInv, next, top, m

LEMMA SearchEnters ==
  ASSUME body \in Bodies, NEW stack, NEW temporary, NEW sorted, NEW bodies, NEW X,
         SearchInv(stack, temporary, sorted, bodies, X), NEW b \in DOMAIN body, b \notin temporary,
         OnlyIn(X, b), MayOpen(stack, b),
         NEW more, more = Opened(stack, bodies, b)
  PROVE  /\ SearchInv(more, temporary \cup {b}, sorted, bodies, {})
         /\ Left(more, temporary \cup {b}, bodies) \subseteq Left(stack, temporary, bodies)
         /\ Left(more, temporary \cup {b}, bodies) # Left(stack, temporary, bodies)
<1> DEFINE m == Len(stack)
           groups == Groups(body, bodies, b)
           e == [block |-> b, rest |-> groups]
<1>1. groups \in Seq(DOMAIN body) /\ ToSet(groups) = ToSet(successors(body, b)) /\ Len(groups) \in Nat
  BY GroupsTyped
<1> HIDE DEF groups
<1>2. e \in Entry /\ e.block = b /\ e.rest = groups
  BY <1>1 DEF Entry
<1>3. stack \in Seq(Entry) /\ more = Append(stack, e)
  BY DEF SearchInv, Typed, groups, Opened
<1> HIDE DEF e
<1>4. /\ more \in Seq(Entry) /\ Len(more) = m + 1 /\ m \in Nat /\ more[m + 1] = e
      /\ \A k \in 1..m : more[k] = stack[k]
  BY <1>2, <1>3, Pushes
<1>5. \A k \in 1..(m + 1) : k = m + 1 \/ (k \in 1..m /\ k # m + 1)
  BY <1>4
<1>6. m + 1 \in 1..(m + 1) /\ \A k \in 1..m : k \in 1..(m + 1)
  BY <1>4
<1>7. \A k \in 1..m : stack[k].block \in DOMAIN body /\ stack[k].block \in temporary /\ stack[k].block # b
  <2>1. \A k \in 1..m : stack[k] \in Entry
    BY <1>3
  <2>2. \A x \in Entry : x.block \in DOMAIN body
    BY DEF Entry
  <2>3. \A k \in 1..m : stack[k].block \in temporary
    BY DEF SearchInv, Placed, m
  <2> QED BY <2>1, <2>2, <2>3
<1>8. m # 0 => m \in 1..m /\ b \in Forward[stack[m].block]
  <2> SUFFICES ASSUME m # 0 PROVE m \in 1..m /\ b \in Forward[stack[m].block]
    OBVIOUS
  <2>1. m \in 1..m /\ stack # <<>>
    BY <1>4
  <2> QED BY <2>1 DEF Last, MayOpen, m
<1>9. Typed(more, temporary \cup {b}, sorted) /\ SortedAfter(sorted)
  BY <1>4 DEF SearchInv, Typed
<1>10. Placed(more, temporary \cup {b}, sorted)
  <2>1. Placed(stack, temporary, sorted)
    BY DEF SearchInv
  <2>2. {more[k].block : k \in 1..(m + 1)} = {stack[k].block : k \in 1..m} \cup {b}
    <3>1. \A k \in 1..(m + 1) : more[k].block \in {stack[i].block : i \in 1..m} \cup {b}
      BY <1>2, <1>4, <1>5
    <3>2. \A k \in 1..m : stack[k].block \in {more[i].block : i \in 1..(m + 1)}
      BY <1>4, <1>6
    <3>3. b \in {more[i].block : i \in 1..(m + 1)}
      BY <1>2, <1>4, <1>6
    <3> QED BY <3>1, <3>2, <3>3
  <2>3. temporary \cup {b} = ToSet(sorted) \cup {more[k].block : k \in 1..Len(more)}
    BY <1>4, <2>1, <2>2 DEF Placed
  <2>4. \A j, k \in 1..(m + 1) : more[j].block = more[k].block => j = k
    <3> SUFFICES ASSUME NEW j \in 1..(m + 1), NEW k \in 1..(m + 1), more[j].block = more[k].block PROVE j = k
      OBVIOUS
    <3>1. CASE j = m + 1 /\ k \in 1..m
      BY <1>2, <1>4, <1>7, <3>1
    <3>2. CASE k = m + 1 /\ j \in 1..m
      BY <1>2, <1>4, <1>7, <3>2
    <3>3. CASE j \in 1..m /\ k \in 1..m
      BY <1>4, <2>1, <3>3 DEF Placed
    <3> QED BY <1>5, <3>1, <3>2, <3>3
  <2>5. \A k \in 1..(m + 1) : more[k].block \notin ToSet(sorted)
    <3>1. ToSet(sorted) \subseteq temporary
      BY <2>1 DEF Placed
    <3>2. \A k \in 1..m : more[k].block \notin ToSet(sorted)
      BY <1>4, <2>1 DEF Placed
    <3> QED BY <1>2, <1>4, <1>5, <3>1, <3>2
  <2> QED BY <1>4, <2>1, <2>3, <2>4, <2>5 DEF Placed
<1>11. LookedAt(more, sorted, {})
  <2> SUFFICES ASSUME NEW k \in 1..(m + 1), NEW t \in ToSet(successors(body, more[k].block))
               PROVE  \/ t \in ToSet(more[k].rest) \/ t \in ToSet(sorted) \/ <<more[k].block, t>> \in back_edges(body)
                      \/ k < m + 1 /\ more[k + 1].block = t
    BY <1>4 DEF LookedAt
  <2>1. CASE k = m + 1
    BY <1>1, <1>2, <1>4, <2>1
  <2>2. CASE k \in 1..m
    <3>1. \/ t \in ToSet(stack[k].rest) \/ t \in ToSet(sorted) \/ <<stack[k].block, t>> \in back_edges(body)
          \/ k < m /\ stack[k + 1].block = t
          \/ k = m /\ t \in X
      <4>1. LookedAt(stack, sorted, X)
        BY DEF SearchInv
      <4>2. more[k] = stack[k]
        BY <1>4, <2>2
      <4> QED BY <2>2, <4>1, <4>2 DEF LookedAt
    <3>2. k < m + 1 /\ (k < m => k + 1 \in 1..m) /\ (k = m => more[k + 1].block = b)
      BY <1>2, <1>4, <2>2
    <3>3. k < m => more[k + 1].block = stack[k + 1].block
      BY <1>4, <3>2
    <3>4. more[k] = stack[k]
      BY <1>4, <2>2
    <3>5. k = m /\ t \in X => more[k + 1].block = t
      BY <3>2 DEF OnlyIn
    <3> HIDE DEF m
    <3> QED BY <3>1, <3>2, <3>3, <3>4, <3>5
  <2> QED BY <1>5, <2>1, <2>2
<1>12. Climbs(more, bodies)
  <2> SUFFICES ASSUME NEW k \in 1..(m + 1)
               PROVE  /\ ToSet(more[k].rest) \subseteq ToSet(successors(body, more[k].block))
                      /\ Len(more[k].rest) <= Len(Groups(body, bodies, more[k].block))
                      /\ \A j \in 1..(k - 1) : more[k].block \in Ahead(more[j].block)
    BY <1>4 DEF Climbs
  <2>1. \A j \in 1..(k - 1) : j \in 1..m
    BY <1>4
  <2>2. CASE k \in 1..m
    BY <1>4, <2>1, <2>2 DEF SearchInv, Climbs
  <2>3. CASE k = m + 1
    <3>1. /\ ToSet(more[k].rest) \subseteq ToSet(successors(body, more[k].block))
          /\ Len(more[k].rest) <= Len(Groups(body, bodies, more[k].block))
      BY <1>1, <1>2, <1>4, <2>3 DEF groups
    <3>2. ASSUME NEW j \in 1..m PROVE b \in Ahead(stack[j].block)
      <4>1. m # 0 /\ j \in 1..m /\ m \in 1..m
        BY <1>4
      <4>2. b \in Forward[stack[m].block] /\ stack[m].block \in DOMAIN body /\ stack[j].block \in DOMAIN body
        BY <1>7, <1>8, <4>1
      <4>3. CASE j = m
        BY <4>2, <4>3, AheadLeast
      <4>4. CASE j # m
        <5>1. j \in 1..(m - 1)
          BY <1>4, <4>4
        <5>2. stack[m].block \in Ahead(stack[j].block)
          BY <4>1, <5>1 DEF SearchInv, Climbs, m
        <5> QED BY <4>2, <5>2, AheadLeast
      <4> QED BY <4>3, <4>4
    <3> QED BY <1>2, <1>4, <2>1, <2>3, <3>1, <3>2
  <2> QED BY <1>5, <2>2, <2>3
<1>13. Left(more, temporary \cup {b}, bodies) \subseteq Left(stack, temporary, bodies)
  <2> SUFFICES ASSUME NEW v \in Visits(body, bodies), v[1] \in temporary, NEW k \in 1..(m + 1),
                      more[k].block = v[1], v[2] <= Len(more[k].rest)
               PROVE  \E i \in 1..m : stack[i].block = v[1] /\ v[2] <= Len(stack[i].rest)
    BY <1>4 DEF Left, m
  <2>1. k \in 1..m
    BY <1>2, <1>4, <1>5
  <2> QED BY <1>4, <2>1
<1>14. Left(more, temporary \cup {b}, bodies) # Left(stack, temporary, bodies)
  <2> DEFINE v == <<b, Len(groups) + 1>>
  <2>1. v \in Visits(body, bodies)
    <3>1. Len(groups) + 1 \in 0..(Len(groups) + 1)
      BY <1>1
    <3>2. v \in {b} \X (0..(Len(Groups(body, bodies, b)) + 1))
      BY <3>1 DEF groups
    <3> QED BY <3>2 DEF Visits
  <2>2. v \in Left(stack, temporary, bodies)
    BY <2>1 DEF Left
  <2>3. ASSUME v \in Left(more, temporary \cup {b}, bodies) PROVE FALSE
    <3>1. PICK k \in 1..(m + 1) : more[k].block = b /\ Len(groups) + 1 <= Len(more[k].rest)
      BY <1>4, <2>3 DEF Left
    <3>2. k = m + 1
      BY <1>4, <1>5, <1>7, <3>1
    <3> QED BY <1>1, <1>2, <1>4, <3>1, <3>2
  <2> QED BY <2>2, <2>3
<1> QED
  BY <1>9, <1>10, <1>11, <1>12, <1>13, <1>14 DEF SearchInv

LEMMA SearchLeaves ==
  ASSUME body \in Bodies, NEW stack, NEW temporary, NEW sorted, NEW bodies,
         SearchInv(stack, temporary, sorted, bodies, {}), stack # <<>>, Last(stack).rest = <<>>,
         NEW left, left = Front(stack), NEW more, more = Append(sorted, Last(stack).block)
  PROVE  /\ SearchInv(left, temporary, more, bodies, {})
         /\ Left(left, temporary, bodies) \subseteq Left(stack, temporary, bodies)
         /\ Left(left, temporary, bodies) # Left(stack, temporary, bodies)
<1> DEFINE m == Len(stack)
           n == Len(sorted)
           b == stack[m].block
<1>1. /\ m \in Nat /\ m \in 1..m /\ Last(stack) = stack[m] /\ left \in Seq(Entry) /\ Len(left) = m - 1
      /\ \A k \in 1..(m - 1) : left[k] = stack[k]
  BY TopOf DEF SearchInv, Typed
<1>2. \A k \in 1..m : stack[k].block \in DOMAIN body
  <2>1. \A k \in 1..m : stack[k] \in Entry
    BY DEF SearchInv, Typed
  <2>2. \A x \in Entry : x.block \in DOMAIN body
    BY DEF Entry
  <2> QED BY <2>1, <2>2
<1>3. b \in DOMAIN body /\ more = Append(sorted, b) /\ stack[m].rest = <<>> /\ sorted \in Seq(DOMAIN body)
  BY <1>1, <1>2 DEF SearchInv, Typed
<1> HIDE DEF b
<1>4. /\ more \in Seq(DOMAIN body) /\ Len(more) = n + 1 /\ n \in Nat /\ more[n + 1] = b
      /\ \A i \in 1..n : more[i] = sorted[i]
      /\ ToSet(more) = ToSet(sorted) \cup {b}
  BY <1>3, Pushes
<1>5. \A k \in 1..m : k = m \/ (k \in 1..(m - 1) /\ k # m)
  BY <1>1
<1>6. \A i \in 1..(n + 1) : i = n + 1 \/ (i \in 1..n /\ i # n + 1)
  BY <1>4
<1>7. \A k \in 1..(m - 1) : k \in 1..m /\ k # m
  BY <1>1
<1>8. ToSet(sorted) = {sorted[i] : i \in 1..n}
  <2>1. DOMAIN sorted = 1..n
    BY <1>3
  <2> HIDE DEF n
  <2> QED BY <2>1 DEF ToSet
<1>9. Placed(stack, temporary, sorted) /\ LookedAt(stack, sorted, {}) /\ SortedAfter(sorted) /\ Climbs(stack, bodies)
  BY DEF SearchInv
<1>10. Typed(left, temporary, more)
  BY <1>1, <1>4 DEF SearchInv, Typed
<1>11. Placed(left, temporary, more)
  <2>1. {stack[k].block : k \in 1..m} = {left[k].block : k \in 1..(m - 1)} \cup {b}
    <3>1. \A k \in 1..m : stack[k].block \in {left[i].block : i \in 1..(m - 1)} \cup {b}
      BY <1>1, <1>5 DEF b
    <3>2. \A k \in 1..(m - 1) : left[k].block \in {stack[i].block : i \in 1..m}
      BY <1>1, <1>7
    <3>3. b \in {stack[i].block : i \in 1..m}
      BY <1>1 DEF b
    <3> QED BY <3>1, <3>2, <3>3
  <2>2. temporary = ToSet(more) \cup {left[k].block : k \in 1..Len(left)}
    BY <1>1, <1>4, <1>9, <2>1 DEF Placed
  <2>3. \A j, k \in 1..(m - 1) : left[j].block = left[k].block => j = k
    BY <1>1, <1>7, <1>9 DEF Placed
  <2>4. \A k \in 1..(m - 1) : left[k].block \notin ToSet(more)
    <3> SUFFICES ASSUME NEW k \in 1..(m - 1) PROVE left[k].block \notin ToSet(sorted) /\ left[k].block # b
      BY <1>4
    <3> QED BY <1>1, <1>7, <1>9 DEF Placed, b
  <2>5. \A i, j \in 1..(n + 1) : more[i] = more[j] => i = j
    <3>1. b \notin ToSet(sorted)
      BY <1>1, <1>9 DEF Placed, b
    <3>2. \A i \in 1..n : more[i] # b /\ more[i] = sorted[i]
      BY <1>4, <1>8, <3>1
    <3>3. \A i, j \in 1..n : sorted[i] = sorted[j] => i = j
      BY <1>9 DEF Placed
    <3> QED BY <1>4, <1>6, <3>2, <3>3
  <2> QED BY <1>1, <1>4, <2>2, <2>3, <2>4, <2>5 DEF Placed
<1>12. SortedAfter(more)
  <2> SUFFICES ASSUME NEW i \in 1..(n + 1), NEW t \in ToSet(successors(body, more[i]))
               PROVE  <<more[i], t>> \in back_edges(body) \/ \E j \in 1..(i - 1) : more[j] = t
    BY <1>4 DEF SortedAfter
  <2>1. CASE i = n + 1
    <3>1. t \in ToSet(successors(body, stack[m].block)) /\ more[i] = b
      BY <1>4, <2>1 DEF b
    <3>2. \/ t \in ToSet(stack[m].rest) \/ t \in ToSet(sorted) \/ <<b, t>> \in back_edges(body)
          \/ m < m /\ stack[m + 1].block = t
      BY <1>1, <1>9, <3>1 DEF LookedAt, b
    <3>3. ToSet(stack[m].rest) = {}
      BY <1>3 DEF ToSet
    <3>4. t \in ToSet(sorted) \/ <<b, t>> \in back_edges(body)
      BY <1>1, <3>2, <3>3
    <3>5. t \in ToSet(sorted) => \E j \in 1..n : more[j] = t
      BY <1>4, <1>8
    <3>6. 1..n = 1..(i - 1)
      BY <1>4, <2>1
    <3> QED BY <3>1, <3>4, <3>5, <3>6
  <2>2. CASE i \in 1..n
    <3>1. more[i] = sorted[i] /\ \A j \in 1..(i - 1) : j \in 1..n
      BY <1>4, <2>2
    <3>2. <<sorted[i], t>> \in back_edges(body) \/ \E j \in 1..(i - 1) : sorted[j] = t
      BY <1>9, <2>2, <3>1 DEF SortedAfter
    <3> QED BY <1>4, <3>1, <3>2
  <2> QED BY <1>6, <2>1, <2>2
<1>13. LookedAt(left, more, {})
  <2> SUFFICES ASSUME NEW k \in 1..(m - 1), NEW t \in ToSet(successors(body, left[k].block))
               PROVE  \/ t \in ToSet(left[k].rest) \/ t \in ToSet(more) \/ <<left[k].block, t>> \in back_edges(body)
                      \/ k < m - 1 /\ left[k + 1].block = t
    BY <1>1 DEF LookedAt
  <2>1. left[k] = stack[k] /\ k \in 1..m
    BY <1>1, <1>7
  <2>2. \/ t \in ToSet(stack[k].rest) \/ t \in ToSet(sorted) \/ <<stack[k].block, t>> \in back_edges(body)
        \/ k < m /\ stack[k + 1].block = t
    BY <1>9, <2>1 DEF LookedAt
  <2>3. k = m - 1 => stack[k + 1].block = b
    BY <1>1 DEF b
  <2>4. k # m - 1 => k < m - 1 /\ k + 1 \in 1..(m - 1)
    BY <1>1
  <2>5. k # m - 1 => left[k + 1] = stack[k + 1]
    BY <1>1, <2>4
  <2> HIDE DEF m
  <2> QED BY <1>4, <2>1, <2>2, <2>3, <2>4, <2>5
<1>14. Climbs(left, bodies)
  <2> SUFFICES ASSUME NEW k \in 1..(m - 1)
               PROVE  /\ ToSet(left[k].rest) \subseteq ToSet(successors(body, left[k].block))
                      /\ Len(left[k].rest) <= Len(Groups(body, bodies, left[k].block))
                      /\ \A j \in 1..(k - 1) : left[k].block \in Ahead(left[j].block)
    BY <1>1 DEF Climbs
  <2>1. \A j \in 1..(k - 1) : j \in 1..(m - 1)
    BY <1>1
  <2> QED BY <1>1, <1>7, <1>9, <2>1 DEF Climbs
<1>15. Left(left, temporary, bodies) \subseteq Left(stack, temporary, bodies)
  <2> SUFFICES ASSUME NEW v \in Visits(body, bodies), NEW k \in 1..(m - 1),
                      left[k].block = v[1], v[2] <= Len(left[k].rest)
               PROVE  \E i \in 1..m : stack[i].block = v[1] /\ v[2] <= Len(stack[i].rest)
    BY <1>1 DEF Left, m
  <2> QED BY <1>1, <1>7
<1>16. Left(left, temporary, bodies) # Left(stack, temporary, bodies)
  <2> DEFINE v == <<b, 0>>
  <2>1. v \in Visits(body, bodies)
    <3>1. Len(Groups(body, bodies, b)) \in Nat
      BY <1>3, GroupsTyped
    <3>2. 0 \in 0..(Len(Groups(body, bodies, b)) + 1)
      BY <3>1
    <3>3. v \in {b} \X (0..(Len(Groups(body, bodies, b)) + 1))
      BY <3>2
    <3> QED BY <1>3, <3>3 DEF Visits
  <2>2. v \in Left(stack, temporary, bodies)
    <3>1. 0 <= Len(stack[m].rest)
      BY <1>3
    <3>2. \E k \in 1..m : stack[k].block = b /\ 0 <= Len(stack[k].rest)
      BY <1>1, <3>1 DEF b
    <3> QED BY <2>1, <3>2 DEF Left
  <2>3. b \in temporary
    BY <1>1, <1>9 DEF Placed, b
  <2>4. ASSUME v \in Left(left, temporary, bodies) PROVE FALSE
    <3>1. PICK k \in 1..(m - 1) : left[k].block = b
      BY <1>1, <2>3, <2>4 DEF Left
    <3> QED BY <1>1, <1>7, <1>9, <3>1 DEF Placed, b
  <2> QED BY <2>2, <2>4
<1> QED
  BY <1>10, <1>11, <1>12, <1>13, <1>14, <1>15, <1>16 DEF SearchInv

(* Each step of the search keeps this, and has less left to do, until all    *)
(* blocks are sorted.                                                        *)
SearchState == [stack : Seq(Entry), temporary : SUBSET DOMAIN body, sorted : Seq(DOMAIN body), dag : BOOLEAN]

Searching(s, bodies) ==
  s \in SearchState /\ s.dag = TRUE /\ SearchInv(s.stack, s.temporary, s.sorted, bodies, {})

Shrinks(new, old) == new \subseteq old /\ new # old

LEMMA Restacked ==
  ASSUME NEW s \in SearchState, NEW stack \in Seq(Entry)
  PROVE  /\ [s EXCEPT !.stack = stack]
              = [stack |-> stack, temporary |-> s.temporary, sorted |-> s.sorted, dag |-> s.dag]
         /\ [stack |-> stack, temporary |-> s.temporary, sorted |-> s.sorted, dag |-> s.dag] \in SearchState
<1> DEFINE field(x) == IF x = "stack" THEN stack ELSE s[x]
<1>1. /\ DOMAIN s = {"stack", "temporary", "sorted", "dag"}
      /\ s.stack \in Seq(Entry) /\ s.temporary \in SUBSET DOMAIN body /\ s.sorted \in Seq(DOMAIN body) /\ s.dag \in BOOLEAN
  BY DEF SearchState
<1>2. [s EXCEPT !.stack = stack] = [x \in DOMAIN s |-> field(x)]
  BY <1>1
<1>3. [stack |-> stack, temporary |-> s.temporary, sorted |-> s.sorted, dag |-> s.dag]
      = [x \in {"stack", "temporary", "sorted", "dag"} |-> field(x)]
  OBVIOUS
<1>4. [stack |-> stack, temporary |-> s.temporary, sorted |-> s.sorted, dag |-> s.dag] \in SearchState
  BY <1>1 DEF SearchState
<1> QED
  BY <1>1, <1>2, <1>3, <1>4

LEMMA RestackedOpen ==
  ASSUME NEW s \in SearchState, NEW stack \in Seq(Entry), NEW temporary \in SUBSET DOMAIN body
  PROVE  /\ [s EXCEPT !.stack = stack, !.temporary = temporary]
              = [stack |-> stack, temporary |-> temporary, sorted |-> s.sorted, dag |-> s.dag]
         /\ [stack |-> stack, temporary |-> temporary, sorted |-> s.sorted, dag |-> s.dag] \in SearchState
<1> DEFINE field(x) == IF x = "temporary" THEN temporary ELSE IF x = "stack" THEN stack ELSE s[x]
<1>1. /\ DOMAIN s = {"stack", "temporary", "sorted", "dag"}
      /\ s.stack \in Seq(Entry) /\ s.temporary \in SUBSET DOMAIN body /\ s.sorted \in Seq(DOMAIN body) /\ s.dag \in BOOLEAN
  BY DEF SearchState
<1>2. [s EXCEPT !.stack = stack, !.temporary = temporary] = [x \in DOMAIN s |-> field(x)]
  BY <1>1
<1>3. [stack |-> stack, temporary |-> temporary, sorted |-> s.sorted, dag |-> s.dag]
      = [x \in {"stack", "temporary", "sorted", "dag"} |-> field(x)]
  OBVIOUS
<1>4. [stack |-> stack, temporary |-> temporary, sorted |-> s.sorted, dag |-> s.dag] \in SearchState
  BY <1>1 DEF SearchState
<1> QED
  BY <1>1, <1>2, <1>3, <1>4

LEMMA RestackedSorted ==
  ASSUME NEW s \in SearchState, NEW stack \in Seq(Entry), NEW sorted \in Seq(DOMAIN body)
  PROVE  /\ [s EXCEPT !.stack = stack, !.sorted = sorted]
              = [stack |-> stack, temporary |-> s.temporary, sorted |-> sorted, dag |-> s.dag]
         /\ [stack |-> stack, temporary |-> s.temporary, sorted |-> sorted, dag |-> s.dag] \in SearchState
<1> DEFINE field(x) == IF x = "sorted" THEN sorted ELSE IF x = "stack" THEN stack ELSE s[x]
<1>1. /\ DOMAIN s = {"stack", "temporary", "sorted", "dag"}
      /\ s.stack \in Seq(Entry) /\ s.temporary \in SUBSET DOMAIN body /\ s.sorted \in Seq(DOMAIN body) /\ s.dag \in BOOLEAN
  BY DEF SearchState
<1>2. [s EXCEPT !.stack = stack, !.sorted = sorted] = [x \in DOMAIN s |-> field(x)]
  BY <1>1
<1>3. [stack |-> stack, temporary |-> s.temporary, sorted |-> sorted, dag |-> s.dag]
      = [x \in {"stack", "temporary", "sorted", "dag"} |-> field(x)]
  OBVIOUS
<1>4. [stack |-> stack, temporary |-> s.temporary, sorted |-> sorted, dag |-> s.dag] \in SearchState
  BY <1>1 DEF SearchState
<1> QED
  BY <1>1, <1>2, <1>3, <1>4

LEMMA VisitedKeeps ==
  ASSUME body \in Bodies, NEW bodies, NEW s, Searching(s, bodies), s.stack # <<>>, Last(s.stack).rest # <<>>,
         NEW next, next = Visited(body, bodies, back_edges(body), s, Front(s.stack), Last(s.stack))
  PROVE  /\ Searching(next, bodies)
         /\ Shrinks(Left(next.stack, next.temporary, bodies), Left(s.stack, s.temporary, bodies))
<1> DEFINE top == Last(s.stack)
           x == Head(top.rest)
           left == Append(Front(s.stack), [top EXCEPT !.rest = Tail(@)])
           back == back_edges(body)
           short == [s EXCEPT !.stack = left]
<1>1. s \in SearchState /\ s.dag = TRUE /\ SearchInv(s.stack, s.temporary, s.sorted, bodies, {})
  BY DEF Searching
<1>2. /\ SearchInv(left, s.temporary, s.sorted, bodies, {x})
      /\ left # <<>> /\ Last(left).block = top.block
      /\ top.block \in DOMAIN body /\ x \in ToSet(successors(body, top.block))
      /\ Left(left, s.temporary, bodies) \subseteq Left(s.stack, s.temporary, bodies)
      /\ Left(left, s.temporary, bodies) # Left(s.stack, s.temporary, bodies)
  <2> DEFINE st == s.stack
             te == s.temporary
             so == s.sorted
  <2>1. left = Shortened(st)
    BY DEF Shortened
  <2>2. st # <<>> /\ Last(st).rest # <<>> /\ SearchInv(st, te, so, bodies, {})
    BY <1>1
  <2> HIDE DEF left, st, te, so
  <2>3. /\ SearchInv(left, te, so, bodies, {Head(Last(st).rest)})
        /\ left # <<>> /\ Last(left).block = Last(st).block
        /\ Last(st).block \in DOMAIN body
        /\ Head(Last(st).rest) \in ToSet(successors(body, Last(st).block))
        /\ Left(left, te, bodies) \subseteq Left(st, te, bodies)
        /\ Left(left, te, bodies) # Left(st, te, bodies)
    BY <2>1, <2>2, SearchShortens, ZenonT(60)
  <2> QED BY <2>3 DEF st, te, so
<1>3. next = IF <<top.block, x>> \in back \/ x \in ToSet(s.sorted) THEN short
             ELSE IF x \in s.temporary THEN [s EXCEPT !.stack = left, !.dag = FALSE]
             ELSE Entered(body, bodies, s, left, x)
  BY DEF Visited
<1> HIDE DEF left, x, top
<1>4. left \in Seq(Entry) /\ s.temporary \in SUBSET DOMAIN body /\ s.sorted \in Seq(DOMAIN body)
  BY <1>2 DEF SearchInv, Typed
<1>5. x \in DOMAIN body /\ (<<top.block, x>> \notin back => x \in Forward[top.block])
  BY <1>2, ForwardEdge
<1>6. /\ short \in SearchState
      /\ short = [stack |-> left, temporary |-> s.temporary, sorted |-> s.sorted, dag |-> s.dag]
  BY <1>1, <1>4, Restacked
<1> HIDE DEF short
<1>7. short.stack = left /\ short.temporary = s.temporary /\ short.sorted = s.sorted /\ short.dag = TRUE
  BY <1>1, <1>6
<1>8. Len(left) \in Nat /\ Len(left) \in 1..Len(left) /\ left[Len(left)].block = top.block
  BY <1>2, <1>4, TopOf
<1>9. CASE <<top.block, x>> \in back \/ x \in ToSet(s.sorted)
  <2>1. LookedAt(left, s.sorted, {})
    <3>1. LookedAt(left, s.sorted, {x})
      BY <1>2 DEF SearchInv
    <3>2. \A k \in 1..Len(left) : \A t : k = Len(left) /\ t \in {x} =>
            t \in ToSet(s.sorted) \/ <<left[k].block, t>> \in back
      BY <1>8, <1>9
    <3> QED BY <3>1, <3>2 DEF LookedAt
  <2>2. SearchInv(left, s.temporary, s.sorted, bodies, {})
    BY <1>2, <2>1 DEF SearchInv
  <2>3. next = short
    BY <1>3, <1>9
  <2>4. Searching(next, bodies)
    BY <1>6, <1>7, <2>2, <2>3 DEF Searching
  <2> QED BY <1>2, <1>7, <2>3, <2>4 DEF Shrinks
<1>10. CASE ~(<<top.block, x>> \in back \/ x \in ToSet(s.sorted))
  <2>1. x \in Forward[top.block]
    BY <1>5, <1>10
  <2>2. ASSUME x \in s.temporary PROVE FALSE
    <3>1. PICK k \in 1..Len(left) : left[k].block = x
      BY <1>2, <1>10, <2>2 DEF SearchInv, Placed
    <3>2. CASE k = Len(left)
      BY <1>5, <1>8, <2>1, <3>1, <3>2, AheadLeast
    <3>3. CASE k # Len(left)
      <4>1. k \in 1..(Len(left) - 1)
        BY <1>8, <3>3
      <4>2. top.block \in Ahead(x)
        BY <1>2, <1>8, <3>1, <4>1 DEF SearchInv, Climbs
      <4> QED BY <1>5, <2>1, <4>2, AheadLeast
    <3> QED BY <3>2, <3>3
  <2>3. next = Entered(body, bodies, s, left, x)
    BY <1>3, <1>10, <2>2
  <2> DEFINE more == Append(left, [block |-> x, rest |-> Groups(body, bodies, x)])
  <2>4. next = [s EXCEPT !.stack = more, !.temporary = s.temporary \cup {x}]
    BY <2>3 DEF Entered
  <2>5. /\ SearchInv(more, s.temporary \cup {x}, s.sorted, bodies, {})
        /\ Left(more, s.temporary \cup {x}, bodies) \subseteq Left(left, s.temporary, bodies)
        /\ Left(more, s.temporary \cup {x}, bodies) # Left(left, s.temporary, bodies)
    <3>1. x \in DOMAIN body /\ x \notin s.temporary /\ OnlyIn({x}, x) /\ MayOpen(left, x)
      BY <1>2, <1>5, <2>1, <2>2 DEF OnlyIn, MayOpen
    <3> HIDE DEF more
    <3>2. more = Opened(left, bodies, x)
      BY DEF more, Opened
    <3> DEFINE te == s.temporary
               so == s.sorted
               X == {x}
    <3>3. SearchInv(left, te, so, bodies, X) /\ x \notin te /\ OnlyIn(X, x)
      BY <1>2, <3>1
    <3> HIDE DEF te, so, X
    <3>4. /\ SearchInv(more, te \cup {x}, so, bodies, {})
          /\ Left(more, te \cup {x}, bodies) \subseteq Left(left, te, bodies)
          /\ Left(more, te \cup {x}, bodies) # Left(left, te, bodies)
      BY <3>1, <3>2, <3>3, SearchEnters, ZenonT(60)
    <3> QED BY <3>4 DEF te, so
  <2> HIDE DEF more
  <2>6. more \in Seq(Entry) /\ s.temporary \cup {x} \in SUBSET DOMAIN body
    BY <2>5 DEF SearchInv, Typed
  <2>7. /\ next \in SearchState
        /\ next = [stack |-> more, temporary |-> s.temporary \cup {x}, sorted |-> s.sorted, dag |-> s.dag]
    <3> DEFINE new == s.temporary \cup {x}
    <3>1. s \in SearchState /\ more \in Seq(Entry) /\ new \in SUBSET DOMAIN body
      BY <1>1, <2>6
    <3>2. next = [s EXCEPT !.stack = more, !.temporary = new]
      BY <2>4, Zenon
    <3> HIDE DEF new
    <3>3. /\ [s EXCEPT !.stack = more, !.temporary = new]
               = [stack |-> more, temporary |-> new, sorted |-> s.sorted, dag |-> s.dag]
          /\ [stack |-> more, temporary |-> new, sorted |-> s.sorted, dag |-> s.dag] \in SearchState
      BY <3>1, RestackedOpen, Zenon
    <3>4. next = [stack |-> more, temporary |-> new, sorted |-> s.sorted, dag |-> s.dag] /\ next \in SearchState
      BY <3>2, <3>3, Zenon
    <3> QED BY <3>4 DEF new
  <2>8. next.stack = more /\ next.temporary = s.temporary \cup {x} /\ next.sorted = s.sorted /\ next.dag = TRUE
    BY <1>1, <2>7
  <2>9. Searching(next, bodies)
    BY <2>5, <2>7, <2>8 DEF Searching
  <2> QED BY <1>2, <2>5, <2>8, <2>9 DEF Shrinks
<1> QED
  BY <1>9, <1>10

LEMMA StepKeeps ==
  ASSUME body \in Bodies, NEW bodies, NEW s, Searching(s, bodies),
         NEW next, next = SearchStep(body, bodies, back_edges(body), s)
  PROVE  /\ Searching(next, bodies)
         /\ \/ next = s /\ s.stack = <<>> /\ ToSet(s.sorted) = DOMAIN body
            \/ Shrinks(Left(next.stack, next.temporary, bodies), Left(s.stack, s.temporary, bodies))
<1>1. s \in SearchState /\ s.dag = TRUE /\ SearchInv(s.stack, s.temporary, s.sorted, bodies, {})
  BY DEF Searching
<1>2. s.stack \in Seq(Entry) /\ s.temporary \in SUBSET DOMAIN body /\ s.sorted \in Seq(DOMAIN body)
  BY <1>1 DEF SearchInv, Typed
<1>3. CASE s.stack = <<>>
  <2> DEFINE unvisited == DOMAIN body \ ToSet(s.sorted)
             b == Min(unvisited)
             e == [block |-> b, rest |-> Groups(body, bodies, b)]
             more == Append(<<>>, e)
  <2>1. next = IF unvisited = {} THEN s ELSE Entered(body, bodies, s, <<>>, b)
    BY <1>3 DEF SearchStep
  <2>2. s.temporary = ToSet(s.sorted)
    <3>1. s.temporary = ToSet(s.sorted) \cup {s.stack[k].block : k \in 1..Len(s.stack)} /\ 1..Len(s.stack) = {}
      BY <1>1, <1>3 DEF SearchInv, Placed
    <3> QED BY <3>1
  <2>3. CASE unvisited = {}
    <3>1. ToSet(s.sorted) = DOMAIN body
      BY <1>2, <2>2, <2>3
    <3> QED BY <1>3, <2>1, <2>3, <3>1
  <2>4. CASE unvisited # {}
    <3>1. b \in DOMAIN body \ s.temporary
      <4>1. unvisited \subseteq Nat
        BY BodyTyped
      <4> HIDE DEF unvisited
      <4>2. \E i \in unvisited : \A j \in unvisited : i <= j
        BY <2>4, <4>1, LeastNumber
      <4>3. b \in unvisited
        BY <4>2 DEF Min
      <4> QED BY <2>2, <4>3 DEF unvisited
    <3> HIDE DEF b, unvisited
    <3>2. next = [s EXCEPT !.stack = more, !.temporary = s.temporary \cup {b}]
      BY <2>1, <2>4 DEF Entered
    <3>3. /\ SearchInv(more, s.temporary \cup {b}, s.sorted, bodies, {})
          /\ Left(more, s.temporary \cup {b}, bodies) \subseteq Left(s.stack, s.temporary, bodies)
          /\ Left(more, s.temporary \cup {b}, bodies) # Left(s.stack, s.temporary, bodies)
      <4>1. more = Opened(s.stack, bodies, b)
        BY <1>3 DEF Opened
      <4> HIDE DEF more
      <4>2. OnlyIn({}, b) /\ MayOpen(s.stack, b) /\ b \in DOMAIN body
        BY <1>3, <3>1 DEF OnlyIn, MayOpen
      <4> DEFINE st == s.stack
                 te == s.temporary
                 so == s.sorted
      <4>3. /\ SearchInv(st, te, so, bodies, {}) /\ b \notin te /\ MayOpen(st, b)
            /\ more = Opened(st, bodies, b)
        BY <1>1, <3>1, <4>1, <4>2
      <4> HIDE DEF st, te, so
      <4>4. /\ SearchInv(more, te \cup {b}, so, bodies, {})
            /\ Left(more, te \cup {b}, bodies) \subseteq Left(st, te, bodies)
            /\ Left(more, te \cup {b}, bodies) # Left(st, te, bodies)
        BY <4>2, <4>3, SearchEnters
      <4> QED BY <4>4 DEF st, te, so
    <3> HIDE DEF more
    <3>4. more \in Seq(Entry) /\ s.temporary \cup {b} \in SUBSET DOMAIN body
      BY <3>3 DEF SearchInv, Typed
    <3>5. /\ next \in SearchState
          /\ next = [stack |-> more, temporary |-> s.temporary \cup {b}, sorted |-> s.sorted, dag |-> s.dag]
      <4> DEFINE new == s.temporary \cup {b}
      <4>1. s \in SearchState /\ more \in Seq(Entry) /\ new \in SUBSET DOMAIN body
        BY <1>1, <3>4
      <4>2. next = [s EXCEPT !.stack = more, !.temporary = new]
        BY <3>2, Zenon
      <4> HIDE DEF new
      <4>3. /\ [s EXCEPT !.stack = more, !.temporary = new]
                 = [stack |-> more, temporary |-> new, sorted |-> s.sorted, dag |-> s.dag]
            /\ [stack |-> more, temporary |-> new, sorted |-> s.sorted, dag |-> s.dag] \in SearchState
        BY <4>1, RestackedOpen, Zenon
      <4>4. next = [stack |-> more, temporary |-> new, sorted |-> s.sorted, dag |-> s.dag] /\ next \in SearchState
        BY <4>2, <4>3, Zenon
      <4> QED BY <4>4 DEF new
    <3>6. next.stack = more /\ next.temporary = s.temporary \cup {b} /\ next.sorted = s.sorted /\ next.dag = TRUE
      BY <1>1, <3>5
    <3>7. Searching(next, bodies)
      BY <3>3, <3>5, <3>6 DEF Searching
    <3> QED BY <3>3, <3>6, <3>7 DEF Shrinks
  <2> QED BY <2>3, <2>4
<1>4. CASE s.stack # <<>> /\ Last(s.stack).rest # <<>>
  <2>1. next = Visited(body, bodies, back_edges(body), s, Front(s.stack), Last(s.stack))
    BY <1>4 DEF SearchStep
  <2> QED BY <1>4, <2>1, VisitedKeeps
<1>5. CASE s.stack # <<>> /\ Last(s.stack).rest = <<>>
  <2> DEFINE left == Front(s.stack)
             more == Append(s.sorted, Last(s.stack).block)
  <2>1. next = [s EXCEPT !.stack = left, !.sorted = more]
    BY <1>5 DEF SearchStep
  <2>2. /\ SearchInv(left, s.temporary, more, bodies, {})
        /\ Left(left, s.temporary, bodies) \subseteq Left(s.stack, s.temporary, bodies)
        /\ Left(left, s.temporary, bodies) # Left(s.stack, s.temporary, bodies)
    <3> DEFINE st == s.stack
               te == s.temporary
               so == s.sorted
    <3>1. /\ SearchInv(st, te, so, bodies, {}) /\ st # <<>> /\ Last(st).rest = <<>>
          /\ left = Front(st) /\ more = Append(so, Last(st).block)
      BY <1>1, <1>5
    <3> HIDE DEF st, te, so, left, more
    <3>2. /\ SearchInv(left, te, more, bodies, {})
          /\ Left(left, te, bodies) \subseteq Left(st, te, bodies)
          /\ Left(left, te, bodies) # Left(st, te, bodies)
      BY <3>1, SearchLeaves
    <3> QED BY <3>2 DEF st, te, so
  <2> HIDE DEF left, more
  <2>3. left \in Seq(Entry) /\ more \in Seq(DOMAIN body)
    BY <2>2 DEF SearchInv, Typed
  <2>4. /\ next \in SearchState
        /\ next = [stack |-> left, temporary |-> s.temporary, sorted |-> more, dag |-> s.dag]
    <3>1. s \in SearchState /\ left \in Seq(Entry) /\ more \in Seq(DOMAIN body)
      BY <1>1, <2>3
    <3>2. /\ [s EXCEPT !.stack = left, !.sorted = more]
               = [stack |-> left, temporary |-> s.temporary, sorted |-> more, dag |-> s.dag]
          /\ [stack |-> left, temporary |-> s.temporary, sorted |-> more, dag |-> s.dag] \in SearchState
      BY <3>1, RestackedSorted, Zenon
    <3> QED BY <2>1, <3>2, Zenon
  <2>5. next.stack = left /\ next.temporary = s.temporary /\ next.sorted = more /\ next.dag = TRUE
    BY <1>1, <2>4
  <2>6. Searching(next, bodies)
    BY <2>2, <2>4, <2>5 DEF Searching
  <2> QED BY <2>2, <2>5, <2>6 DEF Shrinks
<1> QED
  BY <1>3, <1>4, <1>5

LEMMA VisitsFinite ==
  ASSUME body \in Bodies, NEW bodies
  PROVE  IsFiniteSet(Visits(body, bodies))
<1> DEFINE of(b) == {b} \X (0..(Len(Groups(body, bodies, b)) + 1))
           all(S) == UNION {of(b) : b \in S}
           T == {S \in SUBSET DOMAIN body : IsFiniteSet(all(S))}
<1>1. \A b \in DOMAIN body : IsFiniteSet(of(b))
  <2> TAKE b \in DOMAIN body
  <2>1. Len(Groups(body, bodies, b)) \in Nat
    BY GroupsTyped
  <2> DEFINE k == Len(Groups(body, bodies, b)) + 1
  <2>2. k \in Int /\ 0 \in Int
    BY <2>1
  <2> HIDE DEF k
  <2>3. IsFiniteSet({b})
    BY FS_Singleton
  <2>4. IsFiniteSet(0..k)
    BY <2>2, FS_Interval
  <2>5. IsFiniteSet({b} \X (0..k))
    BY <2>3, <2>4, FS_Product
  <2> QED BY <2>5 DEF k
<1> HIDE DEF of
<1>2. {} \in T
  <2>1. all({}) = {}
    OBVIOUS
  <2> QED BY <2>1, FS_EmptySet
<1>3. ASSUME NEW S \in SUBSET DOMAIN body, S # {}, \A x \in S : S \ {x} \in T PROVE S \in T
  <2>1. PICK x \in S : TRUE
    BY <1>3
  <2>2. all(S) = all(S \ {x}) \cup of(x)
    <3>1. \A b \in S : b = x \/ b \in S \ {x}
      OBVIOUS
    <3> QED BY <3>1
  <2>3. IsFiniteSet(all(S \ {x})) /\ IsFiniteSet(of(x))
    BY <1>1, <1>3, <2>1
  <2> HIDE DEF all
  <2>4. IsFiniteSet(all(S))
    BY <2>2, <2>3, FS_Union
  <2> QED BY <2>4
<1>4. DOMAIN body \in T
  <2> HIDE DEF T
  <2>1. IsFiniteSet(DOMAIN body)
    BY BodyTyped
  <2>2. \A S \in SUBSET DOMAIN body : S \in T
    BY <1>2, <1>3, <2>1, SubsetInduction
  <2> QED BY <2>2
<1> QED
  BY <1>4 DEF Visits, of

(* The search sorts all blocks.                                              *)
LEMMA SearchSorts ==
  ASSUME body \in Bodies, NEW bodies, NEW s, s = Search(body, bodies, back_edges(body))
  PROVE  Searching(s, bodies) /\ s.stack = <<>> /\ ToSet(s.sorted) = DOMAIN body
<1> DEFINE V == Visits(body, bodies)
           N == Cardinality(V)
           Next_(r) == SearchStep(body, bodies, back_edges(body), r)
           Upto(f) == f = [n \in 0..N |-> IF n = 0 THEN SearchStart ELSE Next_(f[n - 1])]
           after == CHOOSE f : Upto(f)
           Good == {r \in SearchState : Searching(r, bodies)}
           step == [r \in Good |-> Next_(r)]
           left(r) == Left(r.stack, r.temporary, bodies)
           Done(r) == r.stack = <<>> /\ ToSet(r.sorted) = DOMAIN body
<1>1. s = after[N]
  BY DEF Search
<1>2. IsFiniteSet(V) /\ N \in Nat
  BY VisitsFinite, FS_CardinalityType
<1>3. \A r \in Good : Next_(r) \in Good
  <2> TAKE r \in Good
  <2>1. Searching(Next_(r), bodies)
    <3> DEFINE next == Next_(r)
    <3> HIDE DEF next
    <3>1. Searching(next, bodies)
      BY StepKeeps DEF next
    <3> QED BY <3>1 DEF next
  <2> QED BY <2>1 DEF Searching
<1>4. SearchStart \in Good
  <2>1. SearchStart \in SearchState /\ SearchStart.dag = TRUE
    BY DEF SearchStart, SearchState
  <2>2. SearchStart.stack = <<>> /\ SearchStart.temporary = {} /\ SearchStart.sorted = <<>>
    BY DEF SearchStart
  <2>3. SearchInv(<<>>, {}, <<>>, bodies, {})
    <3>1. Len(<<>>) = 0 /\ 1..0 = {} /\ ToSet(<<>>) = {} /\ <<>> \in Seq(Entry) /\ <<>> \in Seq(DOMAIN body)
      BY DEF ToSet
    <3> DEFINE e == <<>>
    <3> HIDE DEF e
    <3>2. Len(e) = 0 /\ 1..0 = {} /\ ToSet(e) = {} /\ e \in Seq(Entry) /\ e \in Seq(DOMAIN body)
      BY <3>1 DEF e
    <3>3. SearchInv(e, {}, e, bodies, {})
      BY <3>2 DEF SearchInv, Typed, Placed, SortedAfter, LookedAt, Climbs
    <3> QED BY <3>3 DEF e
  <2> QED BY <2>1, <2>2, <2>3 DEF Searching
<1> HIDE DEF Next_, V
<1>5. PICK g : Iterates(N, step, SearchStart, g)
  <2> HIDE DEF N, step
  <2> QED BY <1>2, IterationExists
<1>6. \A n \in 0..N : n # 0 => n - 1 \in 0..N
  BY <1>2
<1>7. ASSUME NEW f, \A n \in 0..N : f[n] = IF n = 0 THEN SearchStart ELSE Next_(f[n - 1])
      PROVE  \A n \in 0..N : f[n] \in Good
  <2> DEFINE T == {n \in 0..N : f[n] \in Good}
  <2> HIDE DEF N, Good
  <2>1. 0 \in T
    BY <1>2, <1>4, <1>7
  <2>2. ASSUME NEW n \in 0..(N - 1), n \in T PROVE n + 1 \in T
    <3>1. n + 1 \in 0..N /\ n + 1 # 0 /\ (n + 1) - 1 = n
      BY <1>2
    <3> QED BY <1>3, <1>7, <2>2, <3>1
  <2>3. \A n \in 0..N : n \in T
    <3> HIDE DEF T
    <3> QED BY <1>2, <2>1, <2>2, RangeInduction
  <2> QED BY <2>3
<1>8. \A n \in 0..N : g[n] = IF n = 0 THEN SearchStart ELSE step[g[n - 1]]
  <2> HIDE DEF step, N
  <2> QED BY <1>5 DEF Iterates
<1>9. \A n \in 0..N : g[n] \in Good
  <2> DEFINE T == {n \in 0..N : g[n] \in Good}
  <2>1. \A r \in Good : step[r] \in Good
    BY <1>3
  <2> HIDE DEF N, Good, step
  <2>2. 0 \in T
    BY <1>2, <1>4, <1>8
  <2>3. ASSUME NEW n \in 0..(N - 1), n \in T PROVE n + 1 \in T
    <3>1. n + 1 \in 0..N /\ n + 1 # 0 /\ (n + 1) - 1 = n
      BY <1>2
    <3> QED BY <1>8, <2>1, <2>3, <3>1
  <2>4. \A n \in 0..N : n \in T
    <3> HIDE DEF T
    <3> QED BY <1>2, <2>2, <2>3, RangeInduction
  <2> QED BY <2>4
<1>10. Upto(g)
  <2>1. \A r \in Good : step[r] = Next_(r)
    OBVIOUS
  <2> DEFINE h == [n \in 0..N |-> IF n = 0 THEN SearchStart ELSE Next_(g[n - 1])]
  <2> HIDE DEF N, Good, step
  <2>2. \A n \in 0..N : h[n] = g[n]
    BY <1>6, <1>8, <1>9, <2>1
  <2>3. g = [n \in 0..N |-> g[n]]
    BY <1>5 DEF Iterates
  <2>4. h = [n \in 0..N |-> h[n]]
    OBVIOUS
  <2> HIDE DEF h
  <2>5. g = h
    BY <2>2, <2>3, <2>4
  <2> QED BY <2>5 DEF h
<1>11. Upto(after)
  <2> HIDE DEF Upto
  <2> QED BY <1>10
<1>12. \A n \in 0..N : after[n] = IF n = 0 THEN SearchStart ELSE Next_(after[n - 1])
  <2> HIDE DEF after, N
  <2> QED BY <1>11
<1> HIDE DEF after
<1>13. \A n \in 0..N : after[n] \in Good
  <2> HIDE DEF N, Good
  <2> QED BY <1>7, <1>12
<1>14. \A r \in Good : /\ IsFiniteSet(left(r)) /\ Cardinality(left(r)) \in 0..N
                      /\ \/ Done(r) /\ Next_(r) = r
                         \/ Cardinality(left(Next_(r))) < Cardinality(left(r))
  <2> TAKE r \in Good
  <2>1. \A q : left(q) \in SUBSET V
    BY DEF Left, V
  <2>2. \A q : IsFiniteSet(left(q)) /\ Cardinality(left(q)) \in 0..N
    <3> HIDE DEF left
    <3> QED BY <1>2, <2>1, FS_Subset, FS_CardinalityType
  <2>3. \/ Done(r) /\ Next_(r) = r
        \/ Shrinks(left(Next_(r)), left(r))
    <3> DEFINE next == Next_(r)
    <3>1. \/ next = r /\ r.stack = <<>> /\ ToSet(r.sorted) = DOMAIN body
          \/ Shrinks(Left(next.stack, next.temporary, bodies), Left(r.stack, r.temporary, bodies))
      <4> HIDE DEF next
      <4> QED BY StepKeeps DEF next, Next_
    <3> QED BY <3>1
  <2>4. ASSUME Shrinks(left(Next_(r)), left(r)) PROVE Cardinality(left(Next_(r))) < Cardinality(left(r))
    <3> DEFINE a == left(Next_(r))
               b == left(r)
    <3>1. a \in SUBSET b /\ a # b /\ IsFiniteSet(b) /\ Cardinality(a) \in 0..N /\ Cardinality(b) \in 0..N
      BY <2>2, <2>4 DEF Shrinks
    <3> HIDE DEF a, b
    <3>2. Cardinality(a) < Cardinality(b)
      BY <1>2, <3>1, FS_Subset
    <3> QED BY <3>2 DEF a, b
  <2> QED BY <2>2, <2>3, <2>4
<1> DEFINE size(r) == Cardinality(left(r))
           T == {n \in 0..N : Done(after[n]) \/ size(after[n]) + n <= N}
<1>15. 0 \in T
  <2>1. after[0] \in Good /\ 0 \in 0..N
    BY <1>2, <1>13
  <2>2. size(after[0]) \in 0..N
    BY <1>14, <2>1
  <2> HIDE DEF N, size
  <2> QED BY <1>2, <2>1, <2>2
<1>16. ASSUME NEW n \in 0..(N - 1), n \in T PROVE n + 1 \in T
  <2>1. n + 1 \in 0..N /\ n + 1 # 0 /\ (n + 1) - 1 = n /\ n \in 0..N
    BY <1>2
  <2>2. after[n + 1] = Next_(after[n]) /\ after[n] \in Good /\ after[n + 1] \in Good
    <3> HIDE DEF N, Good
    <3> QED BY <1>12, <1>13, <2>1
  <2>3. /\ size(after[n]) \in 0..N /\ size(after[n + 1]) \in 0..N
        /\ \/ Done(after[n]) /\ after[n + 1] = after[n]
           \/ size(after[n + 1]) < size(after[n])
    BY <1>14, <2>2
  <2>4. Done(after[n]) \/ size(after[n]) + n <= N
    BY <1>16
  <2>5. Done(after[n]) => Done(after[n + 1])
    <3> SUFFICES ASSUME Done(after[n]) PROVE Done(after[n + 1])
      OBVIOUS
    <3>1. Next_(after[n]) = after[n]
      BY DEF Next_, SearchStep
    <3> QED BY <2>2, <3>1
  <2> HIDE DEF N, size, Done
  <2>6. Done(after[n + 1]) \/ size(after[n + 1]) + (n + 1) <= N
    BY <1>2, <2>3, <2>4, <2>5
  <2> QED BY <2>1, <2>6
<1>17. N \in T
  <2>1. \A n \in 0..N : n \in T
    <3> HIDE DEF T, N
    <3> QED BY <1>2, <1>15, <1>16, RangeInduction
  <2> HIDE DEF T
  <2> QED BY <1>2, <2>1
<1>18. after[N] \in Good /\ N \in 0..N
  BY <1>2, <1>13
<1>19. Done(after[N])
  <2> SUFFICES ASSUME size(after[N]) + N <= N PROVE Done(after[N])
    BY <1>17
  <2>1. size(after[N]) \in 0..N
    BY <1>14, <1>18
  <2>2. size(after[N]) = 0
    <3> HIDE DEF size, N
    <3> QED BY <1>2, <2>1
  <2>3. Next_(after[N]) \in Good
    BY <1>3, <1>18
  <2>4. size(Next_(after[N])) \in 0..N
    BY <1>14, <2>3
  <2>5. ~(size(Next_(after[N])) < 0)
    <3> HIDE DEF size, N
    <3> QED BY <1>2, <2>4
  <2>6. Done(after[N]) \/ size(Next_(after[N])) < size(after[N])
    BY <1>14, <1>18
  <2> QED BY <2>2, <2>5, <2>6
<1> QED
  BY <1>1, <1>18, <1>19

---------------------------------------------------------------------------
(* The loop bodies that are computed, against the natural loops.             *)
BodyOf(h) == loop_bodies(body)[h]

LEMMA BackEdges ==
  ASSUME body \in Bodies
  PROVE  /\ \A b, h : <<b, h>> \in back_edges(body) <=> h \in DOMAIN body /\ b \in BackSources(h)
         /\ loop_heads(body) = Heads
<1>1. \A b \in DOMAIN body : ToSet(successors(body, b)) \subseteq DOMAIN body
  BY BodyTyped DEF ToSet
<1>2. ASSUME NEW b, NEW h PROVE <<b, h>> \in back_edges(body) <=> h \in DOMAIN body /\ b \in BackSources(h)
  BY DEF back_edges, BackSources
<1>3. \A e \in back_edges(body) : e = <<e[1], e[2]>>
  BY DEF back_edges
<1>4. loop_heads(body) \subseteq Heads
  BY <1>2, <1>3 DEF loop_heads, Heads
<1>5. ASSUME NEW h \in Heads PROVE h \in loop_heads(body)
  <2>1. h \in DOMAIN body /\ BackSources(h) # {}
    BY DEF Heads
  <2>2. PICK b : b \in BackSources(h)
    BY <2>1
  <2>3. <<b, h>> \in back_edges(body) /\ <<b, h>>[2] = h
    BY <1>2, <2>1, <2>2
  <2> QED BY <2>3 DEF loop_heads
<1> QED
  BY <1>2, <1>4, <1>5

LEMMA CollectedLeast ==
  ASSUME body \in Bodies, NEW h \in DOMAIN body, NEW s \in DOMAIN body,
         NEW C, C = collect_loop_body(body, h, s)
  PROVE  /\ s \in C /\ C \in SUBSET DOMAIN body
         /\ \A b \in C : b # h \/ b = s => predecessors(body, b) \subseteq C
         /\ \A D \in SUBSET DOMAIN body :
              s \in D /\ (\A b \in D : b # h \/ b = s => predecessors(body, b) \subseteq D) => C \subseteq D
<1> DEFINE up == [b \in DOMAIN body |-> IF b = h /\ b # s THEN {} ELSE predecessors(body, b)]
<1>1. C = Reach(up, {s}, DOMAIN body)
  BY DEF collect_loop_body
<1>2. \A b \in DOMAIN body : up[b] = IF b = h /\ b # s THEN {} ELSE predecessors(body, b)
  OBVIOUS
<1>3. \A b : predecessors(body, b) \subseteq DOMAIN body
  BY DEF predecessors
<1> HIDE DEF up
<1>4. IsReach(up, {s}, DOMAIN body, C)
  BY <1>1, BodyTyped, ReachLeast
<1>5. C \in SUBSET DOMAIN body /\ {s} \cap DOMAIN body \subseteq C
  BY <1>4 DEF IsReach
<1>6. \A b \in C : up[b] \cap DOMAIN body \subseteq C
  BY <1>4 DEF IsReach
<1>7. ASSUME NEW D \in SUBSET DOMAIN body, s \in D,
             \A b \in D : b # h \/ b = s => predecessors(body, b) \subseteq D
      PROVE  C \subseteq D
  <2>1. \A b \in D : up[b] \cap DOMAIN body \subseteq D
    BY <1>2, <1>7
  <2>2. {s} \cap DOMAIN body \subseteq D
    BY <1>7
  <2> QED BY <1>4, <2>1, <2>2 DEF IsReach
<1>8. \A b \in C : b # h \/ b = s => predecessors(body, b) \subseteq C
  BY <1>2, <1>3, <1>5, <1>6
<1> QED
  BY <1>5, <1>7, <1>8

(* They hold the natural loop if they hold the head at all, and nothing else *)
(* unless the head jumps to itself.                                          *)
LEMMA BodyCollected ==
  ASSUME body \in Bodies, NEW h \in Heads
  PROVE  /\ DOMAIN loop_bodies(body) = Heads
         /\ BodyOf(h) = UNION {collect_loop_body(body, h, s) : s \in BackSources(h)}
<1>1. DOMAIN loop_bodies(body) = Heads
  BY BackEdges DEF loop_bodies
<1>2. BodyOf(h) = UNION {collect_loop_body(body, h, e[1]) : e \in {f \in back_edges(body) : f[2] = h}}
  BY <1>1, BackEdges DEF loop_bodies, BodyOf
<1>3. \A e \in {f \in back_edges(body) : f[2] = h} : e[1] \in BackSources(h)
  BY DEF back_edges, BackSources
<1>4. \A s \in BackSources(h) : <<s, h>> \in {f \in back_edges(body) : f[2] = h} /\ <<s, h>>[1] = s
  BY BackEdges DEF Heads
<1>5. \A x \in BodyOf(h) : \E s \in BackSources(h) : x \in collect_loop_body(body, h, s)
  BY <1>2, <1>3
<1>6. \A s \in BackSources(h) : collect_loop_body(body, h, s) \subseteq BodyOf(h)
  <2> DEFINE edges == {f \in back_edges(body) : f[2] = h}
  <2> HIDE DEF edges
  <2>1. \A e \in edges : collect_loop_body(body, h, e[1]) \subseteq BodyOf(h)
    BY <1>2 DEF edges
  <2>2. \A s \in BackSources(h) : <<s, h>> \in edges
    BY <1>4 DEF edges
  <2> TAKE s \in BackSources(h)
  <2>3. collect_loop_body(body, h, <<s, h>>[1]) \subseteq BodyOf(h)
    BY <2>1, <2>2
  <2> QED BY <2>3
<1> QED
  BY <1>1, <1>5, <1>6

LEMMA BodyAgainstLoop ==
  ASSUME body \in Bodies, NEW h \in Heads
  PROVE  /\ BackSources(h) \subseteq BodyOf(h) /\ BodyOf(h) \in SUBSET DOMAIN body
         /\ \A b \in BodyOf(h) : b # h \/ b \in BackSources(h) => predecessors(body, b) \subseteq BodyOf(h)
         /\ h \in BodyOf(h) => NaturalLoop(h) \subseteq BodyOf(h)
         /\ ~JumpsToItself(h) => BodyOf(h) \subseteq NaturalLoop(h)
<1>1. h \in DOMAIN body /\ BackSources(h) \subseteq DOMAIN body
  BY DEF Heads, BackSources
<1> DEFINE col(s) == collect_loop_body(body, h, s)
<1>2. \A s \in BackSources(h) :
        /\ s \in col(s) /\ col(s) \in SUBSET DOMAIN body
        /\ \A b \in col(s) : b # h \/ b = s => predecessors(body, b) \subseteq col(s)
        /\ \A D \in SUBSET DOMAIN body :
             s \in D /\ (\A b \in D : b # h \/ b = s => predecessors(body, b) \subseteq D) => col(s) \subseteq D
  <2> TAKE s \in BackSources(h)
  <2>1. s \in DOMAIN body
    BY <1>1
  <2> DEFINE C == col(s)
  <2>2. C = collect_loop_body(body, h, s)
    OBVIOUS
  <2> HIDE DEF C
  <2>3. /\ s \in C /\ C \in SUBSET DOMAIN body
        /\ \A b \in C : b # h \/ b = s => predecessors(body, b) \subseteq C
        /\ \A D \in SUBSET DOMAIN body :
             s \in D /\ (\A b \in D : b # h \/ b = s => predecessors(body, b) \subseteq D) => C \subseteq D
    BY <1>1, <2>1, <2>2, CollectedLeast
  <2> QED BY <2>3 DEF C
<1>3. BodyOf(h) = UNION {col(s) : s \in BackSources(h)}
  BY BodyCollected
<1> HIDE DEF col
<1>4. \A s \in BackSources(h) : col(s) \subseteq BodyOf(h)
  BY <1>3
<1>5. \A x \in BodyOf(h) : \E s \in BackSources(h) : x \in col(s)
  BY <1>3
<1>6. BackSources(h) \subseteq BodyOf(h) /\ BodyOf(h) \in SUBSET DOMAIN body
  BY <1>2, <1>4, <1>5
<1>7. ASSUME NEW b \in BodyOf(h), b # h \/ b \in BackSources(h) PROVE predecessors(body, b) \subseteq BodyOf(h)
  <2>1. CASE b = h
    <3>1. h \in col(h) /\ predecessors(body, h) \subseteq col(h)
      BY <1>2, <1>7, <2>1
    <3> QED BY <1>4, <1>7, <2>1, <3>1
  <2>2. CASE b # h
    <3>1. PICK s \in BackSources(h) : b \in col(s)
      BY <1>5
    <3>2. predecessors(body, b) \subseteq col(s)
      BY <1>2, <2>2, <3>1
    <3> QED BY <1>4, <3>2
  <2> QED BY <2>1, <2>2
<1>8. h \in BodyOf(h) => NaturalLoop(h) \subseteq BodyOf(h)
  BY <1>1, <1>6, <1>7, LoopLeast
<1>9. ASSUME ~JumpsToItself(h) PROVE BodyOf(h) \subseteq NaturalLoop(h)
  <2>1. /\ h \in NaturalLoop(h) /\ NaturalLoop(h) \in SUBSET DOMAIN body
        /\ BackSources(h) \subseteq NaturalLoop(h)
        /\ \A b \in NaturalLoop(h) : b # h => predecessors(body, b) \subseteq NaturalLoop(h)
    BY <1>1, LoopLeast
  <2>2. h \in BackSources(h) => predecessors(body, h) \subseteq NaturalLoop(h)
    BY <1>9 DEF JumpsToItself
  <2>3. \A s \in BackSources(h) : col(s) \subseteq NaturalLoop(h)
    <3> TAKE s \in BackSources(h)
    <3>1. \A b \in NaturalLoop(h) : b # h \/ b = s => predecessors(body, b) \subseteq NaturalLoop(h)
      BY <2>1, <2>2
    <3> QED BY <1>2, <2>1, <3>1
  <2> QED BY <1>5, <2>3
<1> QED
  BY <1>6, <1>7, <1>8, <1>9

(* A loop that is really entered holds its head.                             *)
LEMMA BodyHoldsHead ==
  ASSUME body \in Bodies, NEW h \in Heads, EnteredReally(h)
  PROVE  h \in BodyOf(h)
<1>1. h \in DOMAIN body
  BY DEF Heads
<1>2. PICK s : s \in BackSources(h)
  BY DEF Heads
<1>3. s \in BodyOf(h) /\ s \in NaturalLoop(h) /\ h \in NaturalLoop(h) /\ NaturalLoop(h) \in SUBSET DOMAIN body
  BY <1>1, <1>2, LoopLeast, BodyAgainstLoop
<1> SUFFICES ASSUME h \notin BodyOf(h) PROVE FALSE
  OBVIOUS
<1> DEFINE N == NaturalLoop(h)
           out == N \ BodyOf(h)
           graph == RealGraph(body)
<1>4. \A b \in BodyOf(h) : predecessors(body, b) \subseteq BodyOf(h)
  BY BodyAgainstLoop
<1>5. \A b \in DOMAIN body : graph[b] = ToSet(successors(body, b))
  BY DEF RealGraph
<1> HIDE DEF graph, N
<1>6. \A b \in out : graph[b] \cap N \subseteq out
  <2> SUFFICES ASSUME NEW b \in out, NEW t \in graph[b] \cap N, t \in BodyOf(h) PROVE FALSE
    OBVIOUS
  <2>1. b \in DOMAIN body /\ b \notin BodyOf(h)
    BY <1>3 DEF N
  <2>2. b \in predecessors(body, t)
    BY <1>5, <2>1 DEF predecessors
  <2> QED BY <1>4, <2>1, <2>2
<1>7. IsFiniteSet(N)
  BY <1>3, BodyTyped, FS_Subset DEF N
<1>8. IsReach(graph, {h}, N, Reach(graph, {h}, N))
  BY <1>7, ReachLeast
<1>9. Reach(graph, {h}, N) \subseteq out
  <2>1. out \in SUBSET N /\ {h} \cap N \subseteq out
    OBVIOUS
  <2> HIDE DEF out
  <2> QED BY <1>6, <1>8, <2>1 DEF IsReach
<1>10. N \subseteq out
  BY <1>9 DEF EnteredReally, graph, N
<1> QED
  BY <1>3, <1>10 DEF N

---------------------------------------------------------------------------
(* The order of a loop's blocks.  If it starts with the head and every other *)
(* block borders on one before it, the loop is computed exactly.             *)
LEMMA BorderedReached ==
  ASSUME NEW h, NEW S, NEW order \in Seq(S), order[1] = h, NEW back, NEW F, h \in F,
         \A i \in DOMAIN order : order[i] # h => BordersOn(body, back, order, i),
         \A b \in F \cap ToSet(order) : \A t \in ToSet(successors(body, b)) \cap ToSet(order) :
           <<b, t>> \notin back => t \in F
  PROVE  ToSet(order) \subseteq F
<1> DEFINE out == {i \in 1..Len(order) : order[i] \notin F}
<1>1. DOMAIN order = 1..Len(order) /\ Len(order) \in Nat
  OBVIOUS
<1>2. ToSet(order) = {order[i] : i \in 1..Len(order)}
  BY <1>1 DEF ToSet
<1> SUFFICES ASSUME out # {} PROVE FALSE
  BY <1>2
<1>3. PICK i \in out : \A k \in out : i <= k
  <2>1. out \subseteq Nat
    BY <1>1
  <2> HIDE DEF out
  <2> QED BY <2>1, LeastNumber
<1>4. i \in 1..Len(order) /\ order[i] \notin F /\ order[i] # h
  BY <1>3
<1>5. PICK j \in 1..(i - 1) : order[i] \in ToSet(successors(body, order[j])) /\ <<order[j], order[i]>> \notin back
  BY <1>1, <1>4 DEF BordersOn
<1>6. j \in 1..Len(order) /\ ~(i <= j)
  BY <1>1, <1>4
<1>7. order[j] \in F
  BY <1>3, <1>6
<1>8. order[j] \in ToSet(order) /\ order[i] \in ToSet(order)
  BY <1>2, <1>4, <1>6
<1> QED
  BY <1>4, <1>5, <1>7, <1>8

LEMMA OrderMakesExact ==
  ASSUME body \in Bodies, NEW h \in Heads, NEW order \in Seq(DOMAIN body), ToSet(order) = BodyOf(h), order[1] = h,
         \A i \in DOMAIN order : order[i] # h => BordersOn(body, back_edges(body), order, i)
  PROVE  BodyOf(h) = NaturalLoop(h) /\ EnteredReally(h) /\ ~JumpsToItself(h)
<1> DEFINE back == back_edges(body)
<1>1. h \in DOMAIN body
  BY DEF Heads
<1>2. /\ BackSources(h) \subseteq BodyOf(h) /\ BodyOf(h) \in SUBSET DOMAIN body
      /\ \A b \in BodyOf(h) : b # h \/ b \in BackSources(h) => predecessors(body, b) \subseteq BodyOf(h)
      /\ h \in BodyOf(h) => NaturalLoop(h) \subseteq BodyOf(h)
      /\ ~JumpsToItself(h) => BodyOf(h) \subseteq NaturalLoop(h)
  BY BodyAgainstLoop
<1>3. h \in BodyOf(h)
  <2>1. BodyOf(h) # {}
    BY <1>2 DEF Heads
  <2>2. 1 \in DOMAIN order
    <3>1. DOMAIN order = 1..Len(order) /\ Len(order) \in Nat /\ DOMAIN order # {}
      BY <2>1 DEF ToSet
    <3> QED BY <3>1
  <2> QED BY <2>2 DEF ToSet
<1>4. \A b \in DOMAIN body : \A t \in ToSet(successors(body, b)) :
        t \in DOMAIN body /\ (<<b, t>> \notin back => t \in Forward[b])
  BY ForwardEdge
<1>5. \A b \in BodyOf(h) : b # h => b \in Ahead(h)
  <2> DEFINE F == {h} \cup Ahead(h)
  <2>1. /\ Forward[h] \subseteq Ahead(h) /\ \A b \in Ahead(h) : Forward[b] \subseteq Ahead(h)
    BY <1>1, AheadLeast
  <2>2. \A b \in F \cap ToSet(order) : \A t \in ToSet(successors(body, b)) \cap ToSet(order) :
          <<b, t>> \notin back => t \in F
    BY <1>2, <1>4, <2>1
  <2>3. h \in F
    OBVIOUS
  <2> HIDE DEF back, F
  <2>4. \A i \in DOMAIN order : order[i] # h => BordersOn(body, back, order, i)
    BY DEF back
  <2>5. order \in Seq(ToSet(order)) /\ order[1] = h
    BY DEF ToSet
  <2>6. ToSet(order) \subseteq F
    BY ONLY <2>2, <2>3, <2>4, <2>5, BorderedReached
  <2> QED BY <2>6 DEF F
<1>6. ~JumpsToItself(h)
  <2> SUFFICES ASSUME JumpsToItself(h) PROVE FALSE
    OBVIOUS
  <2>1. h \in BackSources(h) /\ h \in NaturalLoop(h) /\ BackSources(h) \subseteq NaturalLoop(h)
    BY <1>1, LoopLeast DEF JumpsToItself
  <2>2. PICK p \in predecessors(body, h) : p \notin NaturalLoop(h)
    BY DEF JumpsToItself
  <2>3. p \in BodyOf(h) /\ p # h /\ p \in DOMAIN body /\ h \in ToSet(successors(body, p))
    BY <1>2, <1>3, <2>1, <2>2 DEF predecessors
  <2>4. <<p, h>> \notin back
    BY <2>1, <2>2, BackEdges
  <2>5. h \in Forward[p] /\ p \in Ahead(h)
    BY <1>4, <1>5, <2>3, <2>4
  <2> QED BY <1>1, <2>5, AheadLeast
<1>7. BodyOf(h) = NaturalLoop(h)
  BY <1>2, <1>3, <1>6
<1>8. EnteredReally(h)
  <2> DEFINE N == NaturalLoop(h)
             graph == RealGraph(body)
             F == Reach(graph, {h}, N)
  <2>1. h \in N /\ IsFiniteSet(N) /\ N \in SUBSET DOMAIN body
    BY <1>1, LoopLeast, BodyTyped, FS_Subset
  <2>2. \A b \in DOMAIN body : graph[b] = ToSet(successors(body, b))
    BY DEF RealGraph
  <2> HIDE DEF graph, N
  <2>3. IsReach(graph, {h}, N, F)
    BY <2>1, ReachLeast
  <2>4. F \in SUBSET N /\ h \in F /\ \A b \in F : graph[b] \cap N \subseteq F
    <3> HIDE DEF F
    <3>1. F \in SUBSET N /\ {h} \cap N \subseteq F /\ \A b \in F : graph[b] \cap N \subseteq F
      BY <2>3 DEF IsReach
    <3> QED BY <2>1, <3>1
  <2>5. ToSet(order) = N
    BY <1>7 DEF N
  <2> HIDE DEF F
  <2>6. \A b \in F \cap ToSet(order) : \A t \in ToSet(successors(body, b)) \cap ToSet(order) :
          <<b, t>> \notin back => t \in F
    BY <2>1, <2>2, <2>4, <2>5
  <2>7. \A i \in DOMAIN order : order[i] # h => BordersOn(body, back, order, i)
    OBVIOUS
  <2>8. h \in F
    BY <2>4
  <2> HIDE DEF back
  <2>9. ToSet(order) \subseteq F
    <3>1. order[1] = h /\ order \in Seq(DOMAIN body)
      OBVIOUS
    <3> QED BY <2>6, <2>7, <2>8, <3>1, BorderedReached
  <2> QED BY <2>5, <2>9 DEF EnteredReally, F, graph, N
<1> QED
  BY <1>6, <1>7, <1>8

(* In a loop that is really entered every block but the head is entered from *)
(* a block of the loop by an edge that is no back edge.                      *)
LEMMA EnteredAhead ==
  ASSUME body \in Bodies, NEW h \in Heads, EnteredReally(h), NEW b \in NaturalLoop(h), b # h
  PROVE  \E p \in NaturalLoop(h) : b \in ToSet(successors(body, p)) /\ <<p, b>> \notin back_edges(body)
<1> DEFINE back == back_edges(body)
           N == NaturalLoop(h)
           ahead == [c \in N |-> {t \in ToSet(successors(body, c)) : <<c, t>> \notin back}]
           graph == RealGraph(body)
           F == Reach(ahead, {h}, N)
<1>1. h \in DOMAIN body /\ h \in N /\ N \in SUBSET DOMAIN body /\ IsFiniteSet(N)
  BY LoopLeast, BodyTyped, FS_Subset DEF Heads
<1>2. \A c \in N : ahead[c] = {t \in ToSet(successors(body, c)) : <<c, t>> \notin back}
  OBVIOUS
<1>3. \A c \in DOMAIN body : graph[c] = ToSet(successors(body, c))
  BY DEF RealGraph
<1>4. N \subseteq Reach(graph, {h}, N)
  BY DEF EnteredReally
<1>5. \A s \in N : dominates(body, h, s)
  BY <1>1, LoopDominated
<1> HIDE DEF N, ahead, graph, back
<1>6. IsReach(ahead, {h}, N, F)
  BY <1>1, ReachLeast
<1> HIDE DEF F
<1>7. /\ F \in SUBSET N /\ h \in F /\ \A c \in F : ahead[c] \cap N \subseteq F
      /\ \A C \in SUBSET N : h \in C /\ (\A c \in C : ahead[c] \cap N \subseteq C) => F \subseteq C
  <2>1. {h} \cap N = {h}
    BY <1>1
  <2> QED BY <1>6, <2>1 DEF IsReach
<1>8. ASSUME NEW c \in F, NEW s \in graph[c] \cap N, s \notin F PROVE FALSE
  <2>1. c \in N /\ c \in DOMAIN body /\ s \in DOMAIN body /\ s # h /\ s # c /\ s \in ToSet(successors(body, c))
    BY <1>1, <1>3, <1>7, <1>8
  <2>2. <<c, s>> \in back
    BY <1>2, <1>7, <1>8, <2>1
  <2>3. dominates(body, s, c)
    BY <2>1, <2>2, ForwardEdge DEF back
  <2>4. h \in Avoiding(s)
    <3>1. ~dominates(body, s, h)
      BY <1>1, <1>5, <1>8, <2>1, DominatorsDiffer
    <3> QED BY <3>1, Dominated
  <2>5. \A d \in F \cap Avoiding(s) : ahead[d] \cap N \subseteq F \cap Avoiding(s)
    <3> SUFFICES ASSUME NEW d \in F \cap Avoiding(s), NEW t \in ahead[d] \cap N PROVE t \in Avoiding(s)
      BY <1>7
    <3>1. d \in N /\ d \in DOMAIN body /\ t \in F /\ t # s
      BY <1>1, <1>7, <1>8
    <3>2. t \in ToSet(successors(body, d))
      BY <1>2, <3>1
    <3>3. t \in CfgSuccessors(body, d) \ {s}
      BY <3>1, <3>2, BodyTyped
    <3> QED BY <3>3, AvoidingLeast
  <2>6. F \subseteq F \cap Avoiding(s)
    <3> DEFINE C == F \cap Avoiding(s)
    <3>1. C \in SUBSET N /\ h \in C
      BY <1>7, <2>4
    <3> HIDE DEF C
    <3>2. \A d \in C : ahead[d] \cap N \subseteq C
      BY <2>5 DEF C
    <3>3. F \subseteq C
      BY <1>7, <3>1, <3>2
    <3> QED BY <3>3 DEF C
  <2> QED BY <2>1, <2>3, <2>6, Dominated
<1>9. N \subseteq F
  <2>1. IsReach(graph, {h}, N, Reach(graph, {h}, N))
    BY <1>1, ReachLeast
  <2>2. \A c \in F : graph[c] \cap N \subseteq F
    BY <1>8
  <2>3. F \in SUBSET N /\ {h} \cap N \subseteq F
    BY <1>7
  <2>4. Reach(graph, {h}, N) \subseteq F
    BY <2>1, <2>2, <2>3 DEF IsReach
  <2> QED BY <1>4, <2>4
<1>10. ~(\A c \in N \ {b} : ahead[c] \cap N \subseteq N \ {b})
  <2> SUFFICES ASSUME \A c \in N \ {b} : ahead[c] \cap N \subseteq N \ {b} PROVE FALSE
    OBVIOUS
  <2>1. N \ {b} \in SUBSET N /\ h \in N \ {b}
    BY <1>1
  <2>2. F \subseteq N \ {b}
    BY <1>7, <2>1
  <2> QED BY <1>9, <2>2 DEF N
<1>11. PICK c \in N \ {b} : b \in ahead[c]
  BY <1>10
<1> QED
  BY <1>2, <1>11 DEF N, back

---------------------------------------------------------------------------
(* The order of blocks is that of the search turned around: every edge but   *)
(* the back edges leads on in it, also among the blocks of one loop.         *)
Sorted(sorted) ==
  /\ sorted \in Seq(DOMAIN body) /\ ToSet(sorted) = DOMAIN body /\ SortedAfter(sorted)
  /\ \A i, j \in 1..Len(sorted) : sorted[i] = sorted[j] => i = j

LEMMA Reversed ==
  ASSUME body \in Bodies, NEW sorted, Sorted(sorted), NEW order, order = Reverse(sorted)
  PROVE  /\ order \in Seq(DOMAIN body) /\ ToSet(order) = DOMAIN body
         /\ \A i, j \in 1..Len(order) : order[i] = order[j] => i = j
         /\ \A i, j \in 1..Len(order) :
              order[i] \in ToSet(successors(body, order[j])) /\ <<order[j], order[i]>> \notin back_edges(body) => j < i
<1> DEFINE N == Len(sorted)
           mirror(i) == N - i + 1
<1>1. /\ N \in Nat /\ DOMAIN sorted = 1..N /\ \A i \in 1..N : sorted[i] \in DOMAIN body
      /\ ToSet(sorted) = DOMAIN body /\ SortedAfter(sorted)
      /\ \A i, j \in 1..N : sorted[i] = sorted[j] => i = j
  BY DEF Sorted
<1>2. order = [i \in 1..N |-> sorted[mirror(i)]]
  BY DEF Reverse
<1> HIDE DEF N
<1>3. \A i \in 1..N : mirror(i) \in 1..N /\ mirror(mirror(i)) = i
  BY <1>1
<1>4. \A i \in 1..N : order[i] = sorted[mirror(i)] /\ order[i] \in DOMAIN body
  <2> HIDE DEF mirror
  <2> QED BY <1>1, <1>2, <1>3
<1>5. order \in Seq(DOMAIN body) /\ Len(order) = N /\ DOMAIN order = 1..N
  <2>1. order \in [1..N -> DOMAIN body]
    <3> HIDE DEF mirror
    <3> QED BY <1>1, <1>2, <1>3
  <2> QED BY <1>1, <2>1
<1>6. ToSet(order) = DOMAIN body
  <2>1. \A b \in DOMAIN body : \E i \in 1..N : sorted[i] = b
    BY <1>1 DEF ToSet
  <2>2. ASSUME NEW b \in DOMAIN body PROVE b \in ToSet(order)
    <3>1. PICK i \in 1..N : sorted[i] = b
      BY <2>1
    <3>2. mirror(i) \in 1..N /\ order[mirror(i)] = b
      BY <1>3, <1>4, <3>1
    <3> QED BY <1>5, <3>2 DEF ToSet
  <2>3. ToSet(order) \subseteq DOMAIN body
    BY <1>4, <1>5 DEF ToSet
  <2> QED BY <2>2, <2>3
<1>7. \A i, j \in 1..N : order[i] = order[j] => i = j
  <2> TAKE i, j \in 1..N
  <2> HAVE order[i] = order[j]
  <2>1. mirror(i) = mirror(j)
    <3>1. mirror(i) \in 1..N /\ mirror(j) \in 1..N /\ sorted[mirror(i)] = sorted[mirror(j)]
      BY <1>3, <1>4
    <3> HIDE DEF mirror
    <3> QED BY <1>1, <3>1
  <2>2. mirror(mirror(i)) = mirror(mirror(j))
    BY <2>1
  <2> HIDE DEF mirror
  <2> QED BY <1>3, <2>2
<1>8. ASSUME NEW i \in 1..N, NEW j \in 1..N, order[i] \in ToSet(successors(body, order[j])),
             <<order[j], order[i]>> \notin back_edges(body)
      PROVE  j < i
  <2> DEFINE k == mirror(j)
  <2>1. k \in 1..N /\ mirror(i) \in 1..N /\ order[j] = sorted[k] /\ order[i] = sorted[mirror(i)]
    BY <1>3, <1>4
  <2> HIDE DEF mirror, k
  <2>2. PICK m \in 1..(k - 1) : sorted[m] = order[i]
    <3>1. order[i] \in ToSet(successors(body, sorted[k])) /\ <<sorted[k], order[i]>> \notin back_edges(body)
      BY <1>8, <2>1
    <3>2. k \in 1..Len(sorted)
      BY <2>1 DEF N
    <3> QED BY <1>1, <3>1, <3>2 DEF SortedAfter
  <2>3. m \in 1..N
    BY <1>1, <2>1
  <2>4. m = mirror(i)
    BY <1>1, <2>1, <2>2, <2>3
  <2>5. mirror(i) < k /\ k \in 1..N
    BY <1>1, <2>1, <2>2, <2>4
  <2> QED BY <1>1, <2>5 DEF mirror, k
<1> QED
  BY <1>5, <1>6, <1>7, <1>8

LEMMA LoopOrdered ==
  ASSUME body \in Bodies, NEW sorted, Sorted(sorted), NEW set \in SUBSET DOMAIN body,
         NEW order, order = ordered_loop_body(sorted, set)
  PROVE  /\ order \in Seq(DOMAIN body) /\ ToSet(order) = set
         /\ \A i, j \in 1..Len(order) : order[i] = order[j] => i = j
         /\ \A i, j \in 1..Len(order) :
              order[i] \in ToSet(successors(body, order[j])) /\ <<order[j], order[i]>> \notin back_edges(body) => j < i
<1> DEFINE all == Reverse(sorted)
<1>1. /\ all \in Seq(DOMAIN body) /\ ToSet(all) = DOMAIN body
      /\ \A i, j \in 1..Len(all) : all[i] = all[j] => i = j
      /\ \A i, j \in 1..Len(all) :
           all[i] \in ToSet(successors(body, all[j])) /\ <<all[j], all[i]>> \notin back_edges(body) => j < i
  <2> HIDE DEF all
  <2> QED BY Reversed DEF all
<1>2. order = Kept(all, set)
  BY DEF ordered_loop_body
<1> HIDE DEF all
<1>3. order \in Seq(DOMAIN body) /\ ToSet(order) = ToSet(all) \cap set /\ Picks(order, all, Len(all))
  BY <1>1, <1>2, KeptElements
<1>4. PICK g \in [1..Len(order) -> 1..Len(all)] :
        /\ \A n \in 1..Len(order) : order[n] = all[g[n]]
        /\ \A m, n \in 1..Len(order) : m < n => g[m] < g[n]
  BY <1>3 DEF Picks
<1>5. Len(order) \in Nat /\ Len(all) \in Nat /\ \A n \in 1..Len(order) : g[n] \in 1..Len(all)
  BY <1>1, <1>3, <1>4
<1>6. \A m, n \in 1..Len(order) : g[m] = g[n] => m = n
  <2> TAKE m, n \in 1..Len(order)
  <2>1. m < n \/ n < m \/ m = n
    BY <1>5
  <2>2. g[m] \in Nat /\ g[n] \in Nat
    BY <1>5
  <2> QED BY <1>4, <2>1, <2>2
<1>7. \A m, n \in 1..Len(order) : g[m] < g[n] => m < n
  <2> TAKE m, n \in 1..Len(order)
  <2>1. m < n \/ n < m \/ m = n
    BY <1>5
  <2>2. g[m] \in Nat /\ g[n] \in Nat
    BY <1>5
  <2> QED BY <1>4, <2>1, <2>2
<1>8. \A i, j \in 1..Len(order) : order[i] = order[j] => i = j
  <2> TAKE i, j \in 1..Len(order)
  <2> HAVE order[i] = order[j]
  <2>1. order[i] = all[g[i]] /\ order[j] = all[g[j]]
    BY <1>4
  <2>2. g[i] \in 1..Len(all) /\ g[j] \in 1..Len(all)
    BY <1>5
  <2>3. g[i] = g[j]
    BY <1>1, <2>1, <2>2
  <2> QED BY <1>6, <2>3
<1>9. ASSUME NEW i \in 1..Len(order), NEW j \in 1..Len(order), order[i] \in ToSet(successors(body, order[j])),
             <<order[j], order[i]>> \notin back_edges(body)
      PROVE  j < i
  <2>1. g[j] < g[i]
    BY <1>1, <1>4, <1>5, <1>9
  <2> QED BY <1>7, <2>1
<1> QED
  BY <1>1, <1>3, <1>8, <1>9

---------------------------------------------------------------------------
(* What `new` computes, and when one of its assertions fails.                *)
HeadFirst(h) == info.ordered[h][1] = h
Bordered(h) ==
  \A i \in DOMAIN info.ordered[h] :
    info.ordered[h][i] # h => BordersOn(body, back_edges(body), info.ordered[h], i)

LEMMA InfoFields ==
  ASSUME body \in Bodies, info = loop_info(body)
  PROVE  \E sorted :
           /\ Sorted(sorted) /\ info.order = Reverse(sorted)
           /\ info.bodies = loop_bodies(body) /\ DOMAIN info.bodies = Heads
           /\ \A h \in Heads : info.ordered[h] = ordered_loop_body(sorted, BodyOf(h))
           /\ info.panics = {} <=> \A h \in Heads : /\ enclosing_loop_heads_set(info.bodies, h) # {}
                                                    /\ HeadFirst(h) /\ Bordered(h)
<1> DEFINE bodies == loop_bodies(body)
           back == back_edges(body)
           search == Search(body, bodies, back)
           ordered == [h \in DOMAIN bodies |-> ordered_loop_body(search.sorted, bodies[h])]
           failing == [head_outside |-> \E h \in DOMAIN bodies : enclosing_loop_heads_set(bodies, h) = {},
                       not_a_dag |-> ~search.dag,
                       head_not_first |-> \E h \in DOMAIN bodies : ordered[h][1] # h,
                       no_border |-> \E h \in DOMAIN bodies : \E i \in DOMAIN ordered[h] :
                                       ordered[h][i] # h /\ ~BordersOn(body, back, ordered[h], i)]
<1>1. info = [bodies |-> bodies, ordered |-> ordered, order |-> Reverse(search.sorted),
              panics |-> {p \in DOMAIN failing : failing[p]}]
  BY DEF loop_info, LoopInfo, NewLoops
<1>2. DOMAIN bodies = Heads
  BY BackEdges DEF loop_bodies
<1>3. Searching(search, bodies) /\ search.stack = <<>> /\ ToSet(search.sorted) = DOMAIN body
  <2> HIDE DEF search, bodies
  <2> QED BY SearchSorts DEF search
<1> HIDE DEF search, bodies, back
<1>4. search.dag = TRUE /\ Sorted(search.sorted)
  <2>1. search.dag = TRUE /\ SearchInv(search.stack, search.temporary, search.sorted, bodies, {})
    BY <1>3 DEF Searching
  <2>2. /\ search.sorted \in Seq(DOMAIN body) /\ SortedAfter(search.sorted)
        /\ \A i, j \in 1..Len(search.sorted) : search.sorted[i] = search.sorted[j] => i = j
    BY <2>1 DEF SearchInv, Typed, Placed
  <2> QED BY <1>3, <2>1, <2>2 DEF Sorted
<1>5. info.bodies = bodies /\ info.ordered = ordered /\ info.order = Reverse(search.sorted)
      /\ info.panics = {p \in DOMAIN failing : failing[p]}
  BY <1>1
<1>6. DOMAIN failing = {"head_outside", "not_a_dag", "head_not_first", "no_border"}
  OBVIOUS
<1>7. info.panics = {} <=> ~failing.head_outside /\ ~failing.not_a_dag /\ ~failing.head_not_first /\ ~failing.no_border
  <2> HIDE DEF failing, ordered
  <2> QED BY <1>5, <1>6
<1>8. \A h \in Heads : ordered[h] = ordered_loop_body(search.sorted, BodyOf(h))
  BY <1>2 DEF BodyOf, bodies
<1> HIDE DEF ordered
<1>9. /\ failing.head_outside <=> \E h \in Heads : enclosing_loop_heads_set(bodies, h) = {}
      /\ ~failing.not_a_dag
      /\ failing.head_not_first <=> \E h \in Heads : ordered[h][1] # h
      /\ failing.no_border <=> \E h \in Heads : \E i \in DOMAIN ordered[h] :
                                 ordered[h][i] # h /\ ~BordersOn(body, back, ordered[h], i)
  BY <1>2, <1>4
<1> HIDE DEF failing
<1>10. info.panics = {} <=> \A h \in Heads : /\ enclosing_loop_heads_set(info.bodies, h) # {}
                                             /\ HeadFirst(h) /\ Bordered(h)
  BY <1>5, <1>7, <1>9 DEF HeadFirst, Bordered, back
<1>11. \A h \in Heads : info.ordered[h] = ordered_loop_body(search.sorted, BodyOf(h))
  BY <1>5, <1>8
<1> QED
  BY <1>2, <1>4, <1>5, <1>10, <1>11 DEF bodies

LEMMA ExactLoop ==
  ASSUME body \in Bodies, NEW h \in Heads, NEW sorted, Sorted(sorted),
         info.ordered[h] = ordered_loop_body(sorted, BodyOf(h))
  PROVE  /\ info.ordered[h] \in Seq(DOMAIN body) /\ ToSet(info.ordered[h]) = BodyOf(h)
         /\ HeadFirst(h) /\ Bordered(h) <=> ~JumpsToItself(h) /\ EnteredReally(h)
         /\ HeadFirst(h) /\ Bordered(h) => BodyOf(h) = NaturalLoop(h) /\ h \in BodyOf(h)
<1> DEFINE order == info.ordered[h]
<1>1. h \in DOMAIN body /\ BodyOf(h) \in SUBSET DOMAIN body
  BY BodyAgainstLoop DEF Heads
<1>2. order = ordered_loop_body(sorted, BodyOf(h))
  OBVIOUS
<1>3. /\ HeadFirst(h) <=> order[1] = h
      /\ Bordered(h) <=> \A i \in DOMAIN order : order[i] # h => BordersOn(body, back_edges(body), order, i)
  BY DEF HeadFirst, Bordered
<1> HIDE DEF order
<1>4. /\ order \in Seq(DOMAIN body) /\ ToSet(order) = BodyOf(h)
      /\ \A i, j \in 1..Len(order) : order[i] = order[j] => i = j
      /\ \A i, j \in 1..Len(order) :
           order[i] \in ToSet(successors(body, order[j])) /\ <<order[j], order[i]>> \notin back_edges(body) => j < i
  BY <1>1, <1>2, LoopOrdered
<1>5. DOMAIN order = 1..Len(order) /\ Len(order) \in Nat /\ ToSet(order) = {order[i] : i \in 1..Len(order)}
  BY <1>4 DEF ToSet
<1>6. ASSUME HeadFirst(h), Bordered(h)
      PROVE  /\ BodyOf(h) = NaturalLoop(h) /\ EnteredReally(h) /\ ~JumpsToItself(h)
             /\ h \in BodyOf(h)
  <2>1. BodyOf(h) = NaturalLoop(h) /\ EnteredReally(h) /\ ~JumpsToItself(h)
    BY <1>3, <1>4, <1>6, OrderMakesExact
  <2> QED BY <1>1, <2>1, LoopLeast
<1>7. ASSUME ~JumpsToItself(h), EnteredReally(h) PROVE HeadFirst(h) /\ Bordered(h)
  <2>1. h \in BodyOf(h) /\ BodyOf(h) = NaturalLoop(h)
    BY <1>7, BodyHoldsHead, BodyAgainstLoop
  <2>2. ASSUME NEW i \in 1..Len(order), order[i] # h
        PROVE  \E j \in 1..(i - 1) : /\ order[i] \in ToSet(successors(body, order[j]))
                                     /\ <<order[j], order[i]>> \notin back_edges(body)
    <3>1. order[i] \in NaturalLoop(h)
      <4>1. order[i] \in ToSet(order)
        BY <1>5
      <4> QED BY <1>4, <2>1, <4>1
    <3>2. PICK p \in NaturalLoop(h) : order[i] \in ToSet(successors(body, p)) /\ <<p, order[i]>> \notin back_edges(body)
      BY <1>7, <2>2, <3>1, EnteredAhead
    <3>3. PICK j \in 1..Len(order) : order[j] = p
      <4>1. p \in ToSet(order)
        BY <1>4, <2>1, <3>2
      <4> QED BY <1>5, <4>1
    <3>4. j < i
      BY <1>4, <3>2, <3>3
    <3>5. j \in 1..(i - 1)
      BY <1>5, <3>4
    <3> QED BY <3>2, <3>3, <3>5
  <2>3. Bordered(h)
    BY <1>3, <1>5, <2>2 DEF BordersOn
  <2>4. PICK n \in 1..Len(order) : order[n] = h
    BY <1>4, <1>5, <2>1
  <2>5. 1 \in 1..Len(order) /\ 1..(1 - 1) = {}
    BY <1>5, <2>4
  <2>6. order[1] = h
    BY <2>2, <2>5
  <2> QED BY <1>3, <2>3, <2>6
<1> QED
  BY <1>4, <1>6, <1>7 DEF order

(* The loops are computed exactly, or an assertion fails.                    *)
LEMMA LoopsRight ==
  ASSUME body \in Bodies, info = loop_info(body)
  PROVE  /\ info.panics = {} <=> \A h \in Heads : ~JumpsToItself(h) /\ EnteredReally(h)
         /\ info.panics = {} =>
              /\ info.bodies = [h \in Heads |-> NaturalLoop(h)] /\ Nested /\ Ordered
              /\ \A h \in Heads : info.ordered[h] \in Seq(DOMAIN body) /\ ToSet(info.ordered[h]) = NaturalLoop(h)
<1>1. PICK sorted :
        /\ Sorted(sorted) /\ info.order = Reverse(sorted)
        /\ info.bodies = loop_bodies(body) /\ DOMAIN info.bodies = Heads
        /\ \A h \in Heads : info.ordered[h] = ordered_loop_body(sorted, BodyOf(h))
        /\ info.panics = {} <=> \A h \in Heads : /\ enclosing_loop_heads_set(info.bodies, h) # {}
                                                 /\ HeadFirst(h) /\ Bordered(h)
  BY InfoFields
<1>2. ASSUME NEW h \in Heads
      PROVE  /\ info.ordered[h] \in Seq(DOMAIN body) /\ ToSet(info.ordered[h]) = BodyOf(h)
             /\ HeadFirst(h) /\ Bordered(h) <=> ~JumpsToItself(h) /\ EnteredReally(h)
             /\ HeadFirst(h) /\ Bordered(h) => BodyOf(h) = NaturalLoop(h) /\ h \in BodyOf(h)
  <2>1. info.ordered[h] = ordered_loop_body(sorted, BodyOf(h))
    BY <1>1
  <2> QED BY <1>1, <2>1, ExactLoop
<1>3. \A h \in Heads : h \in BodyOf(h) => enclosing_loop_heads_set(info.bodies, h) # {}
  BY <1>1 DEF enclosing_loop_heads_set, BodyOf
<1>4. info.panics = {} <=> \A h \in Heads : ~JumpsToItself(h) /\ EnteredReally(h)
  BY <1>1, <1>2, <1>3
<1>5. ASSUME info.panics = {}
      PROVE  /\ info.bodies = [h \in Heads |-> NaturalLoop(h)]
             /\ \A h \in Heads : info.ordered[h] \in Seq(DOMAIN body) /\ ToSet(info.ordered[h]) = NaturalLoop(h)
  <2>1. \A h \in Heads : BodyOf(h) = NaturalLoop(h)
    BY <1>2, <1>4, <1>5
  <2>2. info.bodies = [h \in Heads |-> BodyOf(h)]
    BY <1>1 DEF BodyOf, loop_bodies
  <2>3. \A h \in Heads : info.bodies[h] = NaturalLoop(h)
    BY <1>1, <2>1 DEF BodyOf
  <2>4. info.bodies = [h \in Heads |-> NaturalLoop(h)]
    BY <2>2, <2>3
  <2> QED BY <1>2, <2>1, <2>4
<1>6. ASSUME info.panics = {} PROVE Nested
  <2> SUFFICES ASSUME NEW h \in Heads, NEW k \in Heads
               PROVE  info.bodies[h] \cap info.bodies[k] \in {{}, info.bodies[h], info.bodies[k]}
    BY DEF Nested
  <2>1. info.bodies[h] = NaturalLoop(h) /\ info.bodies[k] = NaturalLoop(k)
    BY <1>5, <1>6
  <2>2. h \in DOMAIN body /\ k \in DOMAIN body /\ EnteredReally(h) /\ EnteredReally(k)
    BY <1>4, <1>6 DEF Heads
  <2>3. CASE h = k
    BY <2>3
  <2>4. CASE NaturalLoop(h) \cap NaturalLoop(k) = {}
    BY <2>1, <2>4
  <2>5. CASE h # k /\ NaturalLoop(h) \cap NaturalLoop(k) # {}
    <3>1. PICK b \in NaturalLoop(h) : b \in NaturalLoop(k)
      BY <2>5
    <3>2. k \in NaturalLoop(h) \/ h \in NaturalLoop(k)
      BY <2>2, <2>5, <3>1, LoopsNested
    <3>3. NaturalLoop(k) \subseteq NaturalLoop(h) \/ NaturalLoop(h) \subseteq NaturalLoop(k)
      BY <2>2, <2>5, <3>2, LoopInside
    <3> QED BY <2>1, <3>3
  <2> QED BY <2>3, <2>4, <2>5
<1>7. Ordered
  <2> SUFFICES ASSUME NEW b \in DOMAIN body, NEW s \in ToSet(successors(body, b)), b \notin BackSources(s)
               PROVE  Before(b, s)
    BY DEF Ordered
  <2>1. /\ info.order \in Seq(DOMAIN body) /\ ToSet(info.order) = DOMAIN body
        /\ \A i, j \in 1..Len(info.order) :
             info.order[i] \in ToSet(successors(body, info.order[j])) /\ <<info.order[j], info.order[i]>> \notin back_edges(body)
               => j < i
    <3> DEFINE order == info.order
    <3> HIDE DEF order
    <3>1. order = Reverse(sorted) /\ Sorted(sorted)
      BY <1>1 DEF order
    <3>2. /\ order \in Seq(DOMAIN body) /\ ToSet(order) = DOMAIN body
          /\ \A i, j \in 1..Len(order) :
               order[i] \in ToSet(successors(body, order[j])) /\ <<order[j], order[i]>> \notin back_edges(body) => j < i
      BY <3>1, Reversed
    <3> QED BY <3>2 DEF order
  <2>2. DOMAIN info.order = 1..Len(info.order)
    BY <2>1
  <2>3. s \in DOMAIN body /\ <<b, s>> \notin back_edges(body)
    BY ForwardEdge, BackEdges
  <2>4. PICK j \in 1..Len(info.order) : info.order[j] = b
    BY <2>1, <2>2 DEF ToSet
  <2>5. PICK i \in 1..Len(info.order) : info.order[i] = s
    BY <2>1, <2>2, <2>3 DEF ToSet
  <2>6. j < i
    BY <2>1, <2>3, <2>4, <2>5
  <2> QED BY <2>2, <2>4, <2>5, <2>6 DEF Before
<1> QED
  BY <1>4, <1>5, <1>6, <1>7

---------------------------------------------------------------------------
(* What a block's jumps push onto the stack.                                 *)
LEMMA JumpsTyped ==
  ASSUME NEW term, NEW blocks, IsTerm(term, blocks)
  PROVE  jumps_of(term) \in Seq(blocks)
<1>1. term.targets \in Seq(blocks)
  BY DEF IsTerm
<1>2. ASSUME term.kind = "if" PROVE <<term.targets[2], term.targets[1]>> \in Seq(blocks)
  <2>1. Len(term.targets) = 2
    BY <1>2 DEF IsTerm
  <2>2. term.targets[1] \in blocks /\ term.targets[2] \in blocks
    BY <1>1, <2>1
  <2> QED BY <2>2
<1>3. ASSUME term.kind \in StepKinds PROVE <<term.targets[1]>> \in Seq(blocks)
  <2>1. term.targets # <<>>
    BY <1>3 DEF IsTerm
  <2>2. term.targets[1] \in blocks
    BY <1>1, <2>1
  <2> QED BY <2>2
<1>4. <<>> \in Seq(blocks)
  OBVIOUS
<1>5. real_targets(term) \in Seq(blocks)
  BY <1>1, <1>3, <1>4 DEF real_targets
<1> QED
  BY <1>2, <1>4, <1>5 DEF jumps_of

LEMMA PushedFresh ==
  ASSUME NEW block, NEW S, Jumps(block) \in Seq(S)
  PROVE  Pushed(block) \in Seq(S) /\ ToSet(Pushed(block)) = Fresh(block)
<1> DEFINE J == Jumps(block)
           first(i) == J[i] \in Fresh(block) /\ \A j \in 1..(i - 1) : J[j] # J[i]
           picked(i) == IF first(i) THEN <<J[i]>> ELSE <<>>
           seqs == [i \in DOMAIN block.jumps |-> picked(i)]
<1>1. DOMAIN block.jumps = 1..Len(J) /\ Len(J) \in Nat /\ \A i \in 1..Len(J) : J[i] \in S
  <2>1. DOMAIN J = DOMAIN block.jumps
    BY DEF Jumps
  <2>2. DOMAIN J = 1..Len(J)
    OBVIOUS
  <2> HIDE DEF J
  <2> QED BY <2>1, <2>2 DEF J
<1>2. Pushed(block) = FlattenSeq(seqs)
  BY DEF Pushed
<1> HIDE DEF J
<1>3. \A i \in 1..Len(J) : picked(i) \in Seq(S) /\ (first(i) => ToSet(picked(i)) = {J[i]})
                                               /\ (~first(i) => ToSet(picked(i)) = {})
  <2> TAKE i \in 1..Len(J)
  <2>1. CASE first(i)
    <3>1. picked(i) = <<J[i]>>
      BY <2>1
    <3>2. <<J[i]>> \in Seq(S) /\ ToSet(<<J[i]>>) = {J[i]}
      <4>1. J[i] \in S
        BY <1>1
      <4> QED BY <4>1 DEF ToSet
    <3> HIDE DEF picked, first
    <3> QED BY <2>1, <3>1, <3>2
  <2>2. CASE ~first(i)
    <3>1. picked(i) = <<>>
      BY <2>2
    <3>2. <<>> \in Seq(S) /\ ToSet(<<>>) = {}
      BY DEF ToSet
    <3> HIDE DEF picked, first
    <3> QED BY <2>2, <3>1, <3>2
  <2> QED BY <2>1, <2>2
<1>4. seqs \in Seq(Seq(S)) /\ Len(seqs) = Len(J) /\ \A i \in 1..Len(J) : seqs[i] = picked(i)
  <2> HIDE DEF picked
  <2>1. seqs \in [1..Len(J) -> Seq(S)]
    BY <1>1, <1>3
  <2>2. \A i \in 1..Len(J) : seqs[i] = picked(i)
    BY <1>1
  <2> HIDE DEF seqs
  <2> QED BY <1>1, <2>1, <2>2
<1> HIDE DEF seqs
<1>5. /\ FlattenSeq(seqs) \in Seq(S)
      /\ ToSet(FlattenSeq(seqs)) = UNION {ToSet(seqs[i]) : i \in 1..Len(seqs)}
  BY <1>4, FlattenElements
<1>6. ASSUME NEW t \in Fresh(block) PROVE \E i \in 1..Len(J) : first(i) /\ J[i] = t
  <2> DEFINE places == {i \in 1..Len(J) : J[i] = t}
  <2>1. places # {} /\ places \subseteq Nat
    <3>1. t \in ToSet(J) /\ DOMAIN J = 1..Len(J)
      BY DEF Fresh, J
    <3> QED BY <1>1, <3>1 DEF ToSet
  <2>2. PICK i \in places : \A k \in places : i <= k
    <3> HIDE DEF places
    <3> QED BY <2>1, LeastNumber
  <2>3. ASSUME NEW j \in 1..(i - 1) PROVE J[j] # t
    <3>1. j \in 1..Len(J) /\ ~(i <= j)
      BY <1>1, <2>2
    <3> QED BY <2>2, <3>1
  <2>4. i \in 1..Len(J) /\ J[i] = t
    BY <2>2
  <2> HIDE DEF places
  <2> QED BY <2>3, <2>4
<1>7. \A i \in 1..Len(J) : first(i) => J[i] \in Fresh(block)
  OBVIOUS
<1> HIDE DEF first, picked
<1>8. UNION {ToSet(seqs[i]) : i \in 1..Len(seqs)} = Fresh(block)
  <2>1. ASSUME NEW i \in 1..Len(seqs), NEW t \in ToSet(seqs[i]) PROVE t \in Fresh(block)
    BY <1>3, <1>4, <1>7
  <2>2. ASSUME NEW t \in Fresh(block) PROVE \E i \in 1..Len(seqs) : t \in ToSet(seqs[i])
    <3>1. PICK i \in 1..Len(J) : first(i) /\ J[i] = t
      BY <1>6
    <3>2. ToSet(seqs[i]) = {t} /\ i \in 1..Len(seqs)
      BY <1>3, <1>4, <3>1
    <3> QED BY <3>2
  <2> QED BY <2>1, <2>2
<1> QED
  BY <1>2, <1>5, <1>8

LEMMA QueueSplit ==
  ASSUME NEW S, NEW q \in Seq(S), q # <<>>
  PROVE  Last(q) \in S /\ Front(q) \in Seq(S) /\ ToSet(q) = ToSet(Front(q)) \cup {Last(q)}
<1>1. Len(q) \in Nat /\ Len(q) \in 1..Len(q) /\ DOMAIN q = 1..Len(q)
  OBVIOUS
<1>2. /\ Front(q) \in Seq(S) /\ DOMAIN Front(q) = 1..(Len(q) - 1)
      /\ \A i \in 1..(Len(q) - 1) : Front(q)[i] = q[i]
  BY <1>1 DEF Front
<1>3. 1..Len(q) = (1..(Len(q) - 1)) \cup {Len(q)}
  BY <1>1
<1>4. ToSet(q) = {q[i] : i \in 1..(Len(q) - 1)} \cup {q[Len(q)]}
  BY <1>1, <1>3 DEF ToSet
<1>5. ToSet(Front(q)) = {q[i] : i \in 1..(Len(q) - 1)}
  BY <1>2 DEF ToSet
<1> QED
  BY <1>1, <1>2, <1>4, <1>5 DEF Last

---------------------------------------------------------------------------
(* The invariant of the translation of blocks: every block that was pushed   *)
(* is in the code or still on the stack, the jumps of the translated ones    *)
(* lead only to such blocks, and only reachable blocks were pushed.          *)
CodeInv ==
  /\ body \in Bodies
  /\ status \in {"new", "start"} => code = <<>> /\ bb_queue = <<>> /\ processed_bbs = {}
  /\ status \in {"blocks", "done"} =>
       /\ bb_queue \in Seq(DOMAIN body)
       /\ DOMAIN code \cup ToSet(bb_queue) = {START_BLOCK} \cup processed_bbs
       /\ processed_bbs \subseteq ReachedReally
       /\ \A b \in DOMAIN code : /\ Jumps(code[b]) = jumps_of(body[b].term)
                                 /\ ToSet(Jumps(code[b])) \subseteq processed_bbs
  /\ status = "done" => bb_queue = <<>>

LEMMA ReachedLeast ==
  ASSUME body \in Bodies
  PROVE  /\ START_BLOCK \in ReachedReally /\ ReachedReally \in SUBSET DOMAIN body
         /\ \A b \in ReachedReally : ToSet(jumps_of(body[b].term)) \subseteq ReachedReally
         /\ \A C \in SUBSET DOMAIN body :
              START_BLOCK \in C /\ (\A b \in C : ToSet(jumps_of(body[b].term)) \subseteq C)
                => ReachedReally \subseteq C
<1> DEFINE graph == [b \in DOMAIN body |-> ToSet(jumps_of(body[b].term))]
<1>1. IsMirBody(body)
  BY BodiesAssumption
<1>2. IsFiniteSet(DOMAIN body) /\ START_BLOCK \in DOMAIN body
  BY <1>1 DEF IsMirBody
<1>3. \A b \in DOMAIN body : graph[b] = ToSet(jumps_of(body[b].term)) /\ graph[b] \subseteq DOMAIN body
  <2> TAKE b \in DOMAIN body
  <2>1. jumps_of(body[b].term) \in Seq(DOMAIN body)
    BY <1>1, JumpsTyped DEF IsMirBody
  <2>2. ToSet(jumps_of(body[b].term)) \subseteq DOMAIN body
    BY <2>1 DEF ToSet
  <2> QED BY <2>2
<1>4. ReachedReally = Reach(graph, {START_BLOCK}, DOMAIN body)
  BY DEF ReachedReally
<1> HIDE DEF graph
<1>5. IsReach(graph, {START_BLOCK}, DOMAIN body, ReachedReally)
  BY <1>2, <1>4, ReachLeast
<1>6. ReachedReally \in SUBSET DOMAIN body /\ START_BLOCK \in ReachedReally
  BY <1>2, <1>5 DEF IsReach
<1>7. \A b \in ReachedReally : ToSet(jumps_of(body[b].term)) \subseteq ReachedReally
  BY <1>3, <1>5, <1>6 DEF IsReach
<1>8. ASSUME NEW C \in SUBSET DOMAIN body, START_BLOCK \in C,
             \A b \in C : ToSet(jumps_of(body[b].term)) \subseteq C
      PROVE  ReachedReally \subseteq C
  <2>1. \A b \in C : graph[b] \cap DOMAIN body \subseteq C
    BY <1>3, <1>8
  <2>2. {START_BLOCK} \cap DOMAIN body \subseteq C
    BY <1>8
  <2> QED BY <1>5, <2>1, <2>2 DEF IsReach
<1> QED
  BY <1>6, <1>7, <1>8

LEMMA AddBlockKeeps ==
  ASSUME body \in Bodies, NEW b \in DOMAIN body, NEW block, NEW rest \in Seq(DOMAIN body),
         Jumps(block) = jumps_of(body[b].term),
         DOMAIN code \cup ToSet(rest) \cup {b} = {START_BLOCK} \cup processed_bbs,
         processed_bbs \subseteq ReachedReally,
         \A c \in DOMAIN code : /\ Jumps(code[c]) = jumps_of(body[c].term)
                               /\ ToSet(Jumps(code[c])) \subseteq processed_bbs,
         AddBlock(b, block, rest)
  PROVE  CodeInv'
<1>1. /\ body' = body /\ status' = "blocks"
      /\ code' = [c \in DOMAIN code \cup {b} |-> IF c = b THEN block ELSE code[c]]
      /\ bb_queue' = rest \o Pushed(block)
      /\ processed_bbs' = processed_bbs \cup Fresh(block)
  BY DEF AddBlock
<1>2. Jumps(block) \in Seq(DOMAIN body)
  BY BodiesAssumption, JumpsTyped DEF IsMirBody
<1>3. Pushed(block) \in Seq(DOMAIN body) /\ ToSet(Pushed(block)) = Fresh(block)
  BY <1>2, PushedFresh
<1>4. bb_queue' \in Seq(DOMAIN body) /\ ToSet(bb_queue') = ToSet(rest) \cup Fresh(block)
  BY <1>1, <1>3, JoinedElements
<1>5. DOMAIN code' = DOMAIN code \cup {b} /\ code'[b] = block
      /\ \A c \in DOMAIN code \ {b} : code'[c] = code[c]
  BY <1>1
<1>6. DOMAIN code' \cup ToSet(bb_queue') = {START_BLOCK} \cup processed_bbs'
  BY <1>1, <1>4, <1>5
<1>7. ToSet(Jumps(block)) \subseteq processed_bbs'
  BY <1>1 DEF Fresh
<1>8. ReachedReally' = ReachedReally
  BY <1>1 DEF ReachedReally
<1>9. processed_bbs' \subseteq ReachedReally'
  <2>1. b \in ReachedReally
    BY ReachedLeast
  <2>2. ToSet(Jumps(block)) \subseteq ReachedReally
    BY <2>1, ReachedLeast
  <2> QED BY <1>1, <1>8, <2>2 DEF Fresh
<1>10. ASSUME NEW c \in DOMAIN code'
       PROVE  /\ Jumps(code'[c]) = jumps_of(body'[c].term)
              /\ ToSet(Jumps(code'[c])) \subseteq processed_bbs'
  <2>1. CASE c = b
    BY <1>1, <1>5, <1>7, <2>1
  <2>2. CASE c # b
    <3>1. c \in DOMAIN code /\ code'[c] = code[c]
      BY <1>5, <2>2
    <3> QED BY <1>1, <3>1
  <2> QED BY <2>1, <2>2
<1> QED
  BY <1>1, <1>4, <1>6, <1>9, <1>10 DEF CodeInv, Jumps

LEMMA TranslatedJumps ==
  ASSUME body \in Bodies, NEW b \in DOMAIN body
  PROVE  Jumps(translate_basic_block(b)) = jumps_of(body[b].term)
<1> DEFINE js == jumps_of(body[b].term)
           jumps == [i \in DOMAIN js |-> [target |-> js[i], stratify |-> is_loop_head(info, js[i])]]
<1>1. js \in Seq(DOMAIN body)
  BY BodiesAssumption, JumpsTyped DEF IsMirBody
<1>2. translate_basic_block(b).jumps = jumps
  BY DEF translate_basic_block, translate_terminator
<1> HIDE DEF js
<1>3. DOMAIN jumps = DOMAIN js /\ \A i \in DOMAIN js : jumps[i].target = js[i]
  OBVIOUS
<1> HIDE DEF jumps
<1>4. Jumps(translate_basic_block(b)) = [i \in DOMAIN js |-> js[i]]
  BY <1>2, <1>3 DEF Jumps
<1>5. js = [i \in DOMAIN js |-> js[i]]
  BY <1>1
<1> QED
  BY <1>4, <1>5 DEF js

THEOREM CodeInvariant == Spec => []CodeInv
<1>1. Init => CodeInv
  BY DEF Init, CodeInv
<1>2. CodeInv /\ [Next]_vars => CodeInv'
  <2> SUFFICES ASSUME CodeInv, [Next]_vars PROVE CodeInv'
    OBVIOUS
  <2>1. CASE Prepare
    BY <2>1 DEF Prepare, CodeInv
  <2>2. CASE TranslateStart
    <3> DEFINE block == translate_basic_block(START_BLOCK)
               live == [i \in DOMAIN SetToSeq(AlwaysLive) |-> Live(SetToSeq(AlwaysLive)[i])]
               longer == [block EXCEPT !.prims = live \o @]
    <3>1. CASE BlockErrs(START_BLOCK)
      BY <2>2, <3>1 DEF TranslateStart, Fail, CodeInv
    <3>2. CASE ~BlockErrs(START_BLOCK)
      <4>1. /\ body \in Bodies /\ START_BLOCK \in DOMAIN body
            /\ code = <<>> /\ bb_queue = <<>> /\ processed_bbs = {}
        BY <2>2, BodiesAssumption DEF TranslateStart, CodeInv, IsMirBody
      <4>2. AddBlock(START_BLOCK, longer, bb_queue)
        BY <2>2, <3>2 DEF TranslateStart
      <4>3. Jumps(block) = jumps_of(body[START_BLOCK].term)
        BY <4>1, TranslatedJumps
      <4>4. longer.jumps = block.jumps
        <5>1. DOMAIN block = {"prims", "stuck", "jumps"}
          BY DEF translate_basic_block
        <5> HIDE DEF block, live
        <5> QED BY <5>1
      <4>5. Jumps(longer) = jumps_of(body[START_BLOCK].term)
        BY <4>3, <4>4 DEF Jumps
      <4>6. bb_queue \in Seq(DOMAIN body) /\ ToSet(bb_queue) = {} /\ DOMAIN code = {}
        BY <4>1 DEF ToSet
      <4> HIDE DEF longer
      <4> QED BY <4>1, <4>2, <4>5, <4>6, AddBlockKeeps
    <3> QED BY <3>1, <3>2
  <2>3. CASE TranslateNext
    <3> DEFINE b == Last(bb_queue)
    <3>1. CASE BlockErrs(b)
      BY <2>3, <3>1 DEF TranslateNext, Fail, CodeInv
    <3>2. CASE ~BlockErrs(b)
      <4>1. /\ body \in Bodies /\ bb_queue \in Seq(DOMAIN body) /\ bb_queue # <<>>
            /\ DOMAIN code \cup ToSet(bb_queue) = {START_BLOCK} \cup processed_bbs
            /\ processed_bbs \subseteq ReachedReally
            /\ \A c \in DOMAIN code : /\ Jumps(code[c]) = jumps_of(body[c].term)
                                      /\ ToSet(Jumps(code[c])) \subseteq processed_bbs
        BY <2>3 DEF TranslateNext, CodeInv
      <4>2. b \in DOMAIN body /\ Front(bb_queue) \in Seq(DOMAIN body)
            /\ ToSet(bb_queue) = ToSet(Front(bb_queue)) \cup {b}
        BY <4>1, QueueSplit
      <4>3. AddBlock(b, translate_basic_block(b), Front(bb_queue))
        BY <2>3, <3>2 DEF TranslateNext
      <4> HIDE DEF b
      <4>4. DOMAIN code \cup ToSet(Front(bb_queue)) \cup {b} = {START_BLOCK} \cup processed_bbs
        BY <4>1, <4>2
      <4>5. Jumps(translate_basic_block(b)) = jumps_of(body[b].term)
        BY <4>1, <4>2, TranslatedJumps
      <4> QED BY <4>1, <4>2, <4>3, <4>4, <4>5, AddBlockKeeps
    <3> QED BY <3>1, <3>2
  <2>4. CASE Finish
    BY <2>4 DEF Finish, CodeInv, ReachedReally
  <2>5. CASE UNCHANGED vars
    BY <2>5 DEF vars, CodeInv, ReachedReally
  <2> QED BY <2>1, <2>2, <2>3, <2>4, <2>5 DEF Next, Translate
<1> QED
  BY <1>1, <1>2, PTL DEF Spec

(* When the translation of a body is done, the blocks in the code are those  *)
(* that real edges reach from the start, and no jump leads elsewhere.        *)
THEOREM CodeIsComplete == Spec => []CodeComplete
<1>1. CodeInv => CodeComplete
  <2> SUFFICES ASSUME CodeInv, status = "done" PROVE /\ DOMAIN code = ReachedReally
                              /\ \A b \in DOMAIN code : ToSet(Jumps(code[b])) \subseteq DOMAIN code
    BY DEF CodeComplete
  <2>1. /\ body \in Bodies /\ ToSet(bb_queue) = {}
        /\ DOMAIN code \cup ToSet(bb_queue) = {START_BLOCK} \cup processed_bbs
        /\ processed_bbs \subseteq ReachedReally
        /\ \A b \in DOMAIN code : /\ Jumps(code[b]) = jumps_of(body[b].term)
                                  /\ ToSet(Jumps(code[b])) \subseteq processed_bbs
    BY DEF CodeInv, ToSet
  <2>2. DOMAIN code \subseteq ReachedReally /\ DOMAIN code \in SUBSET DOMAIN body
    BY <2>1, ReachedLeast
  <2>3. ReachedReally \subseteq DOMAIN code
    <3>1. START_BLOCK \in DOMAIN code
      BY <2>1
    <3>2. \A b \in DOMAIN code : ToSet(jumps_of(body[b].term)) \subseteq DOMAIN code
      BY <2>1
    <3> QED BY <2>1, <2>2, <3>1, <3>2, ReachedLeast
  <2> QED BY <2>1, <2>2, <2>3
<1> QED
  BY <1>1, CodeInvariant, PTL

---------------------------------------------------------------------------
(* The closure that is found for a loop is assigned in a block it owns.      *)
LEMMA ClosureFound ==
  ASSUME body \in Bodies, info = loop_info(body), info.panics = {}, NEW h \in Heads,
         NEW found, found = find_loop_spec_closure(h)
  PROVE  IF SpecsOf(OwnBlocks(h)) = {} THEN found = NoSpec ELSE found \in SpecsOf(OwnBlocks(h))
<1> DEFINE L == info.ordered[h]
           own(b) == get_loop_head(info.bodies, b) = h
           S == UNION {ToSet(body[b].stmts) : b \in DOMAIN body}
           seqs == [i \in DOMAIN L |-> IF own(L[i]) THEN SpecsIn(L[i]) ELSE <<>>]
           specs == FlattenSeq(seqs)
<1>1. found = IF specs = <<>> THEN NoSpec ELSE specs[1].did
  BY DEF find_loop_spec_closure, get_loop_body
<1>2. /\ \A k \in Heads : EnteredReally(k)
      /\ info.bodies = [k \in Heads |-> NaturalLoop(k)]
      /\ L \in Seq(DOMAIN body) /\ ToSet(L) = NaturalLoop(h)
  BY LoopsRight
<1> HIDE DEF L
<1>3. \A b \in DOMAIN body : own(b) <=> b \in OwnBlocks(h)
  BY <1>2, DeepestOwns
<1>4. DOMAIN L = 1..Len(L) /\ Len(L) \in Nat /\ \A i \in 1..Len(L) : L[i] \in DOMAIN body
  BY <1>2
<1>5. \A b \in DOMAIN body : SpecsIn(b) \in Seq(S)
  <2> TAKE b \in DOMAIN body
  <2> DEFINE stmts == body[b].stmts
             is_spec == {stmt \in ToSet(stmts) : stmt.op = "spec"}
  <2>1. stmts \in Seq(ToSet(stmts)) /\ SpecsIn(b) = Kept(stmts, is_spec)
    BY BodyTyped DEF SpecsIn
  <2>2. ToSet(stmts) \subseteq S
    OBVIOUS
  <2> HIDE DEF stmts, is_spec, S
  <2>3. SpecsIn(b) \in Seq(ToSet(stmts))
    BY <2>1, KeptElements
  <2> QED BY <2>2, <2>3
<1> HIDE DEF own, S
<1>6. \A i \in 1..Len(L) : /\ own(L[i]) => seqs[i] = SpecsIn(L[i])
                           /\ ~own(L[i]) => seqs[i] = <<>>
  BY <1>4
<1>7. seqs \in Seq(Seq(S)) /\ Len(seqs) = Len(L)
  <2>1. DOMAIN seqs = 1..Len(L) /\ \A i \in 1..Len(L) : seqs[i] \in Seq(S)
    <3>1. DOMAIN seqs = 1..Len(L)
      BY <1>4
    <3>2. <<>> \in Seq(S)
      OBVIOUS
    <3> HIDE DEF seqs
    <3> QED BY <1>4, <1>5, <1>6, <3>1, <3>2
  <2>2. seqs = [i \in 1..Len(L) |-> seqs[i]]
    BY <1>4
  <2> HIDE DEF seqs
  <2> QED BY <1>4, <2>1, <2>2
<1> HIDE DEF seqs
<1>8. specs \in Seq(S) /\ ToSet(specs) = UNION {ToSet(seqs[i]) : i \in 1..Len(seqs)}
  BY <1>7, FlattenElements
<1> HIDE DEF specs
<1>9. \A b \in DOMAIN body : ToSet(SpecsIn(b)) = {SpecsIn(b)[i] : i \in DOMAIN SpecsIn(b)}
  BY DEF ToSet
<1>10. ASSUME NEW e \in ToSet(specs) PROVE e.did \in SpecsOf(OwnBlocks(h))
  <2>1. PICK i \in 1..Len(L) : e \in ToSet(seqs[i])
    BY <1>7, <1>8
  <2>2. own(L[i])
    <3> SUFFICES ASSUME ~own(L[i]) PROVE FALSE
      OBVIOUS
    <3>1. e \in ToSet(<<>>)
      BY <1>6, <2>1
    <3> QED BY <3>1 DEF ToSet
  <2>3. L[i] \in OwnBlocks(h) /\ e \in ToSet(SpecsIn(L[i])) /\ L[i] \in DOMAIN body
    BY <1>3, <1>4, <1>6, <2>1, <2>2
  <2>4. PICK k \in DOMAIN SpecsIn(L[i]) : e = SpecsIn(L[i])[k]
    BY <1>9, <2>3
  <2> QED BY <2>3, <2>4 DEF SpecsOf
<1>11. ASSUME NEW d \in SpecsOf(OwnBlocks(h)) PROVE specs # <<>>
  <2>1. PICK b \in OwnBlocks(h) : d \in {SpecsIn(b)[i].did : i \in DOMAIN SpecsIn(b)}
    BY DEF SpecsOf
  <2>2. PICK k \in DOMAIN SpecsIn(b) : d = SpecsIn(b)[k].did
    BY <2>1
  <2>3. b \in ToSet(L) /\ b \in DOMAIN body
    BY <1>2, LoopLeast DEF OwnBlocks, Heads
  <2>4. PICK i \in 1..Len(L) : L[i] = b
    BY <1>4, <2>3 DEF ToSet
  <2>5. own(L[i])
    BY <1>3, <2>1, <2>3, <2>4
  <2>6. SpecsIn(b)[k] \in ToSet(seqs[i])
    BY <1>6, <1>9, <2>2, <2>3, <2>4, <2>5
  <2>7. SpecsIn(b)[k] \in ToSet(specs)
    BY <1>7, <1>8, <2>6
  <2> QED BY <2>7 DEF ToSet
<1>12. ASSUME specs # <<>> PROVE specs[1] \in ToSet(specs)
  <2>1. 1 \in DOMAIN specs
    BY <1>8, <1>12
  <2> QED BY <2>1 DEF ToSet
<1> QED
  BY <1>1, <1>10, <1>11, <1>12

---------------------------------------------------------------------------
(* The invariant about the loops of a translation: they are those of the     *)
(* body, and every head among the blocks that were pushed has its closure.   *)
LoopInv ==
  /\ status # "new" => info = loop_info(body)
  /\ status \in {"start", "blocks", "done"} => info.panics = {}
  /\ status \in {"new", "start"} => loop_specs = <<>>
  /\ status \in {"blocks", "done"} =>
       /\ DOMAIN loop_specs = processed_bbs \cap Heads
       /\ \A h \in DOMAIN loop_specs : loop_specs[h] = find_loop_spec_closure(h)
  /\ status = "done" =>
       DOMAIN invariants = DOMAIN loop_specs /\ \A h \in DOMAIN invariants : invariants[h].spec = loop_specs[h]

LEMMA LoopHeads ==
  ASSUME body \in Bodies, info = loop_info(body)
  PROVE  \A h : is_loop_head(info, h) <=> h \in Heads
  BY InfoFields DEF is_loop_head

LEMMA AddBlockFinds ==
  ASSUME body \in Bodies, info = loop_info(body), info.panics = {}, NEW b, NEW block, NEW rest,
         DOMAIN loop_specs = processed_bbs \cap Heads,
         \A h \in DOMAIN loop_specs : loop_specs[h] = find_loop_spec_closure(h),
         AddBlock(b, block, rest)
  PROVE  LoopInv'
<1>1. /\ UNCHANGED <<body, info, invariants>> /\ status' = "blocks"
      /\ processed_bbs' = processed_bbs \cup Fresh(block)
      /\ loop_specs' = [h \in DOMAIN loop_specs \cup NewHeads(block) |->
                          IF h \in DOMAIN loop_specs THEN loop_specs[h] ELSE find_loop_spec_closure(h)]
  BY DEF AddBlock
<1>2. NewHeads(block) = {h \in ToSet(Jumps(block)) : h \in Heads /\ h \notin DOMAIN loop_specs}
  BY LoopHeads DEF NewHeads
<1>3. DOMAIN loop_specs' = processed_bbs' \cap Heads
  BY <1>1, <1>2 DEF Fresh
<1>4. \A h \in DOMAIN loop_specs' : loop_specs'[h] = find_loop_spec_closure(h)
  BY <1>1
<1>5. Heads' = Heads /\ loop_info(body)' = loop_info(body) /\ \A h : find_loop_spec_closure(h)' = find_loop_spec_closure(h)
  BY <1>1 DEF Heads, BackSources, find_loop_spec_closure, SpecsIn
<1>6. \A h \in DOMAIN loop_specs' : loop_specs'[h] = find_loop_spec_closure(h)'
  BY <1>4, <1>5
<1> QED
  BY <1>1, <1>3, <1>5, <1>6 DEF LoopInv

THEOREM LoopInvariant == Spec => []LoopInv
<1>1. Init => LoopInv
  BY DEF Init, LoopInv
<1>2. CodeInv /\ LoopInv /\ [Next]_vars => LoopInv'
  <2> SUFFICES ASSUME CodeInv, LoopInv, [Next]_vars PROVE LoopInv'
    OBVIOUS
  <2>body. body \in Bodies
    BY DEF CodeInv
  <2>1. CASE Prepare
    <3>1. /\ info' = loop_info(body) /\ body' = body /\ status' \in {"start", "panicked"}
          /\ status' = "start" => info'.panics = {}
          /\ loop_specs' = loop_specs
      BY <2>1 DEF Prepare
    <3>2. loop_info(body)' = loop_info(body)
      BY <3>1
    <3>3. loop_specs = <<>>
      BY <2>1 DEF Prepare, LoopInv
    <3> QED BY <3>1, <3>2, <3>3 DEF LoopInv
  <2>2. CASE TranslateStart
    <3> DEFINE block == translate_basic_block(START_BLOCK)
               live == [i \in DOMAIN SetToSeq(AlwaysLive) |-> Live(SetToSeq(AlwaysLive)[i])]
               longer == [block EXCEPT !.prims = live \o @]
    <3>1. CASE BlockErrs(START_BLOCK)
      <4>1. UNCHANGED <<body, info>> /\ status' = "error" /\ info = loop_info(body)
        BY <2>2, <3>1 DEF TranslateStart, Fail, LoopInv
      <4> QED BY <4>1 DEF LoopInv
    <3>2. CASE ~BlockErrs(START_BLOCK)
      <4>1. AddBlock(START_BLOCK, longer, bb_queue)
        BY <2>2, <3>2 DEF TranslateStart
      <4>2. /\ info = loop_info(body) /\ info.panics = {} /\ loop_specs = <<>> /\ processed_bbs = {}
        BY <2>2 DEF TranslateStart, LoopInv, CodeInv
      <4>3. DOMAIN loop_specs = processed_bbs \cap Heads /\ DOMAIN loop_specs = {}
        BY <4>2
      <4> HIDE DEF longer
      <4> QED BY <2>body, <4>1, <4>2, <4>3, AddBlockFinds
    <3> QED BY <3>1, <3>2
  <2>3. CASE TranslateNext
    <3> DEFINE b == Last(bb_queue)
    <3>1. CASE BlockErrs(b)
      <4>1. UNCHANGED <<body, info>> /\ status' = "error" /\ info = loop_info(body)
        BY <2>3, <3>1 DEF TranslateNext, Fail, LoopInv
      <4> QED BY <4>1 DEF LoopInv
    <3>2. CASE ~BlockErrs(b)
      <4>1. AddBlock(b, translate_basic_block(b), Front(bb_queue))
        BY <2>3, <3>2 DEF TranslateNext
      <4>2. /\ info = loop_info(body) /\ info.panics = {}
            /\ DOMAIN loop_specs = processed_bbs \cap Heads
            /\ \A h \in DOMAIN loop_specs : loop_specs[h] = find_loop_spec_closure(h)
        BY <2>3 DEF TranslateNext, LoopInv
      <4> HIDE DEF b
      <4> QED BY <2>body, <4>1, <4>2, AddBlockFinds
    <3> QED BY <3>1, <3>2
  <2>4. CASE Finish
    <3>1. /\ UNCHANGED <<body, info, processed_bbs, loop_specs>> /\ status = "blocks"
          /\ status' \in {"panicked", "error", "done"}
          /\ status' = "done" =>
               invariants' = [h \in DOMAIN loop_specs |-> [spec |-> loop_specs[h], iterator |-> IteratorOf(h)]]
      BY <2>4 DEF Finish
    <3>2. Heads' = Heads /\ loop_info(body)' = loop_info(body) /\ \A h : find_loop_spec_closure(h)' = find_loop_spec_closure(h)
      BY <3>1 DEF Heads, BackSources, find_loop_spec_closure, SpecsIn
    <3>3. /\ info = loop_info(body) /\ info.panics = {} /\ DOMAIN loop_specs = processed_bbs \cap Heads
          /\ \A h \in DOMAIN loop_specs : loop_specs[h] = find_loop_spec_closure(h)
      BY <3>1 DEF LoopInv
    <3>4. \A h \in DOMAIN loop_specs' : loop_specs'[h] = find_loop_spec_closure(h)'
      BY <3>1, <3>2, <3>3
    <3>5. status' = "done" =>
            DOMAIN invariants' = DOMAIN loop_specs' /\ \A h \in DOMAIN invariants' : invariants'[h].spec = loop_specs'[h]
      BY <3>1
    <3> QED BY <3>1, <3>2, <3>3, <3>4, <3>5 DEF LoopInv
  <2>5. CASE UNCHANGED vars
    <3>1. UNCHANGED <<body, info, processed_bbs, loop_specs, invariants, status>>
      BY <2>5 DEF vars
    <3>2. Heads' = Heads /\ loop_info(body)' = loop_info(body) /\ \A h : find_loop_spec_closure(h)' = find_loop_spec_closure(h)
      BY <3>1 DEF Heads, BackSources, find_loop_spec_closure, SpecsIn
    <3>3. LoopInv
      OBVIOUS
    <3> QED BY <3>1, <3>2, <3>3 DEF LoopInv
  <2> QED BY <2>1, <2>2, <2>3, <2>4, <2>5 DEF Next, Translate
<1> QED
  BY <1>1, <1>2, CodeInvariant, PTL DEF Spec

(* The loops a translation works with are the natural loops of its body,     *)
(* nested, with blocks in an order that every edge but the back edges        *)
(* follows; and it stops at an assertion exactly if a head that is entered   *)
(* jumps to itself or a loop has a block only virtual edges enter.           *)
THEOREM LoopsAreExact == Spec => []LoopsExact
<1>1. CodeInv /\ LoopInv => LoopsExact
  <2> SUFFICES ASSUME CodeInv, LoopInv, status \in {"start", "panicked"}
               PROVE  /\ info.panics = {} => info.bodies = [h \in Heads |-> NaturalLoop(h)] /\ Nested /\ Ordered
                      /\ info.panics = {} <=> \A h \in Heads : ~JumpsToItself(h) /\ EnteredReally(h)
    BY DEF LoopsExact
  <2>1. body \in Bodies /\ info = loop_info(body)
    BY DEF CodeInv, LoopInv
  <2> QED BY <2>1, LoopsRight
<1> QED
  BY <1>1, CodeInvariant, LoopInvariant, PTL

(* When it is done each loop in the code has one invariant, from a closure   *)
(* assigned in the loop and in none inside it, if there is one.              *)
THEOREM LoopsAreSpecified == Spec => []LoopsSpecified
<1>1. CodeInv /\ LoopInv => LoopsSpecified
  <2> SUFFICES ASSUME CodeInv, LoopInv, status = "done"
               PROVE  /\ DOMAIN invariants = Heads \cap DOMAIN code
                      /\ \A h \in DOMAIN invariants :
                           IF SpecsOf(OwnBlocks(h)) = {} THEN invariants[h].spec = NoSpec
                           ELSE invariants[h].spec \in SpecsOf(OwnBlocks(h))
    BY DEF LoopsSpecified
  <2>1. /\ body \in Bodies /\ info = loop_info(body) /\ info.panics = {} /\ bb_queue = <<>>
        /\ DOMAIN code \cup ToSet(bb_queue) = {START_BLOCK} \cup processed_bbs
        /\ DOMAIN invariants = processed_bbs \cap Heads
        /\ \A h \in DOMAIN invariants : invariants[h].spec = find_loop_spec_closure(h)
    BY DEF CodeInv, LoopInv
  <2>2. DOMAIN code = {START_BLOCK} \cup processed_bbs
    BY <2>1 DEF ToSet
  <2>3. START_BLOCK \notin Heads
    <3>1. \A b \in DOMAIN body : START_BLOCK \notin ToSet(successors(body, b))
      BY <2>1, BodyTyped
    <3> QED BY <3>1 DEF Heads, BackSources
  <2>4. ASSUME NEW h \in DOMAIN invariants
        PROVE  IF SpecsOf(OwnBlocks(h)) = {} THEN invariants[h].spec = NoSpec
               ELSE invariants[h].spec \in SpecsOf(OwnBlocks(h))
    BY <2>1, ClosureFound
  <2> QED BY <2>1, <2>2, <2>3, <2>4
<1> QED
  BY <1>1, CodeInvariant, LoopInvariant, PTL

---------------------------------------------------------------------------
(* The facts about loans.  The relations are the least ones their rules do   *)
(* not add to; `m` is any body.                                              *)
LEMMA SaturatedLeast ==
  ASSUME NEW D, IsFiniteSet(D), NEW step, Inflationary(D, step), NEW start \in SUBSET D
  PROVE  LeastFixedPoint(D, step, start, Saturated(D, step, start))
<1> DEFINE Sat(f) == f = [set \in SUBSET D |-> LET more == step[set] IN IF more = set THEN set ELSE f[more]]
           cl == CHOOSE f : Sat(f)
<1>1. Saturated(D, step, start) = cl[start]
  BY DEF Saturated
<1>2. \A f : Sat(f) <=> Saturates(D, step, f)
  BY DEF Saturates
<1>3. \E f : Sat(f)
  <2> HIDE DEF Sat
  <2> QED BY <1>2, SaturationExists
<1>4. Saturates(D, step, cl)
  <2>1. Sat(cl)
    <3> HIDE DEF Sat
    <3> QED BY <1>3
  <2> HIDE DEF Sat, cl
  <2> QED BY <1>2, <2>1
<1> HIDE DEF cl
<1> QED
  BY <1>1, <1>4, SaturationFixed

LEMMA RangeFinite ==
  ASSUME NEW D, IsFiniteSet(D), NEW f, DOMAIN f = D
  PROVE  IsFiniteSet({f[d] : d \in D})
<1> DEFINE R == {f[d] : d \in D}
           g == [d \in D |-> f[d]]
<1>1. g \in [D -> R] /\ \A r \in R : \E d \in D : g[d] = r
  OBVIOUS
<1> HIDE DEF g
<1>2. g \in Surjection(D, R)
  BY <1>1 DEF Surjection
<1> HIDE DEF R
<1>3. IsFiniteSet(R)
  BY <1>2, FS_Surjection
<1> QED
  BY <1>3 DEF R

LEMMA LocationsOf ==
  ASSUME NEW m \in Bodies
  PROVE  /\ IsFiniteSet(Locations(m))
         /\ \A b \in DOMAIN m : m[b].stmts \in Seq(ToSet(m[b].stmts)) /\ Len(m[b].stmts) \in Nat
         /\ \A loc \in Locations(m) :
              loc = <<loc[1], loc[2]>> /\ loc[1] \in DOMAIN m /\ loc[2] \in 1..(Len(m[loc[1]].stmts) + 1)
         /\ \A b \in DOMAIN m : \A i \in 1..(Len(m[b].stmts) + 1) : <<b, i>> \in Locations(m)
<1>1. IsMirBody(m)
  BY BodiesAssumption
<1>2. IsFiniteSet(DOMAIN m) /\ \A b \in DOMAIN m : m[b].stmts \in Seq(ToSet(m[b].stmts))
  BY <1>1 DEF IsMirBody
<1>3. \A b \in DOMAIN m : Len(m[b].stmts) \in Nat
  BY <1>2
<1> DEFINE of(b) == {<<b, i>> : i \in 1..(Len(m[b].stmts) + 1)}
<1>4. Locations(m) = UNION {of(b) : b \in DOMAIN m}
  BY DEF Locations, TermIndex
<1>5. ASSUME NEW b \in DOMAIN m PROVE IsFiniteSet(of(b))
  <2>1. IsFiniteSet(1..(Len(m[b].stmts) + 1))
    <3>1. 1 \in Int /\ Len(m[b].stmts) + 1 \in Int
      BY <1>3
    <3> QED BY <3>1, FS_Interval
  <2> DEFINE I == 1..(Len(m[b].stmts) + 1)
             f == [i \in I |-> <<b, i>>]
  <2>2. of(b) = {f[i] : i \in I} /\ DOMAIN f = I
    OBVIOUS
  <2> HIDE DEF of, f, I
  <2>3. IsFiniteSet(I)
    BY <2>1 DEF I
  <2> QED BY <2>2, <2>3, RangeFinite
<1>6. IsFiniteSet(Locations(m))
  <2> DEFINE f == [b \in DOMAIN m |-> of(b)]
  <2> HIDE DEF of
  <2>a. {of(b) : b \in DOMAIN m} = {f[b] : b \in DOMAIN m} /\ DOMAIN f = DOMAIN m
    OBVIOUS
  <2> HIDE DEF f
  <2>1. IsFiniteSet({of(b) : b \in DOMAIN m})
    BY <1>2, <2>a, RangeFinite
  <2>2. IsFiniteSet(UNION {of(b) : b \in DOMAIN m})
    BY <1>5, <2>1, FS_UNION
  <2> QED BY <1>4, <2>2
<1> QED
  BY <1>2, <1>3, <1>4, <1>6

LEMMA EdgesOf ==
  ASSUME NEW m \in Bodies
  PROVE  /\ Edges(m) \subseteq Locations(m) \X Locations(m)
         /\ \A loc \in Locations(m) : \A s \in get_successors(m, loc) : <<loc, s>> \in Edges(m)
         /\ \A e \in Edges(m) : e[2] \in get_successors(m, e[1])
<1>1. ASSUME NEW loc \in Locations(m), NEW s \in get_successors(m, loc) PROVE s \in Locations(m)
  <2>1. /\ loc = <<loc[1], loc[2]>> /\ loc[1] \in DOMAIN m /\ loc[2] \in 1..(Len(m[loc[1]].stmts) + 1)
        /\ \A b \in DOMAIN m : Len(m[b].stmts) \in Nat
        /\ \A b \in DOMAIN m : \A i \in 1..(Len(m[b].stmts) + 1) : <<b, i>> \in Locations(m)
    BY LocationsOf
  <2>2. CASE IsTerminator(m, loc)
    <3>1. PICK b \in CfgSuccessors(m, loc[1]) : s = <<b, 1>>
      BY <2>2 DEF get_successors
    <3>2. b \in DOMAIN m
      BY <2>1, <3>1, BodiesAssumption DEF IsMirBody
    <3>3. 1 \in 1..(Len(m[b].stmts) + 1)
      BY <2>1, <3>2
    <3> QED BY <2>1, <3>1, <3>2, <3>3
  <2>3. CASE ~IsTerminator(m, loc)
    <3>1. s = <<loc[1], loc[2] + 1>> /\ loc[2] # Len(m[loc[1]].stmts) + 1
      BY <2>3 DEF get_successors, IsTerminator, TermIndex
    <3>2. loc[2] + 1 \in 1..(Len(m[loc[1]].stmts) + 1)
      BY <2>1, <3>1
    <3> QED BY <2>1, <3>1, <3>2
  <2> QED BY <2>2, <2>3
<1>2. \A e \in Edges(m) : \E loc \in Locations(m) : \E s \in get_successors(m, loc) : e = <<loc, s>>
  BY DEF Edges
<1>3. \A loc \in Locations(m) : \A s \in get_successors(m, loc) : <<loc, s>> \in Edges(m)
  BY DEF Edges
<1> QED
  BY <1>1, <1>2, <1>3

(* The nodes at the locations.                                               *)
LEMMA NodesOf ==
  ASSUME NEW m \in Bodies, NEW loc \in Locations(m)
  PROVE  /\ IsNode(At(m, loc))
         /\ IF IsTerminator(m, loc) THEN IsEnd(At(m, loc)) ELSE IsStatement(At(m, loc))
<1>1. IsReferenceBody(m)
  BY ReferencesAssumption
<1>2. IF IsTerminator(m, loc) THEN IsEnd(At(m, loc)) ELSE IsStatement(At(m, loc))
  BY <1>1 DEF IsReferenceBody
<1> QED
  BY <1>2 DEF IsEnd, IsStatement

LiveOf(m) == Liveness(m, Edges(m))
SubOf(m) == Subsets(m, Edges(m), LiveOf(m))
ConOf(m) == Contained(m, Edges(m), LiveOf(m), SubOf(m))
ZomOf(m) == Zombies(m, Edges(m), LiveOf(m), SubOf(m), ConOf(m))

LEMMA LiveLeast ==
  ASSUME NEW m \in Bodies
  PROVE  /\ LiveOf(m) \in SUBSET (Locations(m) \X Var)
         /\ \A loc \in Locations(m) : At(m, loc).src \in Var => <<loc, At(m, loc).src>> \in LiveOf(m)
         /\ \A e \in Edges(m), v \in Var : <<e[2], v>> \in LiveOf(m) /\ At(m, e[1]).dst # v => <<e[1], v>> \in LiveOf(m)
<1> DEFINE D == Locations(m) \X Var
           E == Edges(m)
           before(S) == {<<k[1][1], k[2]>> : k \in {j \in E \X Var : /\ <<j[1][2], j[2]>> \in S
                                                                  /\ At(m, j[1][1]).dst # j[2]}}
           step == [S \in SUBSET D |-> S \cup before(S)]
           R == LiveOf(m)
<1>1. R = Saturated(D, step, Read(m))
  BY DEF LiveOf, Liveness
<1>2. E \subseteq Locations(m) \X Locations(m)
  BY EdgesOf
<1>3. ASSUME NEW S \in SUBSET D PROVE before(S) \subseteq D
  <2> SUFFICES ASSUME NEW k \in E \X Var PROVE <<k[1][1], k[2]>> \in D
    OBVIOUS
  <2>1. k[1] \in Locations(m) \X Locations(m) /\ k[2] \in Var
    BY <1>2
  <2> QED BY <2>1
<1>4. Inflationary(D, step)
  <2> HIDE DEF before
  <2> QED BY <1>3 DEF Inflationary
<1>5. Read(m) \in SUBSET D
  BY DEF Read
<1>6. IsFiniteSet(D)
  BY LocationsOf, LoanFactsAssumption, FS_Product
<1> HIDE DEF R
<1>7. LeastFixedPoint(D, step, Read(m), R)
  <2> HIDE DEF step, D
  <2> QED BY <1>1, <1>4, <1>5, <1>6, SaturatedLeast
<1>8. R \in SUBSET D /\ Read(m) \subseteq R /\ step[R] = R
  <2> HIDE DEF step, D
  <2> QED BY <1>7 DEF LeastFixedPoint
<1>9. before(R) \subseteq R
  <2> HIDE DEF before
  <2> QED BY <1>8
<1>10. ASSUME NEW e \in E, NEW v \in Var, <<e[2], v>> \in R, At(m, e[1]).dst # v PROVE <<e[1], v>> \in R
  <2> DEFINE j == <<e, v>>
  <2>1. j \in E \X Var /\ j[1] = e /\ j[2] = v
    BY <1>10
  <2>2. <<j[1][1], j[2]>> \in before(R)
    <3> HIDE DEF j
    <3> QED BY <1>10, <2>1
  <2> QED BY <1>9, <2>1, <2>2
<1>11. \A loc \in Locations(m) : At(m, loc).src \in Var => <<loc, At(m, loc).src>> \in R
  BY <1>8 DEF Read
<1> QED
  BY <1>8, <1>10, <1>11 DEF R
LEMMA SubsetsAt ==
  ASSUME NEW m \in Bodies, NEW sub, NEW loc \in Locations(m)
  PROVE  /\ MidSubsets(m, sub, loc) \subseteq Var \X Var
         /\ At(m, loc).op \in {"borrow", "move"} => <<At(m, loc).src, At(m, loc).dst>> \in MidSubsets(m, sub, loc)
<1> DEFINE S == OfLocation(sub, loc) \cup SubsetBase(At(m, loc))
           graph == [v \in Var |-> {w \in Var : <<v, w>> \in S}]
<1>1. MidSubsets(m, sub, loc) = UNION {{v} \X Reach(graph, graph[v], Var) : v \in Var}
  BY DEF MidSubsets, Composed
<1>2. ASSUME NEW v \in Var
      PROVE  Reach(graph, graph[v], Var) \subseteq Var /\ \A w \in Var : <<v, w>> \in S => w \in Reach(graph, graph[v], Var)
  <2>1. IsReach(graph, graph[v], Var, Reach(graph, graph[v], Var))
    <3> HIDE DEF graph
    <3> QED BY LoanFactsAssumption, ReachLeast
  <2>2. graph[v] = {w \in Var : <<v, w>> \in S}
    OBVIOUS
  <2> HIDE DEF graph, S
  <2>3. Reach(graph, graph[v], Var) \in SUBSET Var /\ graph[v] \cap Var \subseteq Reach(graph, graph[v], Var)
    BY <2>1 DEF IsReach
  <2> QED BY <2>2, <2>3
<1>3. ASSUME At(m, loc).op \in {"borrow", "move"}
      PROVE  <<At(m, loc).src, At(m, loc).dst>> \in S /\ At(m, loc).src \in Var /\ At(m, loc).dst \in Var
  BY <1>3, NodesOf DEF SubsetBase, IsNode
<1> HIDE DEF graph, S
<1> QED
  BY <1>1, <1>2, <1>3

LEMMA FlowedElements ==
  ASSUME NEW loans, NEW sub
  PROVE  /\ loans \subseteq FlowedIn(loans, sub)
         /\ \A s \in sub, c \in loans : c[1] = s[1] => <<s[2], c[2]>> \in FlowedIn(loans, sub)
         /\ \A d \in FlowedIn(loans, sub) : d \in loans \/ \E s \in sub, c \in loans : d = <<s[2], c[2]>>
  BY DEF FlowedIn

LEMMA MidLoansAt ==
  ASSUME NEW m \in Bodies, NEW sub, NEW loc \in Locations(m), NEW con
  PROVE  /\ OfLocation(con, loc) \cup Issued(At(m, loc)) \subseteq MidLoans(m, sub, con, loc)
         /\ OfLocation(con, loc) \subseteq MidZombies(m, sub, con, loc)
         /\ At(m, loc).op \in {"borrow", "move"} =>
              \A l : <<At(m, loc).src, l>> \in OfLocation(con, loc) =>
                /\ <<At(m, loc).dst, l>> \in MidLoans(m, sub, con, loc)
                /\ <<At(m, loc).dst, l>> \in MidZombies(m, sub, con, loc)
<1> DEFINE S == MidSubsets(m, sub, loc)
           C == OfLocation(con, loc)
           I == Issued(At(m, loc))
           n == At(m, loc)
<1>1. MidLoans(m, sub, con, loc) = FlowedIn(C \cup I, S) /\ MidZombies(m, sub, con, loc) = FlowedIn(C, S)
  BY DEF MidLoans, MidZombies
<1>2. n.op \in {"borrow", "move"} => <<n.src, n.dst>> \in S
  BY SubsetsAt
<1> HIDE DEF S, C, I, n
<1>3. C \cup I \subseteq FlowedIn(C \cup I, S) /\ C \subseteq FlowedIn(C, S)
  BY FlowedElements
<1>4. ASSUME n.op \in {"borrow", "move"}, NEW l, <<n.src, l>> \in C
      PROVE  <<n.dst, l>> \in FlowedIn(C \cup I, S) /\ <<n.dst, l>> \in FlowedIn(C, S)
  <2> DEFINE s == <<n.src, n.dst>>
             c == <<n.src, l>>
  <2>1. s \in S /\ c \in C /\ c \in C \cup I /\ c[1] = s[1] /\ s[2] = n.dst /\ c[2] = l
    BY <1>2, <1>4
  <2> HIDE DEF s, c
  <2> QED BY <2>1, FlowedElements
<1>5. \A l : <<n.src, l>> \in C /\ n.op \in {"borrow", "move"} => <<n.dst, l>> \in FlowedIn(C \cup I, S) /\ <<n.dst, l>> \in FlowedIn(C, S)
  BY <1>4
<1> QED
  BY <1>1, <1>3, <1>5 DEF n, C, I

(* Loans in relations are those of borrows, and flow into variables.         *)
LEMMA MidLoansTyped ==
  ASSUME NEW m \in Bodies, NEW sub, NEW loc \in Locations(m),
         NEW con \in SUBSET (Locations(m) \X (Var \X Loans(m)))
  PROVE  /\ OfLocation(con, loc) \subseteq Var \X Loans(m)
         /\ Issued(At(m, loc)) \subseteq Var \X Loans(m)
         /\ MidLoans(m, sub, con, loc) \subseteq Var \X Loans(m)
         /\ MidZombies(m, sub, con, loc) \subseteq Var \X Loans(m)
<1> DEFINE S == MidSubsets(m, sub, loc)
           C == OfLocation(con, loc)
           I == Issued(At(m, loc))
           P == Var \X Loans(m)
<1>1. MidLoans(m, sub, con, loc) = FlowedIn(C \cup I, S) /\ MidZombies(m, sub, con, loc) = FlowedIn(C, S)
  BY DEF MidLoans, MidZombies
<1>2. S \subseteq Var \X Var
  BY SubsetsAt
<1>3. C \subseteq P
  BY DEF OfLocation
<1>4. I \subseteq P
  BY NodesOf DEF Issued, IsNode, Loans
<1> HIDE DEF S, C, I
<1>5. ASSUME NEW A \in SUBSET P PROVE FlowedIn(A, S) \subseteq P
  <2> SUFFICES ASSUME NEW d \in FlowedIn(A, S) PROVE d \in P
    OBVIOUS
  <2> HIDE DEF P
  <2>1. d \in A \/ \E s \in S, c \in A : d = <<s[2], c[2]>>
    BY FlowedElements
  <2>2. ASSUME NEW s \in S, NEW c \in A PROVE <<s[2], c[2]>> \in P
    <3>1. s[2] \in Var
      BY <1>2
    <3>2. c[2] \in Loans(m)
      BY DEF P
    <3> QED BY <3>1, <3>2 DEF P
  <2> QED BY <2>1, <2>2
<1>6. C \in SUBSET P /\ C \cup I \in SUBSET P
  BY <1>3, <1>4
<1> HIDE DEF P
<1>7. FlowedIn(C \cup I, S) \subseteq P /\ FlowedIn(C, S) \subseteq P
  BY <1>5, <1>6
<1> QED
  BY <1>1, <1>3, <1>4, <1>7 DEF P, C, I

LEMMA LoansFinite ==
  ASSUME NEW m \in Bodies
  PROVE  IsFiniteSet(Loans(m)) /\ Loans(m) \subseteq Nat /\ IsFiniteSet(Locations(m) \X (Var \X Loans(m)))
<1> DEFINE B == {k \in Locations(m) : At(m, k).op = "borrow"}
           f == [k \in B |-> At(m, k).loan]
<1>1. IsFiniteSet(Locations(m)) /\ IsFiniteSet(B)
  BY LocationsOf, FS_Subset
<1>2. Loans(m) = {f[k] : k \in B} /\ DOMAIN f = B
  BY DEF Loans
<1>3. \A k \in B : At(m, k).loan \in Nat
  BY NodesOf DEF IsNode
<1>4. Loans(m) \subseteq Nat
  BY <1>3 DEF Loans
<1> HIDE DEF B, f
<1>5. IsFiniteSet(Loans(m))
  BY <1>1, <1>2, RangeFinite
<1>6. IsFiniteSet(Var \X Loans(m))
  BY <1>5, LoanFactsAssumption, FS_Product
<1> QED
  BY <1>1, <1>4, <1>5, <1>6, FS_Product

LEMMA ConLeast ==
  ASSUME NEW m \in Bodies
  PROVE  /\ ConOf(m) \in SUBSET (Locations(m) \X (Var \X Loans(m)))
         /\ \A e \in Edges(m) : \A c \in MidLoans(m, SubOf(m), ConOf(m), e[1]) :
              c[1] \in OfLocation(LiveOf(m), e[2]) /\ c[2] \notin Killed(m, At(m, e[1]))
                => c \in OfLocation(ConOf(m), e[2])
<1> DEFINE D == Locations(m) \X (Var \X Loans(m))
           E == Edges(m)
           live == LiveOf(m)
           sub == SubOf(m)
           R == ConOf(m)
           carried(con, e) ==
             {c \in MidLoans(m, sub, con, e[1]) :
                c[1] \in OfLocation(live, e[2]) /\ c[2] \notin Killed(m, At(m, e[1]))}
           more(con) == UNION {Tagged(e[2], carried(con, e)) : e \in E}
           step == [con \in SUBSET D |-> con \cup more(con)]
<1>1. R = Saturated(D, step, {})
  BY DEF ConOf, Contained
<1>2. E \subseteq Locations(m) \X Locations(m)
  BY EdgesOf
<1> HIDE DEF R, sub, live
<1>3. ASSUME NEW con \in SUBSET D PROVE more(con) \subseteq D
  <2>1. ASSUME NEW e \in E PROVE Tagged(e[2], carried(con, e)) \subseteq D
    <3>1. e[1] \in Locations(m) /\ e[2] \in Locations(m)
      BY <1>2
    <3>2. MidLoans(m, sub, con, e[1]) \subseteq Var \X Loans(m)
      BY <3>1, MidLoansTyped
    <3>3. carried(con, e) \subseteq Var \X Loans(m)
      BY <3>2
    <3> HIDE DEF carried
    <3> QED BY <3>1, <3>3 DEF Tagged
  <2> HIDE DEF carried, D
  <2> QED BY <2>1
<1>4. Inflationary(D, step)
  <2> HIDE DEF more
  <2> QED BY <1>3 DEF Inflationary
<1>6. IsFiniteSet(D) /\ {} \in SUBSET D
  BY LoansFinite
<1>7. LeastFixedPoint(D, step, {}, R)
  <2> HIDE DEF step, D
  <2> QED BY <1>1, <1>4, <1>6, SaturatedLeast
<1>8. R \in SUBSET D /\ step[R] = R
  <2> HIDE DEF step, D
  <2> QED BY <1>7 DEF LeastFixedPoint
<1>9. more(R) \subseteq R
  <2> HIDE DEF more
  <2> QED BY <1>8
<1>10. ASSUME NEW e \in E, NEW c \in carried(R, e) PROVE c \in OfLocation(R, e[2])
  <2> HIDE DEF carried
  <2>1. <<e[2], c>> \in R
    BY <1>9 DEF Tagged
  <2> DEFINE r == <<e[2], c>>
  <2>2. r \in R /\ r[1] = e[2] /\ r[2] = c
    BY <2>1
  <2> HIDE DEF r
  <2> QED BY <2>2 DEF OfLocation
<1> HIDE DEF D
<1> QED
  BY <1>8, <1>10 DEF R, sub, live, D

LEMMA ZomLeast ==
  ASSUME NEW m \in Bodies
  PROVE  /\ ZomOf(m) \in SUBSET (Locations(m) \X (Var \X Loans(m)))
         /\ \A e \in Edges(m) :
              \A c \in MidZombies(m, SubOf(m), ZomOf(m), e[1])
                       \cup {d \in MidLoans(m, SubOf(m), ConOf(m), e[1]) : d[2] \in Killed(m, At(m, e[1]))} :
                c[1] \in OfLocation(LiveOf(m), e[2]) => c \in OfLocation(ZomOf(m), e[2])
<1> DEFINE D == Locations(m) \X (Var \X Loans(m))
           E == Edges(m)
           live == LiveOf(m)
           sub == SubOf(m)
           con == ConOf(m)
           R == ZomOf(m)
           killed(e) == {c \in MidLoans(m, sub, con, e[1]) : c[2] \in Killed(m, At(m, e[1]))}
           carried(zom, e) == {c \in killed(e) \cup MidZombies(m, sub, zom, e[1]) : c[1] \in OfLocation(live, e[2])}
           more(zom) == UNION {Tagged(e[2], carried(zom, e)) : e \in E}
           step == [zom \in SUBSET D |-> zom \cup more(zom)]
<1>1. R = Saturated(D, step, {})
  BY DEF ZomOf, Zombies
<1>2. E \subseteq Locations(m) \X Locations(m)
  BY EdgesOf
<1>c. con \in SUBSET D
  BY ConLeast
<1> HIDE DEF R, sub, live, con
<1>3. ASSUME NEW zom \in SUBSET D PROVE more(zom) \subseteq D
  <2>1. ASSUME NEW e \in E PROVE Tagged(e[2], carried(zom, e)) \subseteq D
    <3>1. e[1] \in Locations(m) /\ e[2] \in Locations(m)
      BY <1>2
    <3>2. MidLoans(m, sub, con, e[1]) \subseteq Var \X Loans(m) /\ MidZombies(m, sub, zom, e[1]) \subseteq Var \X Loans(m)
      BY <1>c, <3>1, MidLoansTyped
    <3>3. carried(zom, e) \subseteq Var \X Loans(m)
      BY <3>2
    <3> HIDE DEF carried
    <3> QED BY <3>1, <3>3 DEF Tagged
  <2> HIDE DEF carried, D
  <2> QED BY <2>1
<1>4. Inflationary(D, step)
  <2> HIDE DEF more
  <2> QED BY <1>3 DEF Inflationary
<1>6. IsFiniteSet(D) /\ {} \in SUBSET D
  BY LoansFinite
<1>7. LeastFixedPoint(D, step, {}, R)
  <2> HIDE DEF step, D
  <2> QED BY <1>1, <1>4, <1>6, SaturatedLeast
<1>8. R \in SUBSET D /\ step[R] = R
  <2> HIDE DEF step, D
  <2> QED BY <1>7 DEF LeastFixedPoint
<1>9. more(R) \subseteq R
  <2> HIDE DEF more
  <2> QED BY <1>8
<1>10. ASSUME NEW e \in E, NEW c \in carried(R, e) PROVE c \in OfLocation(R, e[2])
  <2> HIDE DEF carried
  <2>1. <<e[2], c>> \in R
    BY <1>9 DEF Tagged
  <2> DEFINE r == <<e[2], c>>
  <2>2. r \in R /\ r[1] = e[2] /\ r[2] = c
    BY <2>1
  <2> HIDE DEF r
  <2> QED BY <2>2 DEF OfLocation
<1> HIDE DEF D
<1> QED
  BY <1>8, <1>10 DEF R, sub, live, con, D
LEMMA FactsOf ==
  ASSUME NEW m, NEW loc \in Locations(m)
  PROVE  /\ loan_facts(m).loan_start[loc] = LiveLoans(OfLocation(ConOf(m), loc), OfLocation(LiveOf(m), loc))
         /\ loan_facts(m).loan_mid[loc] = LiveLoans(MidLoans(m, SubOf(m), ConOf(m), loc), OfLocation(LiveOf(m), loc))
         /\ loan_facts(m).zombie_start[loc] = LiveLoans(OfLocation(ZomOf(m), loc), OfLocation(LiveOf(m), loc))
         /\ loan_facts(m).zombie_mid[loc] = LiveLoans(MidZombies(m, SubOf(m), ZomOf(m), loc), OfLocation(LiveOf(m), loc))
         /\ loan_facts(m).become_zombie[loc] =
              BecomingZombie(MidLoans(m, SubOf(m), ConOf(m), loc), Killed(m, At(m, loc)),
                             UNION {OfLocation(LiveOf(m), s) : s \in get_successors(m, loc)})
<1>1. loan_facts(m) = WithZombies(m, LiveOf(m), SubOf(m), ConOf(m), ZomOf(m))
  BY DEF loan_facts, WithEdges, WithLiveness, WithSubsets, WithLoans, LiveOf, SubOf, ConOf, ZomOf
<1> QED
  BY <1>1 DEF WithZombies

(* What is live at a location, and which loans belong to it there.           *)
LiveAt(m, loc) == OfLocation(LiveOf(m), loc)
Owned(m, loc) == OfLocation(ConOf(m), loc) \cup OfLocation(ZomOf(m), loc)

LEMMA InRelation ==
  ASSUME NEW rel, NEW loc, NEW e
  PROVE  <<loc, e>> \in rel => e \in OfLocation(rel, loc)
<1> SUFFICES ASSUME <<loc, e>> \in rel PROVE e \in OfLocation(rel, loc)
  OBVIOUS
<1> DEFINE r == <<loc, e>>
<1>1. r \in rel /\ r[1] = loc /\ r[2] = e
  OBVIOUS
<1> HIDE DEF r
<1> QED
  BY <1>1 DEF OfLocation

LEMMA FromRelation ==
  ASSUME NEW A, NEW B, NEW rel \in SUBSET (A \X B), NEW loc
  PROVE  OfLocation(rel, loc) \subseteq B /\ \A e \in OfLocation(rel, loc) : <<loc, e>> \in rel
<1> SUFFICES ASSUME NEW e \in OfLocation(rel, loc) PROVE e \in B /\ <<loc, e>> \in rel
  OBVIOUS
<1>1. PICK r \in rel : r[1] = loc /\ r[2] = e
  BY DEF OfLocation
<1>2. r \in A \X B
  OBVIOUS
<1>3. r = <<loc, e>>
  BY <1>1, <1>2
<1> QED
  BY <1>1, <1>2, <1>3

LEMMA LiveCarries ==
  ASSUME NEW m \in Bodies, NEW p, NEW s, <<p, s>> \in Edges(m)
  PROVE  /\ At(m, p).src \in Var => At(m, p).src \in LiveAt(m, p)
         /\ LiveAt(m, s) \subseteq Var
         /\ \A v \in LiveAt(m, s) : v # At(m, p).dst => v \in LiveAt(m, p)
<1> DEFINE R == LiveOf(m)
<1>1. /\ R \in SUBSET (Locations(m) \X Var)
      /\ \A loc \in Locations(m) : At(m, loc).src \in Var => <<loc, At(m, loc).src>> \in R
      /\ \A e \in Edges(m), v \in Var : <<e[2], v>> \in R /\ At(m, e[1]).dst # v => <<e[1], v>> \in R
  BY LiveLeast
<1>2. p \in Locations(m) /\ s \in Locations(m)
  BY EdgesOf
<1> HIDE DEF R
<1>3. OfLocation(R, s) \subseteq Var /\ \A v \in OfLocation(R, s) : <<s, v>> \in R
  BY <1>1, FromRelation
<1>4. ASSUME NEW v \in OfLocation(R, s), v # At(m, p).dst PROVE v \in OfLocation(R, p)
  <2> DEFINE e == <<p, s>>
  <2>1. e \in Edges(m) /\ e[1] = p /\ e[2] = s
    OBVIOUS
  <2> HIDE DEF e
  <2>2. v \in Var /\ <<e[2], v>> \in R /\ At(m, e[1]).dst # v
    BY <1>3, <1>4, <2>1
  <2>3. <<e[1], v>> \in R
    BY <1>1, <2>1, <2>2
  <2> QED BY <2>1, <2>3, InRelation
<1>5. At(m, p).src \in Var => At(m, p).src \in OfLocation(R, p)
  BY <1>1, <1>2, InRelation
<1> QED
  BY <1>3, <1>4, <1>5 DEF LiveAt, R

LEMMA OwnedCarried ==
  ASSUME NEW m \in Bodies, NEW p, NEW s, <<p, s>> \in Edges(m),
         NEW c \in MidLoans(m, SubOf(m), ConOf(m), p) \cup MidZombies(m, SubOf(m), ZomOf(m), p),
         c[1] \in LiveAt(m, s)
  PROVE  c \in Owned(m, s)
<1> DEFINE e == <<p, s>>
<1>1. e \in Edges(m) /\ e[1] = p /\ e[2] = s
  OBVIOUS
<1> HIDE DEF e
<1>2. c[1] \in OfLocation(LiveOf(m), e[2])
  BY <1>1 DEF LiveAt
<1>3. CASE c \in MidLoans(m, SubOf(m), ConOf(m), e[1]) /\ c[2] \notin Killed(m, At(m, e[1]))
  BY <1>1, <1>2, <1>3, ConLeast DEF Owned
<1>4. CASE c \in MidZombies(m, SubOf(m), ZomOf(m), e[1])
                   \cup {d \in MidLoans(m, SubOf(m), ConOf(m), e[1]) : d[2] \in Killed(m, At(m, e[1]))}
  BY <1>1, <1>2, <1>4, ZomLeast DEF Owned
<1> QED
  BY <1>1, <1>3, <1>4

LEMMA OwnedCarries ==
  ASSUME NEW m \in Bodies, NEW p, NEW s, <<p, s>> \in Edges(m)
  PROVE  /\ \A v \in LiveAt(m, s) : \A l : <<v, l>> \in Owned(m, p) => <<v, l>> \in Owned(m, s)
         /\ At(m, p).op \in {"borrow", "move"} /\ At(m, p).dst \in LiveAt(m, s) =>
              \A l : <<At(m, p).src, l>> \in Owned(m, p) => <<At(m, p).dst, l>> \in Owned(m, s)
         /\ At(m, p).op = "borrow" /\ At(m, p).dst \in LiveAt(m, s) => <<At(m, p).dst, At(m, p).loan>> \in Owned(m, s)
<1> DEFINE M == MidLoans(m, SubOf(m), ConOf(m), p) \cup MidZombies(m, SubOf(m), ZomOf(m), p)
<1>1. p \in Locations(m)
  BY EdgesOf
<1>2. \A v, l : <<v, l>> \in Owned(m, p) => <<v, l>> \in M
  BY <1>1, MidLoansAt DEF Owned
<1>3. At(m, p).op \in {"borrow", "move"} =>
        \A l : <<At(m, p).src, l>> \in Owned(m, p) => <<At(m, p).dst, l>> \in M
  BY <1>1, MidLoansAt DEF Owned
<1>4. At(m, p).op = "borrow" => <<At(m, p).dst, At(m, p).loan>> \in M
  <2>1. Issued(At(m, p)) \subseteq MidLoans(m, SubOf(m), ConOf(m), p)
    BY <1>1, MidLoansAt
  <2> QED BY <2>1 DEF Issued
<1>5. \A v, l : v \in LiveAt(m, s) /\ <<v, l>> \in M => <<v, l>> \in Owned(m, s)
  BY OwnedCarried
<1> HIDE DEF M
<1> QED
  BY <1>2, <1>3, <1>4, <1>5

(* A loan that a live variable owns is live, as a loan or as a zombie.       *)
LEMMA OwnedLive ==
  ASSUME NEW m \in Bodies, NEW loc \in Locations(m), NEW v \in LiveAt(m, loc), NEW l, <<v, l>> \in Owned(m, loc)
  PROVE  \E zombie \in BOOLEAN : l \in live_start(loan_facts(m), loc, zombie)
<1>1. \A rel : <<v, l>> \in rel => l \in LiveLoans(rel, LiveAt(m, loc))
  <2> SUFFICES ASSUME NEW rel, <<v, l>> \in rel PROVE l \in LiveLoans(rel, LiveAt(m, loc))
    OBVIOUS
  <2> DEFINE d == <<v, l>>
  <2>1. d \in rel /\ d[1] \in LiveAt(m, loc) /\ d[2] = l
    OBVIOUS
  <2> HIDE DEF d
  <2> QED BY <2>1 DEF LiveLoans
<1>2. CASE <<v, l>> \in OfLocation(ConOf(m), loc)
  <2>1. l \in loan_facts(m).loan_start[loc]
    <3>1. loan_facts(m).loan_start[loc] = LiveLoans(OfLocation(ConOf(m), loc), LiveAt(m, loc))
      BY FactsOf DEF LiveAt
    <3> QED BY ONLY <1>1, <1>2, <3>1
  <2> QED BY <2>1 DEF live_start
<1>3. CASE <<v, l>> \in OfLocation(ZomOf(m), loc)
  <2>1. l \in loan_facts(m).zombie_start[loc]
    <3>1. loan_facts(m).zombie_start[loc] = LiveLoans(OfLocation(ZomOf(m), loc), LiveAt(m, loc))
      BY FactsOf DEF LiveAt
    <3> QED BY ONLY <1>1, <1>3, <3>1
  <2> QED BY <2>1 DEF live_start
<1> QED
  BY <1>2, <1>3 DEF Owned
---------------------------------------------------------------------------
(* The endings of a set of loans: one of each, from the greatest number on.  *)
LEMMA GreatestNumber ==
  ASSUME NEW S, S \subseteq Nat, IsFiniteSet(S), S # {}
  PROVE  \E x \in S : \A y \in S : y <= x
<1> DEFINE R == {e \in S \X S : e[1] < e[2]}
<1>1. \A x, y \in S : <<x, y>> \in R <=> x < y
  OBVIOUS
<1>2. /\ \A x \in S : <<x, x>> \notin R
      /\ \A x, y, z \in S : <<x, y>> \in R /\ <<y, z>> \in R => <<x, z>> \in R
  <2> HIDE DEF R
  <2>1. \A x \in S : x \in Nat
    OBVIOUS
  <2> QED BY <1>1, <2>1
<1>3. PICK x \in S : \A y \in S : <<x, y>> \notin R
  <2> HIDE DEF R
  <2>1. \A Q \in SUBSET S : Q # {} => \E x \in Q : \A y \in Q : <<x, y>> \notin R
    BY <1>2, MaximalElement
  <2>2. S \in SUBSET S
    OBVIOUS
  <2> QED BY <2>1, <2>2
<1> HIDE DEF R
<1>4. ASSUME NEW y \in S PROVE y <= x
  <2>1. ~(x < y) /\ x \in Nat /\ y \in Nat
    BY <1>1, <1>3
  <2> QED BY <2>1
<1> QED
  BY <1>4

LEMMA Ranked ==
  ASSUME NEW T, T \subseteq Nat, IsFiniteSet(T), NEW i \in 1..Cardinality(T)
  PROVE  \E l \in T : Cardinality({k \in T : k > l}) = i - 1
<1> DEFINE above(l) == {k \in T : k > l}
           N == Cardinality(T) - 1
           P == {n \in 0..N : \E l \in T : Cardinality(above(l)) = n}
<1>1. Cardinality(T) \in Nat /\ N \in Nat /\ \A l \in T : IsFiniteSet(above(l)) /\ above(l) \subseteq T
  BY FS_CardinalityType, FS_Subset
<1>2. ASSUME NEW G \in SUBSET T, Cardinality(G) \in 0..N PROVE T \ G # {}
  <2> SUFFICES ASSUME T \ G = {} PROVE FALSE
    OBVIOUS
  <2>1. G = T
    OBVIOUS
  <2> QED BY <1>1, <1>2, <2>1
<1>3. ASSUME NEW G \in SUBSET T, T \ G # {}, \A k \in G, l \in T \ G : k > l
      PROVE  \E x \in T \ G : above(x) = G
  <2>1. T \ G \subseteq Nat /\ IsFiniteSet(T \ G)
    BY FS_Subset
  <2>2. PICK x \in T \ G : \A y \in T \ G : y <= x
    BY <1>3, <2>1, GreatestNumber
  <2>3. \A k \in T : k > x <=> k \in G
    <3> TAKE k \in T
    <3>1. k \in Nat /\ x \in Nat
      OBVIOUS
    <3>2. CASE k \in G
      BY <1>3, <3>2
    <3>3. CASE k \notin G
      BY <2>2, <3>1, <3>3
    <3> QED BY <3>2, <3>3
  <2>4. above(x) = G
    BY <2>3
  <2> QED BY <2>4
<1>4. 0 \in P
  <2>1. {} \in SUBSET T /\ Cardinality({}) = 0 /\ 0 \in 0..N
    BY <1>1, FS_EmptySet
  <2>2. T \ {} # {}
    BY <1>2, <2>1
  <2>3. PICK x \in T \ {} : above(x) = {}
    <3> HIDE DEF above
    <3> QED BY <1>3, <2>1, <2>2
  <2> HIDE DEF above
  <2> QED BY <2>1, <2>3
<1>5. ASSUME NEW n \in 0..(N - 1), n \in P PROVE n + 1 \in P
  <2>1. PICK l \in T : Cardinality(above(l)) = n
    BY <1>5
  <2> DEFINE G == above(l) \cup {l}
  <2>2. l \notin above(l) /\ G \in SUBSET T /\ \A k \in G, y \in T \ G : k > y
    OBVIOUS
  <2>3. Cardinality(G) = n + 1 /\ n + 1 \in 0..N
    <3> HIDE DEF above
    <3>1. Cardinality(above(l) \cup {l}) = Cardinality(above(l)) + 1
      BY <1>1, <2>2, FS_AddElement
    <3> QED BY <1>1, <2>1, <3>1
  <2> HIDE DEF above, G
  <2>4. T \ G # {}
    BY <1>2, <2>2, <2>3
  <2>5. PICK x \in T \ G : above(x) = G
    BY <1>3, <2>2, <2>4
  <2> QED BY <2>3, <2>5
<1>6. \A n \in 0..N : n \in P
  <2> HIDE DEF P, N
  <2> QED BY <1>1, <1>4, <1>5, RangeInduction
<1>7. i - 1 \in 0..N
  BY <1>1
<1>8. i - 1 \in P
  <2> HIDE DEF P, N
  <2> QED BY <1>6, <1>7
<1> QED
  BY <1>8

LEMMA EndingsOf ==
  ASSUME NEW T, T \subseteq Nat, IsFiniteSet(T)
  PROVE  /\ generate_endlfts(T) \in Seq({EndLft(l) : l \in T})
         /\ Len(generate_endlfts(T)) = Cardinality(T) /\ Cardinality(T) \in Nat
         /\ \A l \in T : \E i \in 1..Cardinality(T) : generate_endlfts(T)[i] = EndLft(l)
<1> DEFINE above(l) == {k \in T : k > l}
           pick(i) == CHOOSE l \in T : Cardinality({k \in T : k > l}) = i - 1
           N == Cardinality(T)
           s == generate_endlfts(T)
<1>1. s = [i \in 1..N |-> EndLft(pick(i))]
  BY DEF generate_endlfts
<1>2. N \in Nat /\ \A l \in T : IsFiniteSet(above(l)) /\ above(l) \subseteq T /\ Cardinality(above(l)) \in Nat
  BY FS_CardinalityType, FS_Subset
<1>3. ASSUME NEW i \in 1..N PROVE pick(i) \in T /\ Cardinality(above(pick(i))) = i - 1
  BY Ranked
<1> HIDE DEF pick, s
<1>4. s \in Seq({EndLft(l) : l \in T}) /\ Len(s) = N
  <2>1. s \in [1..N -> {EndLft(l) : l \in T}]
    BY <1>1, <1>3
  <2> HIDE DEF N
  <2> QED BY <1>2, <2>1
<1>5. ASSUME NEW l \in T PROVE \E i \in 1..N : s[i] = EndLft(l)
  <2> DEFINE i == Cardinality(above(l)) + 1
  <2>1. i \in 1..N
    <3>1. above(l) # T /\ above(l) \subseteq T
      OBVIOUS
    <3> HIDE DEF above
    <3>2. Cardinality(above(l)) < N
      BY <1>2, <3>1, FS_Subset
    <3> QED BY <1>2, <3>2
  <2>2. ASSUME NEW x \in T, NEW y \in T, x < y PROVE Cardinality(above(y)) < Cardinality(above(x))
    <3>1. above(y) \subseteq above(x) /\ above(y) # above(x)
      <4>1. \A k \in T : k > y => k > x
        BY <2>2
      <4>2. y \in above(x) /\ y \notin above(y)
        BY <2>2
      <4> QED BY <4>1, <4>2
    <3> HIDE DEF above
    <3> QED BY <1>2, <3>1, FS_Subset
  <2>3. Cardinality(above(pick(i))) = Cardinality(above(l)) /\ pick(i) \in T
    <3>1. Cardinality(above(pick(i))) = i - 1 /\ pick(i) \in T
      BY <1>3, <2>1
    <3> HIDE DEF above
    <3> QED BY <1>2, <3>1
  <2>4. pick(i) = l
    <3> DEFINE y == pick(i)
    <3>1. y \in T /\ Cardinality(above(y)) = Cardinality(above(l))
      BY <2>3
    <3> HIDE DEF y, above, i
    <3>2. ~(y < l) /\ ~(l < y)
      BY <1>2, <2>2, <3>1
    <3>3. y = l
      BY <3>1, <3>2
    <3> QED BY <3>3 DEF y
  <2> HIDE DEF i
  <2> QED BY <1>1, <2>1, <2>4
<1> QED
  BY <1>2, <1>4, <1>5 DEF s
LEMMA SuccessorsOf ==
  ASSUME NEW m \in Bodies, NEW b \in DOMAIN m
  PROVE  successors(m, b) \in Seq(DOMAIN m) /\ ToSet(successors(m, b)) \subseteq CfgSuccessors(m, b)
<1> DEFINE term == m[b].term
<1>1. IsTerm(term, DOMAIN m)
  BY BodiesAssumption DEF IsMirBody
<1>2. successors(m, b) = real_targets(term)
  BY DEF successors
<1>3. ToSet(term.targets) \subseteq CfgSuccessors(m, b)
  BY DEF CfgSuccessors
<1> HIDE DEF term
<1>4. term.targets \in Seq(DOMAIN m) /\ (term.kind \in StepKinds => term.targets # <<>>)
  BY <1>1 DEF IsTerm
<1>5. CASE term.kind \in EndKinds
  BY <1>2, <1>5 DEF real_targets, ToSet
<1>6. CASE term.kind \notin EndKinds /\ term.kind \in StepKinds
  <2>1. 1 \in DOMAIN term.targets /\ term.targets[1] \in DOMAIN m
    BY <1>4, <1>6
  <2>2. successors(m, b) = <<term.targets[1]>>
    BY <1>2, <1>6 DEF real_targets
  <2>3. ToSet(successors(m, b)) = {term.targets[1]} /\ term.targets[1] \in ToSet(term.targets)
    BY <2>1, <2>2 DEF ToSet
  <2> QED BY <1>3, <2>1, <2>2, <2>3
<1>7. CASE term.kind \notin EndKinds /\ term.kind \notin StepKinds
  BY <1>2, <1>3, <1>4, <1>7 DEF real_targets
<1> QED BY <1>5, <1>6, <1>7
---------------------------------------------------------------------------
(* The loans that die.                                                       *)
LEMMA PredecessorsOf ==
  ASSUME NEW m \in Bodies, NEW s \in Locations(m), NEW p \in get_loc_predecessors(m, s)
  PROVE  p \in Locations(m) /\ <<p, s>> \in Edges(m)
<1>1. /\ s = <<s[1], s[2]>> /\ s[1] \in DOMAIN m /\ s[2] \in 1..(Len(m[s[1]].stmts) + 1)
      /\ \A b \in DOMAIN m : Len(m[b].stmts) \in Nat
      /\ \A b \in DOMAIN m : \A i \in 1..(Len(m[b].stmts) + 1) : <<b, i>> \in Locations(m)
  BY LocationsOf
<1>2. CASE s[2] > 1
  <2>1. p = <<s[1], s[2] - 1>>
    BY <1>2 DEF get_loc_predecessors
  <2>2. s[2] - 1 \in 1..(Len(m[s[1]].stmts) + 1) /\ s[2] - 1 # Len(m[s[1]].stmts) + 1
    BY <1>1, <1>2
  <2>3. p \in Locations(m)
    BY <1>1, <2>1, <2>2
  <2>4. ~IsTerminator(m, p)
    BY <2>1, <2>2 DEF IsTerminator, TermIndex
  <2>5. get_successors(m, p) = {<<p[1], p[2] + 1>>} /\ p[1] = s[1] /\ p[2] + 1 = s[2]
    BY <1>1, <2>1, <2>4 DEF get_successors
  <2>6. s \in get_successors(m, p)
    BY <1>1, <2>5
  <2> QED BY <2>3, <2>6, EdgesOf
<1>3. CASE ~(s[2] > 1)
  <2>1. PICK b \in predecessors(m, s[1]) : p = <<b, TermIndex(m, b)>>
    BY <1>3 DEF get_loc_predecessors
  <2>2. b \in DOMAIN m /\ s[1] \in ToSet(successors(m, b))
    BY DEF predecessors
  <2>3. p \in Locations(m) /\ IsTerminator(m, p)
    <3>1. Len(m[b].stmts) + 1 \in 1..(Len(m[b].stmts) + 1)
      BY <1>1, <2>2
    <3> QED BY <1>1, <2>1, <2>2, <3>1 DEF TermIndex, IsTerminator
  <2>4. s[1] \in CfgSuccessors(m, b)
    BY <2>2, SuccessorsOf
  <2>5. s = <<s[1], 1>>
    BY <1>1, <1>3
  <2>6. s \in get_successors(m, p)
    BY <2>1, <2>3, <2>4, <2>5 DEF get_successors
  <2> QED BY <2>3, <2>6, EdgesOf
<1> QED
  BY <1>2, <1>3

LEMMA LoansTyped ==
  ASSUME NEW m \in Bodies, NEW loc \in Locations(m), NEW zombie \in BOOLEAN
  PROVE  /\ live_start(loan_facts(m), loc, zombie) \subseteq Loans(m)
         /\ get_active_loans(m, loan_facts(m), loc, zombie) \subseteq Loans(m)
<1>1. ConOf(m) \in SUBSET (Locations(m) \X (Var \X Loans(m))) /\ ZomOf(m) \in SUBSET (Locations(m) \X (Var \X Loans(m)))
  BY ConLeast, ZomLeast
<1>2. \A rel, live : rel \subseteq Var \X Loans(m) => LiveLoans(rel, live) \subseteq Loans(m)
  BY DEF LiveLoans
<1>3. /\ OfLocation(ConOf(m), loc) \subseteq Var \X Loans(m) /\ OfLocation(ZomOf(m), loc) \subseteq Var \X Loans(m)
      /\ MidLoans(m, SubOf(m), ConOf(m), loc) \subseteq Var \X Loans(m)
      /\ MidZombies(m, SubOf(m), ZomOf(m), loc) \subseteq Var \X Loans(m)
      /\ Issued(At(m, loc)) \subseteq Var \X Loans(m)
  BY <1>1, MidLoansTyped
<1>4. live_start(loan_facts(m), loc, zombie) \subseteq Loans(m) /\ live_mid(loan_facts(m), loc, zombie) \subseteq Loans(m)
  <2> DEFINE facts_of == loan_facts(m)
  <2>1. /\ facts_of.loan_start[loc] \subseteq Loans(m) /\ facts_of.loan_mid[loc] \subseteq Loans(m)
        /\ facts_of.zombie_start[loc] \subseteq Loans(m) /\ facts_of.zombie_mid[loc] \subseteq Loans(m)
    <3> DEFINE live == OfLocation(LiveOf(m), loc)
               C == OfLocation(ConOf(m), loc)
               Z == OfLocation(ZomOf(m), loc)
               CM == MidLoans(m, SubOf(m), ConOf(m), loc)
               ZM == MidZombies(m, SubOf(m), ZomOf(m), loc)
    <3>1. /\ facts_of.loan_start[loc] = LiveLoans(C, live) /\ facts_of.loan_mid[loc] = LiveLoans(CM, live)
          /\ facts_of.zombie_start[loc] = LiveLoans(Z, live) /\ facts_of.zombie_mid[loc] = LiveLoans(ZM, live)
      BY FactsOf
    <3>2. \A rel \in {C, Z, CM, ZM} : rel \subseteq Var \X Loans(m)
      BY <1>3
    <3> HIDE DEF facts_of, live, C, Z, CM, ZM
    <3>3. \A rel \in {C, Z, CM, ZM} : LiveLoans(rel, live) \subseteq Loans(m)
      BY <1>2, <3>2
    <3> QED BY <3>1, <3>3
  <2> HIDE DEF facts_of
  <2>2. live_start(facts_of, loc, zombie) \in {facts_of.loan_start[loc], facts_of.zombie_start[loc]}
    BY DEF live_start
  <2>3. live_mid(facts_of, loc, zombie) \in {facts_of.loan_mid[loc], facts_of.zombie_mid[loc]}
    BY DEF live_mid
  <2>4. live_start(facts_of, loc, zombie) \subseteq Loans(m) /\ live_mid(facts_of, loc, zombie) \subseteq Loans(m)
    BY <2>1, <2>2, <2>3
  <2> QED BY <2>4 DEF facts_of
<1>5. {c[2] : c \in Issued(At(m, loc))} \subseteq Loans(m)
  BY <1>3
<1> QED
  BY <1>4, <1>5 DEF get_active_loans

LEMMA DyingTyped ==
  ASSUME NEW m \in Bodies, NEW loc \in Locations(m), NEW zombie \in BOOLEAN
  PROVE  /\ dying_loans(m, loan_facts(m), loc) \subseteq Loans(m)
         /\ get_loans_dying_at(m, loan_facts(m), loc, zombie) \subseteq Loans(m)
<1>1. get_loans_dying_at(m, loan_facts(m), loc, zombie) \subseteq Loans(m)
  BY LoansTyped DEF get_loans_dying_at
<1>2. ASSUME NEW p \in get_loc_predecessors(m, loc), NEW z \in BOOLEAN
      PROVE  get_loans_dying_between(m, loan_facts(m), p, loc, z) \subseteq Loans(m)
  <2>1. p \in Locations(m)
    BY PredecessorsOf
  <2> QED BY <2>1, LoansTyped DEF get_loans_dying_between
<1> QED
  BY <1>1, <1>2 DEF dying_loans

Torn(m) ==
  \E s \in Locations(m) : \E p \in get_loc_predecessors(m, s) : \E zombie \in BOOLEAN :
    get_loans_dying_between(m, loan_facts(m), p, s, zombie) \cap live_start(loan_facts(m), s, ~zombie) # {}

(* A loan that ends while a live variable owns it is torn.                   *)
LEMMA DiesTorn ==
  ASSUME NEW m \in Bodies, NEW s \in Locations(m), NEW p \in get_loc_predecessors(m, s), NEW zombie \in BOOLEAN,
         NEW l \in get_loans_dying_between(m, loan_facts(m), p, s, zombie),
         NEW v \in LiveAt(m, s), <<v, l>> \in Owned(m, s)
  PROVE  Torn(m)
<1>1. PICK z \in BOOLEAN : l \in live_start(loan_facts(m), s, z)
  BY OwnedLive
<1>2. l \notin live_start(loan_facts(m), s, zombie)
  BY DEF get_loans_dying_between
<1>3. (z <=> zombie) => live_start(loan_facts(m), s, z) = live_start(loan_facts(m), s, zombie)
  BY DEF live_start
<1>4. (z <=> ~zombie) => live_start(loan_facts(m), s, z) = live_start(loan_facts(m), s, ~zombie)
  BY DEF live_start
<1>5. l \in live_start(loan_facts(m), s, ~zombie)
  BY <1>1, <1>2, <1>3, <1>4
<1> QED
  BY <1>5 DEF Torn

LEMMA EndsTorn ==
  ASSUME NEW m \in Bodies, NEW s \in Locations(m), NEW l \in dying_loans(m, loan_facts(m), s),
         NEW v \in LiveAt(m, s), <<v, l>> \in Owned(m, s)
  PROVE  Torn(m)
<1>1. PICK p \in get_loc_predecessors(m, s), zombie \in BOOLEAN :
        l \in get_loans_dying_between(m, loan_facts(m), p, s, zombie)
  BY DEF dying_loans
<1> QED
  BY <1>1, DiesTorn

(* Where a block of the code leads.                                          *)
LEMMA JumpsLead ==
  ASSUME NEW m \in Bodies, NEW b \in DOMAIN m, NEW t \in ToSet(jumps_of(m[b].term))
  PROVE  /\ <<b, TermIndex(m, b)>> \in Locations(m) /\ <<t, 1>> \in Locations(m)
         /\ <<<<b, TermIndex(m, b)>>, <<t, 1>>>> \in Edges(m)
         /\ <<b, TermIndex(m, b)>> \in get_loc_predecessors(m, <<t, 1>>)
<1> DEFINE term == m[b].term
           p == <<b, TermIndex(m, b)>>
           s == <<t, 1>>
<1>1. IsTerm(term, DOMAIN m) /\ CfgSuccessors(m, b) \subseteq DOMAIN m
  BY BodiesAssumption DEF IsMirBody
<1>2. ToSet(jumps_of(term)) \subseteq ToSet(real_targets(term))
  <2> HIDE DEF term
  <2>1. CASE term.kind = "if"
    <3>1. real_targets(term) = term.targets /\ jumps_of(term) = <<term.targets[2], term.targets[1]>>
      BY <2>1 DEF real_targets, jumps_of, EndKinds, StepKinds
    <3>2. Len(term.targets) = 2 /\ term.targets \in Seq(DOMAIN m)
      BY <1>1, <2>1 DEF IsTerm
    <3>3. ToSet(jumps_of(term)) = {term.targets[2], term.targets[1]}
      BY <3>1 DEF ToSet
    <3>4. term.targets[1] \in ToSet(term.targets) /\ term.targets[2] \in ToSet(term.targets)
      BY <3>2 DEF ToSet
    <3> QED BY <3>1, <3>3, <3>4
  <2>2. CASE term.kind = "panic"
    <3>1. jumps_of(term) = <<>>
      BY <2>2 DEF jumps_of
    <3> QED BY <3>1 DEF ToSet
  <2>3. CASE term.kind \notin {"if", "panic"}
    BY <2>3 DEF jumps_of
  <2> QED BY <2>1, <2>2, <2>3
<1>3. t \in ToSet(successors(m, b))
  BY <1>2 DEF successors
<1>4. t \in CfgSuccessors(m, b) /\ t \in DOMAIN m
  BY <1>1, <1>3, SuccessorsOf
<1>5. /\ \A c \in DOMAIN m : Len(m[c].stmts) \in Nat
      /\ \A c \in DOMAIN m : \A i \in 1..(Len(m[c].stmts) + 1) : <<c, i>> \in Locations(m)
  BY LocationsOf
<1>6. p \in Locations(m) /\ s \in Locations(m)
  <2>1. Len(m[b].stmts) + 1 \in 1..(Len(m[b].stmts) + 1) /\ 1 \in 1..(Len(m[t].stmts) + 1)
    BY <1>4, <1>5
  <2> QED BY <1>4, <1>5, <2>1 DEF TermIndex
<1>7. p \in get_loc_predecessors(m, s)
  <2>1. b \in predecessors(m, t)
    BY <1>3 DEF predecessors
  <2>2. s[1] = t /\ ~(s[2] > 1)
    OBVIOUS
  <2> HIDE DEF s
  <2> QED BY <2>1, <2>2 DEF get_loc_predecessors
<1>8. <<p, s>> \in Edges(m)
  BY <1>6, <1>7, PredecessorsOf
<1> QED
  BY <1>6, <1>7, <1>8

LEMMA EndsTornAtTerminator ==
  ASSUME NEW m \in Bodies, NEW b \in DOMAIN m, NEW t \in ToSet(jumps_of(m[b].term)),
         NEW l \in get_loans_dying_at(m, loan_facts(m), <<b, TermIndex(m, b)>>, FALSE),
         NEW v \in LiveAt(m, <<t, 1>>), <<v, l>> \in Owned(m, <<t, 1>>)
  PROVE  Torn(m)
<1> DEFINE p == <<b, TermIndex(m, b)>>
           s == <<t, 1>>
<1>1. p \in Locations(m) /\ s \in Locations(m) /\ <<p, s>> \in Edges(m) /\ p \in get_loc_predecessors(m, s)
  BY JumpsLead
<1>2. s \in get_successors(m, p)
  <2> DEFINE e == <<p, s>>
  <2>1. e \in Edges(m) /\ e[1] = p /\ e[2] = s
    BY <1>1
  <2> HIDE DEF e, p, s
  <2> QED BY <2>1, EdgesOf
<1>3. l \in get_loans_dying_at(m, loan_facts(m), p, FALSE) /\ v \in LiveAt(m, s) /\ <<v, l>> \in Owned(m, s)
  OBVIOUS
<1> HIDE DEF p, s
<1>4. l \in get_loans_dying_between(m, loan_facts(m), p, s, FALSE)
  BY <1>2, <1>3 DEF get_loans_dying_at, get_loans_dying_between
<1> QED
  BY <1>1, <1>3, <1>4, DiesTorn
---------------------------------------------------------------------------
(* The loans a variable may be lent for after a location: those active at it *)
(* that do not become zombies there.  They go on, are ended, or die unseen.  *)
Remains(m, p) == get_active_loans(m, loan_facts(m), p, FALSE) \ loan_facts(m).become_zombie[p]
EndedAt(m, p) ==
  IF IsTerminator(m, p) /\ EmitsEndings(At(m, p)) THEN get_loans_dying_at(m, loan_facts(m), p, FALSE) ELSE {}
Unseen(m, l) ==
  \E s \in Locations(m) : \E p \in get_loc_predecessors(m, s) :
    /\ IsTerminator(m, s)
    /\ l \in get_loans_dying_between(m, loan_facts(m), p, s, FALSE) \cup get_loans_dying_between(m, loan_facts(m), p, s, TRUE)
    /\ l \notin EndedAt(m, p)

LEMMA LoanGoesOn ==
  ASSUME NEW m \in Bodies, NEW s \in Locations(m), NEW p \in get_loc_predecessors(m, s),
         NEW l \in Remains(m, p), l \notin EndedAt(m, p)
  PROVE  \/ l \in loan_facts(m).loan_start[s]
         \/ ~IsTerminator(m, s) /\ l \in dying_loans(m, loan_facts(m), s)
         \/ Unseen(m, l)
<1> SUFFICES ASSUME l \notin loan_facts(m).loan_start[s]
             PROVE  \/ ~IsTerminator(m, s) /\ l \in dying_loans(m, loan_facts(m), s)
                    \/ Unseen(m, l)
  OBVIOUS
<1>1. l \in get_loans_dying_between(m, loan_facts(m), p, s, FALSE)
  BY DEF get_loans_dying_between, Remains, live_start
<1>2. CASE IsTerminator(m, s)
  BY <1>1, <1>2 DEF Unseen
<1>3. CASE ~IsTerminator(m, s)
  <2> DEFINE dies(q, z) == get_loans_dying_between(m, loan_facts(m), q, s, z)
             P == get_loc_predecessors(m, s)
             D == dying_loans(m, loan_facts(m), s)
  <2>1. D = UNION {dies(q, z) : q \in P, z \in BOOLEAN}
    BY DEF dying_loans
  <2>2. p \in P /\ FALSE \in BOOLEAN /\ l \in dies(p, FALSE)
    BY <1>1
  <2> HIDE DEF dies, P, D
  <2>3. \A q \in P, z \in BOOLEAN : dies(q, z) \subseteq D
    BY ONLY <2>1
  <2>4. dies(p, FALSE) \subseteq D
    BY ONLY <2>2, <2>3
  <2>5. l \in D
    BY ONLY <2>2, <2>4
  <2> QED BY <1>3, <2>5 DEF D
<1> QED
  BY <1>2, <1>3

LEMMA LoanStays ==
  ASSUME NEW m \in Bodies, NEW p \in Locations(m), NEW l, l \notin Killed(m, At(m, p)),
         l \in loan_facts(m).loan_start[p] \/ (At(m, p).op = "borrow" /\ l = At(m, p).loan)
  PROVE  l \in Remains(m, p)
<1> DEFINE live == OfLocation(LiveOf(m), p)
           C == OfLocation(ConOf(m), p)
           CM == MidLoans(m, SubOf(m), ConOf(m), p)
           killed == Killed(m, At(m, p))
           after == UNION {OfLocation(LiveOf(m), s) : s \in get_successors(m, p)}
           fs == loan_facts(m)
<1>1. fs.loan_start[p] = LiveLoans(C, live) /\ fs.loan_mid[p] = LiveLoans(CM, live)
      /\ fs.become_zombie[p] = BecomingZombie(CM, killed, after)
  BY FactsOf
<1>2. C \subseteq CM
  BY MidLoansAt
<1>3. Remains(m, p) = (fs.loan_mid[p] \cup {c[2] : c \in Issued(At(m, p))}) \ fs.become_zombie[p]
  BY DEF Remains, get_active_loans, live_mid
<1>4. l \notin killed
  OBVIOUS
<1> HIDE DEF live, C, CM, killed, after, fs
<1>5. l \notin fs.become_zombie[p]
  BY <1>1, <1>4 DEF BecomingZombie
<1>6. CASE l \in fs.loan_start[p]
  <2>1. l \in fs.loan_mid[p]
    BY <1>1, <1>2, <1>6 DEF LiveLoans
  <2> QED BY <1>3, <1>5, <2>1
<1>7. CASE At(m, p).op = "borrow" /\ l = At(m, p).loan
  <2>1. l \in {c[2] : c \in Issued(At(m, p))}
    <3>1. Issued(At(m, p)) = {<<At(m, p).dst, At(m, p).loan>>}
      BY <1>7 DEF Issued
    <3>2. <<At(m, p).dst, At(m, p).loan>>[2] = l
      BY <1>7
    <3> QED BY <3>1, <3>2
  <2> QED BY <1>3, <1>5, <2>1
<1> QED
  BY <1>6, <1>7 DEF fs

(* A loan is of one variable.                                                *)
LEMMA LoanOfOne ==
  ASSUME NEW m \in Bodies, NEW v, NEW w, NEW l, l \in LoansOn(m, v), l \in LoansOn(m, w)
  PROVE  v = w
<1>1. PICK k \in Locations(m) : At(m, k).op = "borrow" /\ At(m, k).src = v /\ At(m, k).loan = l
  BY DEF LoansOn
<1>2. PICK j \in Locations(m) : At(m, j).op = "borrow" /\ At(m, j).src = w /\ At(m, j).loan = l
  BY DEF LoansOn
<1>3. k = j
  BY <1>1, <1>2, ReferencesAssumption DEF IsReferenceBody
<1> QED
  BY <1>1, <1>2, <1>3

LEMMA AccessNotLent ==
  ASSUME NEW m \in Bodies, NEW p \in Locations(m), At(m, p).src # NoVar, NEW l \in LoansOn(m, At(m, p).src)
  PROVE  l \notin loan_facts(m).loan_start[p]
  BY ReferencesAssumption DEF AccessesAllowed, Accesses

---------------------------------------------------------------------------
(* Where a run is right: no live reference depends on a loan it does not     *)
(* own, and a loan that a variable is lent for is live, is among those `due` *)
(* to be ended, or dies unseen.                                              *)
Sound(m, loc) ==
  \A v \in LiveAt(m, loc) : v \notin ended /\ \A l \in carries[v] \cap open : <<v, l>> \in Owned(m, loc)
SoundOrTorn(m, loc) == Sound(m, loc) \/ Torn(m)
LentRight(m, loc, due) ==
  \A v \in Var : \A l \in lent[v] \cap open : l \in loan_facts(m).loan_start[loc] \/ l \in due \/ Unseen(m, l)
LentAfter(m, p, due) ==
  \A v \in Var : \A l \in lent[v] \cap open :
    (l \in Remains(m, p) /\ (l \in EndedAt(m, p) => l \in due)) \/ Unseen(m, l)

RunTyped(m) ==
  /\ ended \subseteq Var
  /\ carries \in [Var -> SUBSET Loans(m)]
  /\ lent \in [Var -> SUBSET Loans(m)]
  /\ \A v \in Var : lent[v] \subseteq LoansOn(m, v)
  /\ \A e \in stray : Unseen(m, e[2])

\* What a statement or an effect that goes as `prim` does.
Does(node, prim) ==
  /\ prim.op = "borrow" <=> node.op = "borrow"
  /\ prim.op = "move" <=> node.op = "move"
  /\ prim.op # "end_lft"
  /\ prim.src = node.src /\ prim.dst = node.dst
  /\ prim.op = "borrow" => prim.loan = node.loan

LEMMA GoesSound ==
  ASSUME NEW m \in Bodies, NEW p, NEW s, <<p, s>> \in Edges(m), RunTyped(m), Sound(m, p),
         Does(At(m, p), Prim), RunBorrow \/ RunAssign
  PROVE  Sound(m, s)'
<1> DEFINE node == At(m, p)
<1>1. p \in Locations(m)
  BY EdgesOf
<1>2. IsNode(node)
  BY <1>1, NodesOf
<1>3. /\ node.src \in Var => node.src \in LiveAt(m, p)
      /\ LiveAt(m, s) \subseteq Var
      /\ \A v \in LiveAt(m, s) : v # node.dst => v \in LiveAt(m, p)
  BY LiveCarries
<1>4. /\ \A v \in LiveAt(m, s) : \A l : <<v, l>> \in Owned(m, p) => <<v, l>> \in Owned(m, s)
      /\ node.op \in {"borrow", "move"} /\ node.dst \in LiveAt(m, s) =>
           \A l : <<node.src, l>> \in Owned(m, p) => <<node.dst, l>> \in Owned(m, s)
      /\ node.op = "borrow" /\ node.dst \in LiveAt(m, s) => <<node.dst, node.loan>> \in Owned(m, s)
  BY OwnedCarries
<1> HIDE DEF node
<1>5. /\ Prim.op = "borrow" <=> node.op = "borrow"
      /\ Prim.op = "move" <=> node.op = "move"
      /\ Prim.src = node.src /\ Prim.dst = node.dst /\ (Prim.op = "borrow" => Prim.loan = node.loan)
  BY DEF Does, node
<1>6. \A v \in LiveAt(m, p) : v \notin ended /\ \A l \in carries[v] \cap open : <<v, l>> \in Owned(m, p)
  BY DEF Sound
<1>7. SUFFICES ASSUME NEW v \in LiveAt(m, s)
               PROVE  v \notin ended' /\ \A l \in carries'[v] \cap open' : <<v, l>> \in Owned(m, s)
  BY DEF Sound
<1>8. v \in Var
  BY <1>3
<1>9. CASE RunBorrow
  <2>1. /\ open' = open \cup {node.loan}
        /\ carries' = [w \in Var |-> IF w = node.dst THEN {node.loan} \cup (carries[node.src] \ {node.loan})
                                     ELSE carries[w] \ {node.loan}]
        /\ ended' = IF node.src \in ended THEN ended \cup {node.dst} ELSE ended \ {node.dst}
        /\ node.op = "borrow"
    BY <1>5, <1>9 DEF RunBorrow
  <2>2. node.src \in Var /\ node.dst \in Var
    BY <1>2, <2>1 DEF IsNode
  <2>3. node.src \in LiveAt(m, p) /\ node.src \notin ended
    BY <1>3, <1>6, <2>2
  <2>4. CASE v = node.dst
    <3>1. v \notin ended'
      BY <2>1, <2>3, <2>4
    <3>2. carries'[v] = {node.loan} \cup (carries[node.src] \ {node.loan})
      BY <1>8, <2>1, <2>4
    <3>3. ASSUME NEW l \in carries'[v] \cap open' PROVE <<v, l>> \in Owned(m, s)
      <4>1. CASE l = node.loan
        BY <1>4, <2>1, <2>4, <4>1
      <4>2. CASE l # node.loan
        <5>1. l \in carries[node.src] \cap open
          BY <2>1, <3>2, <3>3, <4>2
        <5>2. <<node.src, l>> \in Owned(m, p)
          BY <1>6, <2>3, <5>1
        <5> QED BY <1>4, <2>1, <2>4, <5>2
      <4> QED BY <4>1, <4>2
    <3> QED BY <3>1, <3>3
  <2>5. CASE v # node.dst
    <3>1. v \in LiveAt(m, p)
      BY <1>3, <2>5
    <3>2. v \notin ended'
      BY <1>6, <2>1, <2>3, <3>1
    <3>3. carries'[v] = carries[v] \ {node.loan}
      BY <1>8, <2>1, <2>5
    <3>4. ASSUME NEW l \in carries'[v] \cap open' PROVE <<v, l>> \in Owned(m, s)
      <4>1. l \in carries[v] \cap open
        BY <2>1, <3>3, <3>4
      <4> QED BY <1>4, <1>6, <3>1, <4>1
    <3> QED BY <3>2, <3>4
  <2> QED BY <2>4, <2>5
<1>10. CASE RunAssign
  <2>1. /\ open' = open
        /\ carries' = [w \in Var |-> IF w # node.dst THEN carries[w]
                                     ELSE IF Prim.op = "move" THEN carries[node.src] ELSE {}]
        /\ ended' = IF Prim.op = "move" /\ node.src \in ended THEN ended \cup {node.dst} ELSE ended \ {node.dst}
    BY <1>5, <1>10 DEF RunAssign
  <2>2. CASE v # node.dst
    <3>1. v \in LiveAt(m, p)
      BY <1>3, <2>2
    <3>2. v \notin ended'
      BY <1>6, <2>1, <2>2, <3>1
    <3>3. carries'[v] = carries[v]
      BY <1>8, <2>1, <2>2
    <3> QED BY <1>4, <1>6, <2>1, <3>1, <3>2, <3>3
  <2>3. CASE v = node.dst /\ Prim.op = "move"
    <3>1. node.op = "move" /\ node.src \in Var
      BY <1>2, <1>5, <2>3 DEF IsNode
    <3>2. node.src \in LiveAt(m, p) /\ node.src \notin ended
      BY <1>3, <1>6, <3>1
    <3>3. v \notin ended'
      BY <2>1, <2>3, <3>2
    <3>4. carries'[v] = carries[node.src]
      BY <1>8, <2>1, <2>3
    <3> QED BY <1>4, <1>6, <2>1, <2>3, <3>1, <3>2, <3>3, <3>4
  <2>4. CASE v = node.dst /\ Prim.op # "move"
    <3>1. carries'[v] = {}
      BY <1>8, <2>1, <2>4
    <3>2. v \notin ended'
      BY <2>1, <2>4
    <3> QED BY <3>1, <3>2
  <2> QED BY <2>2, <2>3, <2>4
<1> QED
  BY <1>9, <1>10
LEMMA GoesLent ==
  ASSUME NEW m \in Bodies, NEW p \in Locations(m), RunTyped(m), LentRight(m, p, {}),
         Does(At(m, p), Prim), RunBorrow \/ RunAssign, NEW due
  PROVE  RunTyped(m)' /\ (EndedAt(m, p) \subseteq due => LentAfter(m, p, due)')
<1> DEFINE node == At(m, p)
<1>1. IsNode(node)
  BY NodesOf
<1>2. \A l \in LoansOn(m, node.src) : node.src # NoVar => l \notin loan_facts(m).loan_start[p]
  BY AccessNotLent
<1>3. ASSUME NEW l, l \notin Killed(m, node), l \in loan_facts(m).loan_start[p] \/ (node.op = "borrow" /\ l = node.loan)
      PROVE  l \in Remains(m, p)
  BY <1>3, LoanStays
<1>4. node.op = "borrow" => node.loan \in LoansOn(m, node.src) /\ node.loan \in Loans(m)
  BY DEF LoansOn, Loans
<1>5. ASSUME NEW l \in Killed(m, node), NEW v \in Var, l \in LoansOn(m, v) PROVE v = node.dst
  <2>1. l \in LoansOn(m, node.dst)
    BY DEF Killed
  <2> QED BY <1>5, <2>1, LoanOfOne
<1> HIDE DEF node
<1>6. /\ Prim.op = "borrow" <=> node.op = "borrow"
      /\ Prim.op = "move" <=> node.op = "move"
      /\ Prim.src = node.src /\ Prim.dst = node.dst /\ (Prim.op = "borrow" => Prim.loan = node.loan)
  BY DEF Does, node
<1>7. \A v \in Var : \A l \in lent[v] \cap open : l \in loan_facts(m).loan_start[p] \/ Unseen(m, l)
  BY DEF LentRight
<1>8. /\ ended \subseteq Var /\ carries \in [Var -> SUBSET Loans(m)] /\ lent \in [Var -> SUBSET Loans(m)]
      /\ \A v \in Var : lent[v] \subseteq LoansOn(m, v)
      /\ \A e \in stray : Unseen(m, e[2])
  BY DEF RunTyped
<1>9. NoVar \notin Var
  BY LoanFactsAssumption
<1>10. CASE RunBorrow
  <2>1. /\ open' = open \cup {node.loan} /\ node.op = "borrow"
        /\ stray' = {e \in stray \cup {<<v, node.loan>> : v \in {w \in Var : node.loan \in lent[w] \cap open}} :
                       e[1] # node.dst}
        /\ carries' = [v \in Var |-> IF v = node.dst THEN {node.loan} \cup (carries[node.src] \ {node.loan})
                                     ELSE carries[v] \ {node.loan}]
        /\ lent' = [v \in Var |-> IF v = node.dst THEN {}
                                  ELSE (lent[v] \ {node.loan}) \cup (IF v = node.src THEN {node.loan} ELSE {})]
        /\ ended' = IF node.src \in ended THEN ended \cup {node.dst} ELSE ended \ {node.dst}
    BY <1>6, <1>10 DEF RunBorrow
  <2>2. node.src \in Var /\ node.dst \in Var /\ node.loan \in LoansOn(m, node.src) /\ node.loan \in Loans(m)
    BY <1>1, <1>4, <2>1 DEF IsNode
  <2>3. ended' \subseteq Var /\ carries' \in [Var -> SUBSET Loans(m)]
    BY <1>8, <2>1, <2>2
  <2>4. lent' \in [Var -> SUBSET Loans(m)] /\ \A v \in Var : lent'[v] \subseteq LoansOn(m, v)
    BY <1>8, <2>1, <2>2
  <2>5. ASSUME NEW e \in stray' PROVE Unseen(m, e[2])
    <3>1. CASE e \in stray
      BY <1>8, <3>1
    <3>2. CASE e \notin stray
      <4>1. PICK v \in Var : e = <<v, node.loan>> /\ node.loan \in lent[v] \cap open
        BY <2>1, <2>5, <3>2
      <4>2. v = node.src
        BY <1>8, <2>2, <4>1, LoanOfOne
      <4>3. node.loan \notin loan_facts(m).loan_start[p]
        BY <1>2, <1>9, <2>2
      <4> QED BY <1>7, <4>1, <4>3
    <3> QED BY <3>1, <3>2
  <2>6. RunTyped(m)'
    BY <2>3, <2>4, <2>5 DEF RunTyped
  <2>7. ASSUME EndedAt(m, p) \subseteq due, NEW v \in Var, NEW l \in lent'[v] \cap open'
        PROVE  (l \in Remains(m, p) /\ (l \in EndedAt(m, p) => l \in due)) \/ Unseen(m, l)
    <3>1. v # node.dst /\ l \in LoansOn(m, v)
      BY <2>1, <2>4, <2>7
    <3>2. l \notin Killed(m, node)
      BY <1>5, <3>1
    <3>3. l = node.loan \/ l \in lent[v] \cap open
      BY <2>1, <2>7
    <3>4. l = node.loan \/ l \in loan_facts(m).loan_start[p] \/ Unseen(m, l)
      BY <1>7, <3>3
    <3>5. l \in Remains(m, p) \/ Unseen(m, l)
      BY <1>3, <2>1, <3>2, <3>4
    <3> QED BY <2>7, <3>5
  <2> QED BY <2>6, <2>7 DEF LentAfter
<1>11. CASE RunAssign
  <2>1. /\ open' = open /\ node.op # "borrow"
        /\ carries' = [v \in Var |-> IF v # node.dst THEN carries[v]
                                     ELSE IF Prim.op = "move" THEN carries[node.src] ELSE {}]
        /\ lent' = [v \in Var |-> IF v = node.dst THEN {} ELSE lent[v]]
        /\ ended' = IF Prim.op = "move" /\ node.src \in ended THEN ended \cup {node.dst} ELSE ended \ {node.dst}
        /\ stray' = {e \in stray : e[1] # node.dst}
    BY <1>6, <1>11 DEF RunAssign
  <2>2. Prim.op = "move" => node.src \in Var /\ node.dst \in Var
    BY <1>1, <1>6 DEF IsNode
  <2>3. ended' \subseteq Var /\ carries' \in [Var -> SUBSET Loans(m)]
    BY <1>8, <2>1, <2>2
  <2>4. lent' \in [Var -> SUBSET Loans(m)] /\ \A v \in Var : lent'[v] \subseteq LoansOn(m, v)
    BY <1>8, <2>1
  <2>5. \A e \in stray' : Unseen(m, e[2])
    BY <1>8, <2>1
  <2>6. RunTyped(m)'
    BY <2>3, <2>4, <2>5 DEF RunTyped
  <2>7. ASSUME EndedAt(m, p) \subseteq due, NEW v \in Var, NEW l \in lent'[v] \cap open'
        PROVE  (l \in Remains(m, p) /\ (l \in EndedAt(m, p) => l \in due)) \/ Unseen(m, l)
    <3>1. v # node.dst /\ l \in LoansOn(m, v) /\ l \in lent[v] \cap open
      BY <2>1, <2>4, <2>7
    <3>2. l \notin Killed(m, node)
      BY <1>5, <3>1
    <3>3. l \in loan_facts(m).loan_start[p] \/ Unseen(m, l)
      BY <1>7, <3>1
    <3>5. l \in Remains(m, p) \/ Unseen(m, l)
      BY <1>3, <3>2, <3>3
    <3> QED BY <2>7, <3>5
  <2> QED BY <2>6, <2>7 DEF LentAfter
<1> QED
  BY <1>10, <1>11

(* Nodes that are not in the code define nothing.                            *)
Skipped(node) == node.dst = NoVar /\ node.op \notin {"borrow", "move"}

LEMMA SkipsSound ==
  ASSUME NEW m \in Bodies, NEW p, NEW s, <<p, s>> \in Edges(m), Sound(m, p), Skipped(At(m, p))
  PROVE  Sound(m, s)
<1>1. /\ LiveAt(m, s) \subseteq Var /\ NoVar \notin Var
      /\ \A v \in LiveAt(m, s) : v # At(m, p).dst => v \in LiveAt(m, p)
  BY LiveCarries, LoanFactsAssumption
<1>2. \A v \in LiveAt(m, s) : v \in LiveAt(m, p)
  BY <1>1 DEF Skipped
<1>3. \A v \in LiveAt(m, s) : \A l : <<v, l>> \in Owned(m, p) => <<v, l>> \in Owned(m, s)
  BY OwnedCarries
<1> QED
  BY <1>2, <1>3 DEF Sound

LEMMA SkipsLent ==
  ASSUME NEW m \in Bodies, NEW p \in Locations(m), LentRight(m, p, {}), Skipped(At(m, p)),
         NEW due, EndedAt(m, p) \subseteq due
  PROVE  LentAfter(m, p, due)
<1>1. Killed(m, At(m, p)) = {}
  BY DEF Skipped, Killed
<1>2. ASSUME NEW v \in Var, NEW l \in lent[v] \cap open
      PROVE  (l \in Remains(m, p) /\ (l \in EndedAt(m, p) => l \in due)) \/ Unseen(m, l)
  <2>1. l \in loan_facts(m).loan_start[p] \/ Unseen(m, l)
    BY DEF LentRight
  <2>2. l \in Remains(m, p) \/ Unseen(m, l)
    BY <1>1, <2>1, LoanStays
  <2> QED BY <2>2
<1> QED
  BY <1>2 DEF LentAfter

LEMMA ArrivesLent ==
  ASSUME NEW m \in Bodies, NEW s \in Locations(m), NEW p \in get_loc_predecessors(m, s), LentAfter(m, p, {})
  PROVE  LentRight(m, s, IF IsTerminator(m, s) THEN {} ELSE dying_loans(m, loan_facts(m), s))
<1> DEFINE due == IF IsTerminator(m, s) THEN {} ELSE dying_loans(m, loan_facts(m), s)
<1>1. ~IsTerminator(m, s) => due = dying_loans(m, loan_facts(m), s)
  OBVIOUS
<1> HIDE DEF due
<1>2. ASSUME NEW v \in Var, NEW l \in lent[v] \cap open
      PROVE  l \in loan_facts(m).loan_start[s] \/ l \in due \/ Unseen(m, l)
  <2>1. (l \in Remains(m, p) /\ l \notin EndedAt(m, p)) \/ Unseen(m, l)
    BY DEF LentAfter
  <2> QED BY <1>1, <2>1, LoanGoesOn
<1>3. LentRight(m, s, due)
  BY <1>2 DEF LentRight
<1> QED
  BY <1>3 DEF due

(* The ending of a loan.                                                     *)
LEMMA EndsSound ==
  ASSUME NEW m \in Bodies, NEW loc, SoundOrTorn(m, loc), RunEndLft, LiveAt(m, loc) \subseteq Var,
         \A v \in LiveAt(m, loc) : <<v, Prim.loan>> \in Owned(m, loc) => Torn(m)
  PROVE  SoundOrTorn(m, loc)'
<1>1. /\ ended' = ended \cup {v \in Var : Prim.loan \in carries[v] \cap open}
      /\ open' = open \ {Prim.loan} /\ carries' = carries
  BY DEF RunEndLft
<1>2. SUFFICES ASSUME ~Torn(m) PROVE Sound(m, loc)'
  BY DEF SoundOrTorn
<1>3. Sound(m, loc)
  BY <1>2 DEF SoundOrTorn
<1> QED
  BY <1>1, <1>2, <1>3 DEF Sound

LEMMA EndsLent ==
  ASSUME NEW m, NEW loc, RunEndLft, RunTyped(m), NEW due, NEW later, due \subseteq later \cup {Prim.loan}
  PROVE  /\ RunTyped(m)'
         /\ LentRight(m, loc, due) => LentRight(m, loc, later)'
         /\ LentAfter(m, loc, due) => LentAfter(m, loc, later)'
<1>1. /\ ended' = ended \cup {v \in Var : Prim.loan \in carries[v] \cap open}
      /\ open' = open \ {Prim.loan} /\ carries' = carries /\ lent' = lent /\ stray' = stray
  BY DEF RunEndLft
<1>2. RunTyped(m)'
  BY <1>1 DEF RunTyped
<1>3. \A v \in Var : \A l \in lent'[v] \cap open' : l \in lent[v] \cap open /\ l # Prim.loan
  BY <1>1
<1>4. LentRight(m, loc, due) => LentRight(m, loc, later)'
  BY <1>3 DEF LentRight
<1>5. LentAfter(m, loc, due) => LentAfter(m, loc, later)'
  BY <1>3 DEF LentAfter
<1> QED
  BY <1>2, <1>4, <1>5

(* What defines nothing and ends nothing changes nothing.                    *)
LEMMA PlainKeeps ==
  ASSUME NEW m, RunAssign, Prim.dst = NoVar, Prim.op # "move", RunTyped(m)
  PROVE  UNCHANGED <<open, carries, lent, ended>> /\ RunTyped(m)'
<1>1. /\ open' = open
      /\ carries' = [v \in Var |-> IF v # NoVar THEN carries[v] ELSE {}]
      /\ lent' = [v \in Var |-> IF v = NoVar THEN {} ELSE lent[v]]
      /\ ended' = ended \ {NoVar}
      /\ stray' = {e \in stray : e[1] # NoVar}
  BY DEF RunAssign
<1>2. NoVar \notin Var
  BY LoanFactsAssumption
<1>3. /\ ended \subseteq Var /\ carries \in [Var -> SUBSET Loans(m)] /\ lent \in [Var -> SUBSET Loans(m)]
  BY DEF RunTyped
<1>4. carries' = [v \in Var |-> carries[v]] /\ lent' = [v \in Var |-> lent[v]]
  BY <1>1, <1>2
<1>5. carries' = carries /\ lent' = lent /\ ended' = ended
  BY <1>1, <1>2, <1>3, <1>4
<1> QED
  BY <1>1, <1>5 DEF RunTyped

---------------------------------------------------------------------------
(* What the code of a block is made of, and where each part is.              *)
EndingsBefore(m, loc) == IF IsTerminator(m, loc) THEN <<>> ELSE generate_endlfts(dying_loans(m, loan_facts(m), loc))
EndingsAfter(m, b) ==
  IF EmitsEndings(m[b].term)
  THEN generate_endlfts(get_loans_dying_at(m, loan_facts(m), <<b, TermIndex(m, b)>>, FALSE)) ELSE <<>>
Effect(m, b) == effect_of(m[b].term)
Goes(m, b, i) == translate_statement(m[b].stmts[i])
BlockPrims(m, b) ==
  FlattenSeq([i \in 1..Len(m[b].stmts) |->
                generate_endlfts(dying_loans(m, loan_facts(m), <<b, i>>)) \o translate_statement(m[b].stmts[i])])
    \o (Effect(m, b) \o EndingsAfter(m, b))

\* What neither defines, uses nor ends anything.
Idle(prim) == prim.op \notin {"end_lft", "borrow", "move"} /\ prim.src = NoVar /\ prim.dst = NoVar

Layout(m, b, off, prims) ==
  /\ off \in [0..Len(m[b].stmts) -> Nat]
  /\ \A k \in 1..off[0] : Idle(prims[k])
  /\ \A i \in 1..Len(m[b].stmts) :
       /\ off[i] = off[i - 1] + Len(EndingsBefore(m, <<b, i>>)) + Len(Goes(m, b, i))
       /\ \A j \in 1..Len(EndingsBefore(m, <<b, i>>)) : prims[off[i - 1] + j] = EndingsBefore(m, <<b, i>>)[j]
       /\ Goes(m, b, i) # <<>> => prims[off[i - 1] + Len(EndingsBefore(m, <<b, i>>)) + 1] = m[b].stmts[i]
  /\ Len(prims) = off[Len(m[b].stmts)] + Len(Effect(m, b)) + Len(EndingsAfter(m, b))
  /\ Effect(m, b) # <<>> => prims[off[Len(m[b].stmts)] + 1] = Effect(m, b)[1]
  /\ \A j \in 1..Len(EndingsAfter(m, b)) : prims[off[Len(m[b].stmts)] + Len(Effect(m, b)) + j] = EndingsAfter(m, b)[j]

LEMMA JoinedParts ==
  ASSUME NEW S, NEW s \in Seq(S), NEW t \in Seq(S)
  PROVE  /\ s \o t \in Seq(S) /\ Len(s \o t) = Len(s) + Len(t) /\ Len(s) \in Nat /\ Len(t) \in Nat
         /\ \A i \in 1..Len(s) : (s \o t)[i] = s[i]
         /\ \A i \in 1..Len(t) : (s \o t)[Len(s) + i] = t[i]
  OBVIOUS

\* The endings are of the loans that die.
LEMMA EndingsOfLoans ==
  ASSUME NEW m \in Bodies, NEW T \in SUBSET Loans(m)
  PROVE  /\ generate_endlfts(T) \in Seq({EndLft(l) : l \in T}) /\ Len(generate_endlfts(T)) \in Nat
         /\ \A l \in T : \E i \in 1..Len(generate_endlfts(T)) : generate_endlfts(T)[i] = EndLft(l)
<1>1. IsFiniteSet(T) /\ T \subseteq Nat
  BY LoansFinite, FS_Subset
<1> QED
  BY <1>1, EndingsOf

LEMMA BeforeOf ==
  ASSUME NEW m \in Bodies, NEW loc \in Locations(m)
  PROVE  /\ EndingsBefore(m, loc) \in Seq({EndLft(l) : l \in dying_loans(m, loan_facts(m), loc)}) /\ Len(EndingsBefore(m, loc)) \in Nat
         /\ IsTerminator(m, loc) => Len(EndingsBefore(m, loc)) = 0
         /\ ~IsTerminator(m, loc) =>
              \A l \in dying_loans(m, loan_facts(m), loc) : \E i \in 1..Len(EndingsBefore(m, loc)) : EndingsBefore(m, loc)[i] = EndLft(l)
<1>1. dying_loans(m, loan_facts(m), loc) \in SUBSET Loans(m)
  <2>1. TRUE \in BOOLEAN
    OBVIOUS
  <2> QED BY <2>1, DyingTyped
<1> DEFINE T == dying_loans(m, loan_facts(m), loc)
<1> HIDE DEF T
<1>2. /\ generate_endlfts(T) \in Seq({EndLft(l) : l \in T}) /\ Len(generate_endlfts(T)) \in Nat
      /\ \A l \in T : \E i \in 1..Len(generate_endlfts(T)) : generate_endlfts(T)[i] = EndLft(l)
  BY <1>1, EndingsOfLoans DEF T
<1>3. CASE IsTerminator(m, loc)
  <2>1. EndingsBefore(m, loc) = <<>>
    BY <1>3 DEF EndingsBefore
  <2> QED BY <1>3, <2>1
<1>4. CASE ~IsTerminator(m, loc)
  <2>1. EndingsBefore(m, loc) = generate_endlfts(T)
    BY <1>4 DEF EndingsBefore, T
  <2> QED BY <1>2, <1>4, <2>1 DEF T
<1> QED
  BY <1>3, <1>4

LEMMA AfterOf ==
  ASSUME NEW m \in Bodies, NEW b \in DOMAIN m
  PROVE  /\ <<b, TermIndex(m, b)>> \in Locations(m)
         /\ IsTerminator(m, <<b, TermIndex(m, b)>>) /\ At(m, <<b, TermIndex(m, b)>>) = m[b].term
         /\ EndingsAfter(m, b) \in Seq({EndLft(l) : l \in get_loans_dying_at(m, loan_facts(m), <<b, TermIndex(m, b)>>, FALSE)})
         /\ Len(EndingsAfter(m, b)) \in Nat
         /\ \A l \in EndedAt(m, <<b, TermIndex(m, b)>>) : \E i \in 1..Len(EndingsAfter(m, b)) : EndingsAfter(m, b)[i] = EndLft(l)
<1> DEFINE p == <<b, TermIndex(m, b)>>
           T == get_loans_dying_at(m, loan_facts(m), p, FALSE)
<1>1. p \in Locations(m) /\ p[1] = b /\ p[2] = TermIndex(m, b)
  <2>1. Len(m[b].stmts) \in Nat /\ \A i \in 1..(Len(m[b].stmts) + 1) : <<b, i>> \in Locations(m)
    BY LocationsOf
  <2>2. Len(m[b].stmts) + 1 \in 1..(Len(m[b].stmts) + 1)
    BY <2>1
  <2> QED BY <2>1, <2>2 DEF TermIndex
<1> HIDE DEF p
<1>2. IsTerminator(m, p) /\ At(m, p) = m[b].term
  BY <1>1 DEF IsTerminator, At
<1>3. T \in SUBSET Loans(m)
  <2>1. FALSE \in BOOLEAN
    OBVIOUS
  <2> QED BY <1>1, <2>1, DyingTyped
<1> HIDE DEF T
<1>4. /\ generate_endlfts(T) \in Seq({EndLft(l) : l \in T}) /\ Len(generate_endlfts(T)) \in Nat
      /\ \A l \in T : \E i \in 1..Len(generate_endlfts(T)) : generate_endlfts(T)[i] = EndLft(l)
  BY <1>3, EndingsOfLoans
<1>5. CASE EmitsEndings(m[b].term)
  <2>1. EndingsAfter(m, b) = generate_endlfts(T)
    BY <1>5 DEF EndingsAfter, T, p
  <2>2. EndedAt(m, p) = T
    BY <1>2, <1>5 DEF EndedAt, T
  <2>3. /\ EndingsAfter(m, b) \in Seq({EndLft(l) : l \in T}) /\ Len(EndingsAfter(m, b)) \in Nat
        /\ \A l \in EndedAt(m, p) : \E i \in 1..Len(EndingsAfter(m, b)) : EndingsAfter(m, b)[i] = EndLft(l)
    BY <1>4, <2>1, <2>2
  <2> QED BY <1>1, <1>2, <2>3 DEF T, p
<1>6. CASE ~EmitsEndings(m[b].term)
  <2>1. EndingsAfter(m, b) = <<>>
    BY <1>6 DEF EndingsAfter
  <2>2. EndedAt(m, p) = {}
    BY <1>2, <1>6 DEF EndedAt
  <2>3. /\ EndingsAfter(m, b) \in Seq({EndLft(l) : l \in T}) /\ Len(EndingsAfter(m, b)) \in Nat
        /\ \A l \in EndedAt(m, p) : \E i \in 1..Len(EndingsAfter(m, b)) : EndingsAfter(m, b)[i] = EndLft(l)
    BY <2>1, <2>2
  <2> QED BY <1>1, <1>2, <2>3 DEF T, p
<1> QED
  BY <1>5, <1>6

LEMMA EffectOf ==
  ASSUME NEW m \in Bodies, NEW b \in DOMAIN m
  PROVE  /\ Len(Effect(m, b)) \in 0..1 /\ Effect(m, b) \in Seq(ToSet(Effect(m, b)))
         /\ Effect(m, b) = <<>> => Skipped(m[b].term)
         /\ Effect(m, b) # <<>> => \/ Does(m[b].term, Effect(m, b)[1])
                                   \/ Idle(Effect(m, b)[1]) /\ Skipped(m[b].term)
<1> DEFINE term == m[b].term
<1>1. IsEnd(term)
  BY AfterOf, NodesOf
<1> HIDE DEF term
<1>2. term.op \notin {"borrow", "move"} /\ (term.kind \notin {"call", "discriminant"} => Skipped(term))
  BY <1>1 DEF IsEnd, Skipped
<1>3. CASE term.kind \in {"call", "discriminant"}
  <2> DEFINE prim == [op |-> "call", src |-> term.src, dst |-> term.dst]
  <2>1. effect_of(term) = <<prim>>
    BY <1>3 DEF effect_of
  <2>2. Does(term, prim)
    BY <1>2 DEF Does
  <2> HIDE DEF prim
  <2>3. Len(<<prim>>) = 1 /\ <<prim>>[1] = prim /\ <<prim>> \in Seq(ToSet(<<prim>>)) /\ <<prim>> # <<>>
    BY DEF ToSet
  <2> QED BY <2>1, <2>2, <2>3 DEF Effect, term
<1>4. CASE term.kind = "return"
  <2> DEFINE prim == Plain("extend_lft")
  <2>1. effect_of(term) = <<prim>>
    BY <1>4 DEF effect_of
  <2>2. Idle(prim) /\ Skipped(term)
    BY <1>2, <1>4 DEF Idle, Plain
  <2> HIDE DEF prim
  <2>3. Len(<<prim>>) = 1 /\ <<prim>>[1] = prim /\ <<prim>> \in Seq(ToSet(<<prim>>)) /\ <<prim>> # <<>>
    BY DEF ToSet
  <2> QED BY <2>1, <2>2, <2>3 DEF Effect, term
<1>5. CASE term.kind = "assert"
  <2> DEFINE prim == Plain("assert")
  <2>1. effect_of(term) = <<prim>>
    BY <1>5 DEF effect_of
  <2>2. Idle(prim) /\ Skipped(term)
    BY <1>2, <1>5 DEF Idle, Plain
  <2> HIDE DEF prim
  <2>3. Len(<<prim>>) = 1 /\ <<prim>>[1] = prim /\ <<prim>> \in Seq(ToSet(<<prim>>)) /\ <<prim>> # <<>>
    BY DEF ToSet
  <2> QED BY <2>1, <2>2, <2>3 DEF Effect, term
<1>6. CASE term.kind \notin {"call", "discriminant", "return", "assert"}
  <2>1. effect_of(term) = <<>>
    BY <1>6 DEF effect_of
  <2>2. Len(<<>>) = 0 /\ <<>> \in Seq(ToSet(<<>>))
    OBVIOUS
  <2> QED BY <1>2, <1>6, <2>1, <2>2 DEF Effect, term
<1> QED
  BY <1>3, <1>4, <1>5, <1>6

LEMMA SeqWithin ==
  ASSUME NEW S, NEW T, S \subseteq T, NEW s \in Seq(S)
  PROVE  s \in Seq(T)
  OBVIOUS

LEMMA PieceOf ==
  ASSUME NEW m \in Bodies, NEW b \in DOMAIN m, NEW i \in 1..Len(m[b].stmts)
  PROVE  /\ <<b, i>> \in Locations(m) /\ ~IsTerminator(m, <<b, i>>) /\ At(m, <<b, i>>) = m[b].stmts[i]
         /\ EndingsBefore(m, <<b, i>>) = generate_endlfts(dying_loans(m, loan_facts(m), <<b, i>>))
         /\ dying_loans(m, loan_facts(m), <<b, i>>) \subseteq Loans(m)
         /\ m[b].stmts[i] \in ToSet(m[b].stmts)
         /\ Goes(m, b, i) = IF m[b].stmts[i].op \in {"spec", "nop"} THEN <<>> ELSE <<m[b].stmts[i]>>
<1> DEFINE loc == <<b, i>>
<1>1. /\ m[b].stmts \in Seq(ToSet(m[b].stmts)) /\ Len(m[b].stmts) \in Nat
      /\ \A k \in 1..(Len(m[b].stmts) + 1) : <<b, k>> \in Locations(m)
  BY LocationsOf
<1>2. i \in 1..(Len(m[b].stmts) + 1) /\ i # Len(m[b].stmts) + 1
  BY <1>1
<1>3. loc \in Locations(m) /\ loc[1] = b /\ loc[2] = i
  BY <1>1, <1>2
<1> HIDE DEF loc
<1>4. ~IsTerminator(m, loc) /\ At(m, loc) = m[b].stmts[i]
  BY <1>2, <1>3 DEF IsTerminator, TermIndex, At
<1>5. dying_loans(m, loan_facts(m), loc) \subseteq Loans(m)
  <2>1. TRUE \in BOOLEAN
    OBVIOUS
  <2> QED BY <1>3, <2>1, DyingTyped
<1>6. EndingsBefore(m, loc) = generate_endlfts(dying_loans(m, loan_facts(m), loc))
  BY <1>4 DEF EndingsBefore
<1>7. m[b].stmts[i] \in ToSet(m[b].stmts)
  BY <1>1
<1> QED
  BY <1>3, <1>4, <1>5, <1>6, <1>7 DEF loc, Goes, translate_statement

LEMMA GoesOf ==
  ASSUME NEW m \in Bodies, NEW b \in DOMAIN m, NEW i \in 1..Len(m[b].stmts)
  PROVE  /\ <<b, i>> \in Locations(m)
         /\ Goes(m, b, i) = IF m[b].stmts[i].op \in {"spec", "nop"} THEN <<>> ELSE <<m[b].stmts[i]>>
<1>1. Len(m[b].stmts) \in Nat /\ \A k \in 1..(Len(m[b].stmts) + 1) : <<b, k>> \in Locations(m)
  BY LocationsOf
<1>2. i \in 1..(Len(m[b].stmts) + 1) /\ i # Len(m[b].stmts) + 1
  BY <1>1
<1>3. PICK loc : loc = <<b, i>>
  OBVIOUS
<1>4. loc[1] = b /\ loc[2] = i
  BY <1>3
<1>5. ~IsTerminator(m, loc) /\ At(m, loc) = m[b].stmts[i]
  BY <1>2, <1>4 DEF IsTerminator, TermIndex, At
<1> QED BY <1>1, <1>2, <1>3, <1>5 DEF Goes, translate_statement

LEMMA LayoutOf ==
  ASSUME NEW m \in Bodies, NEW b \in DOMAIN m, NEW P, NEW live \in Seq(P), \A prim \in P : Idle(prim)
  PROVE  /\ \E off : Layout(m, b, off, live \o BlockPrims(m, b))
         /\ live = <<>> => live \o BlockPrims(m, b) = BlockPrims(m, b)
<1> DEFINE n == Len(m[b].stmts)
           piece(i) == generate_endlfts(dying_loans(m, loan_facts(m), <<b, i>>)) \o translate_statement(m[b].stmts[i])
           seqs == [i \in 1..n |-> piece(i)]
           L == {EndLft(l) : l \in Loans(m)}
           S == L \cup ToSet(m[b].stmts) \cup ToSet(Effect(m, b)) \cup P
           E == Effect(m, b)
           A == EndingsAfter(m, b)
           bef(i) == EndingsBefore(m, <<b, i>>)
           g(i) == Goes(m, b, i)
<1>1. n \in Nat
  BY LocationsOf
<1>2. ASSUME NEW i \in 1..n
      PROVE  /\ bef(i) \in Seq(S) /\ Len(bef(i)) \in Nat
             /\ g(i) \in Seq(S) /\ Len(g(i)) \in Nat /\ (g(i) # <<>> => g(i)[1] = m[b].stmts[i] /\ Len(g(i)) = 1)
             /\ piece(i) = bef(i) \o g(i)
  <2>1. /\ <<b, i>> \in Locations(m) /\ bef(i) = generate_endlfts(dying_loans(m, loan_facts(m), <<b, i>>))
        /\ dying_loans(m, loan_facts(m), <<b, i>>) \subseteq Loans(m)
        /\ m[b].stmts[i] \in S
        /\ g(i) = IF m[b].stmts[i].op \in {"spec", "nop"} THEN <<>> ELSE <<m[b].stmts[i]>>
    <3>1. i \in 1..Len(m[b].stmts)
      OBVIOUS
    <3>2. ToSet(m[b].stmts) \subseteq S
      OBVIOUS
    <3> HIDE DEF S
    <3>3. /\ <<b, i>> \in Locations(m)
          /\ EndingsBefore(m, <<b, i>>) = generate_endlfts(dying_loans(m, loan_facts(m), <<b, i>>))
          /\ dying_loans(m, loan_facts(m), <<b, i>>) \subseteq Loans(m)
          /\ m[b].stmts[i] \in ToSet(m[b].stmts)
          /\ Goes(m, b, i) = IF m[b].stmts[i].op \in {"spec", "nop"} THEN <<>> ELSE <<m[b].stmts[i]>>
      BY <3>1, PieceOf
    <3> QED BY <3>2, <3>3
  <2>2. bef(i) \in Seq({EndLft(l) : l \in dying_loans(m, loan_facts(m), <<b, i>>)}) /\ Len(bef(i)) \in Nat
    BY <2>1, BeforeOf
  <2>3. {EndLft(l) : l \in dying_loans(m, loan_facts(m), <<b, i>>)} \subseteq S
    BY <2>1
  <2>4. bef(i) \in Seq(S)
    <3> HIDE DEF S, bef
    <3>1. PICK T, s : T = {EndLft(l) : l \in dying_loans(m, loan_facts(m), <<b, i>>)} /\ s = bef(i)
      OBVIOUS
    <3>2. T \subseteq S /\ s \in Seq(T)
      BY <2>2, <2>3, <3>1
    <3>3. s \in Seq(S)
      BY <3>2, SeqWithin
    <3> QED BY <3>1, <3>3
  <2>5. /\ g(i) \in Seq(S) /\ Len(g(i)) \in Nat /\ (g(i) # <<>> => g(i)[1] = m[b].stmts[i] /\ Len(g(i)) = 1)
    <3> DEFINE x == m[b].stmts[i]
    <3>1. x \in S /\ g(i) \in {<<>>, <<x>>}
      BY <2>1
    <3> HIDE DEF x, S, g
    <3>2. g(i) \in Seq(S) /\ Len(g(i)) \in Nat /\ (g(i) # <<>> => g(i)[1] = x /\ Len(g(i)) = 1)
      <4>1. CASE g(i) = <<>>
        BY <4>1
      <4>2. CASE g(i) = <<x>>
        <5>1. PICK y : y = x
          OBVIOUS
        <5>2. <<y>> \in Seq({y}) /\ Len(<<y>>) = 1 /\ <<y>>[1] = y
          OBVIOUS
        <5>3. {y} \subseteq S
          BY <3>1, <5>1
        <5>4. <<y>> \in Seq(S)
          BY <5>2, <5>3, SeqWithin
        <5> QED BY <4>2, <5>1, <5>2, <5>4
      <4> QED BY <3>1, <4>1, <4>2
    <3> QED BY <3>2 DEF x
  <2> QED BY <2>1, <2>2, <2>4, <2>5 DEF Goes
<1>3. A \in Seq(S) /\ Len(A) \in Nat /\ E \in Seq(S) /\ Len(E) \in Nat /\ live \in Seq(S)
  <2>1. /\ A \in Seq({EndLft(l) : l \in get_loans_dying_at(m, loan_facts(m), <<b, TermIndex(m, b)>>, FALSE)})
        /\ Len(A) \in Nat /\ <<b, TermIndex(m, b)>> \in Locations(m)
    BY AfterOf
  <2>2. get_loans_dying_at(m, loan_facts(m), <<b, TermIndex(m, b)>>, FALSE) \subseteq Loans(m)
    <3>1. FALSE \in BOOLEAN
      OBVIOUS
    <3> QED BY <2>1, <3>1, DyingTyped
  <2>3. {EndLft(l) : l \in get_loans_dying_at(m, loan_facts(m), <<b, TermIndex(m, b)>>, FALSE)} \subseteq S
    BY <2>2
  <2>4. Len(E) \in 0..1 /\ E \in Seq(ToSet(E)) /\ ToSet(E) \subseteq S /\ P \subseteq S
    BY EffectOf
  <2> HIDE DEF A, E, S
  <2>5. A \in Seq(S)
    BY <2>1, <2>3, SeqWithin
  <2>6. E \in Seq(S) /\ live \in Seq(S)
    BY <2>4, SeqWithin
  <2>7. Len(E) \in Nat
    BY <2>4
  <2> QED BY <2>1, <2>5, <2>6, <2>7
<1>4. seqs \in Seq(Seq(S)) /\ Len(seqs) = n /\ \A i \in 1..n : seqs[i] = bef(i) \o g(i)
  <2> HIDE DEF S, bef, g, piece
  <2>1. \A i \in 1..n : piece(i) \in Seq(S)
    <3> TAKE i \in 1..n
    <3>1. bef(i) \in Seq(S) /\ g(i) \in Seq(S) /\ piece(i) = bef(i) \o g(i)
      BY <1>2
    <3> QED BY <3>1, JoinedParts
  <2>2. seqs \in [1..n -> Seq(S)]
    BY <2>1
  <2>3. \A i \in 1..n : seqs[i] = piece(i)
    OBVIOUS
  <2> DEFINE X == Seq(S)
  <2>4. seqs \in [1..n -> X]
    BY <2>2
  <2> HIDE DEF seqs, n, X
  <2>5. seqs \in Seq(X) /\ Len(seqs) = n
    BY <1>1, <2>4
  <2> QED BY <1>2, <2>3, <2>5 DEF X
<1>5. BlockPrims(m, b) = FlattenSeq(seqs) \o (E \o A)
  BY DEF BlockPrims
<1> HIDE DEF S, seqs, E, A, bef, g, piece
<1>6. PICK of \in [0..Len(seqs) -> Nat] :
        /\ of[0] = 0
        /\ \A i \in 1..Len(seqs) : of[i] = of[i - 1] + Len(seqs[i])
        /\ Len(FlattenSeq(seqs)) = of[Len(seqs)]
        /\ \A i \in 1..Len(seqs) : \A j \in 1..Len(seqs[i]) :
             of[i - 1] + j \in 1..Len(FlattenSeq(seqs)) /\ FlattenSeq(seqs)[of[i - 1] + j] = seqs[i][j]
  BY <1>4, FlattenAt
<1> DEFINE F == FlattenSeq(seqs)
           all == live \o (F \o (E \o A))
           off == [i \in 0..n |-> Len(live) + of[i]]
<1>7. F \in Seq(S)
  BY <1>4, FlattenElements
<1> HIDE DEF F
<1>8. /\ E \o A \in Seq(S) /\ F \o (E \o A) \in Seq(S) /\ all \in Seq(S)
      /\ Len(live) \in Nat /\ Len(F) \in Nat
      /\ Len(all) = Len(live) + (Len(F) + (Len(E) + Len(A)))
      /\ \A k \in 1..Len(live) : all[k] = live[k]
      /\ \A k \in 1..Len(F) : all[Len(live) + k] = F[k]
      /\ \A k \in 1..Len(E) : all[Len(live) + (Len(F) + k)] = E[k]
      /\ \A k \in 1..Len(A) : all[Len(live) + (Len(F) + (Len(E) + k))] = A[k]
  <2> DEFINE EA == E \o A
             FEA == F \o EA
  <2>1. EA \in Seq(S) /\ Len(EA) = Len(E) + Len(A)
        /\ (\A k \in 1..Len(E) : EA[k] = E[k]) /\ \A k \in 1..Len(A) : EA[Len(E) + k] = A[k]
    BY <1>3, JoinedParts
  <2> HIDE DEF EA
  <2>2. FEA \in Seq(S) /\ Len(FEA) = Len(F) + Len(EA) /\ Len(F) \in Nat
        /\ (\A k \in 1..Len(F) : FEA[k] = F[k]) /\ \A k \in 1..Len(EA) : FEA[Len(F) + k] = EA[k]
    <3>1. F \in Seq(S) /\ EA \in Seq(S)
      BY <1>7, <2>1
    <3> QED BY <3>1, JoinedParts
  <2> HIDE DEF FEA
  <2>3. all = live \o FEA
    BY DEF FEA, EA
  <2> HIDE DEF all
  <2>4. all \in Seq(S) /\ Len(all) = Len(live) + Len(FEA) /\ Len(live) \in Nat
        /\ (\A k \in 1..Len(live) : all[k] = live[k]) /\ \A k \in 1..Len(FEA) : all[Len(live) + k] = FEA[k]
    <3>1. live \in Seq(S) /\ FEA \in Seq(S)
      BY <1>3, <2>2
    <3> QED BY <2>3, <3>1, JoinedParts
  <2>5. ASSUME NEW k \in 1..Len(F) PROVE all[Len(live) + k] = F[k]
    <3>1. k \in 1..Len(FEA)
      BY <1>3, <2>1, <2>2
    <3> QED BY <2>2, <2>4, <3>1
  <2>6. ASSUME NEW k \in 1..Len(E) PROVE all[Len(live) + (Len(F) + k)] = E[k]
    <3>1. k \in 1..Len(EA) /\ Len(F) + k \in 1..Len(FEA)
      BY <1>3, <2>1, <2>2
    <3> QED BY <2>1, <2>2, <2>4, <3>1
  <2>7. ASSUME NEW k \in 1..Len(A) PROVE all[Len(live) + (Len(F) + (Len(E) + k))] = A[k]
    <3>1. Len(E) + k \in 1..Len(EA) /\ Len(F) + (Len(E) + k) \in 1..Len(FEA)
      BY <1>3, <2>1, <2>2
    <3> QED BY <2>1, <2>2, <2>4, <3>1
  <2> QED BY <2>1, <2>2, <2>4, <2>5, <2>6, <2>7 DEF EA, FEA
<1> HIDE DEF all
<1>9. /\ off \in [0..n -> Nat] /\ off[0] = Len(live) /\ off[n] = Len(live) + Len(F)
      /\ \A i \in 1..n : off[i] = Len(live) + of[i] /\ off[i - 1] = Len(live) + of[i - 1]
                         /\ of[i] \in Nat /\ of[i - 1] \in Nat
  <2> HIDE DEF n
  <2>1. \A i \in 0..n : of[i] \in Nat /\ off[i] = Len(live) + of[i]
    BY <1>4, <1>6
  <2>2. 0 \in 0..n /\ n \in 0..n /\ \A i \in 1..n : i \in 0..n /\ i - 1 \in 0..n
    BY <1>1
  <2> QED BY <1>4, <1>6, <1>8, <2>1, <2>2 DEF F
<1> HIDE DEF off
<1>10. \A k \in 1..off[0] : Idle(all[k])
  <2> TAKE k \in 1..off[0]
  <2>1. k \in 1..Len(live)
    BY <1>9
  <2>2. live[k] \in P
    BY <2>1
  <2> QED BY <1>8, <2>1, <2>2
<1>11. ASSUME NEW i \in 1..n
       PROVE  /\ off[i] = off[i - 1] + Len(bef(i)) + Len(g(i))
              /\ \A j \in 1..Len(bef(i)) : all[off[i - 1] + j] = bef(i)[j]
              /\ g(i) # <<>> => all[off[i - 1] + Len(bef(i)) + 1] = m[b].stmts[i]
  <2> DEFINE s == seqs[i]
             x == bef(i)
             y == g(i)
  <2>1. x \in Seq(S) /\ y \in Seq(S) /\ Len(x) \in Nat /\ Len(y) \in Nat /\ s = x \o y
        /\ (y # <<>> => y[1] = m[b].stmts[i] /\ Len(y) = 1)
    BY <1>2, <1>4
  <2>2. /\ of[i] = of[i - 1] + Len(s)
        /\ \A j \in 1..Len(s) : of[i - 1] + j \in 1..Len(F) /\ F[of[i - 1] + j] = s[j]
    BY <1>4, <1>6 DEF F
  <2> HIDE DEF s, x, y
  <2>3. Len(s) = Len(x) + Len(y) /\ (\A j \in 1..Len(x) : s[j] = x[j]) /\ \A j \in 1..Len(y) : s[Len(x) + j] = y[j]
    BY <2>1, JoinedParts
  <2>a. /\ off[i] = Len(live) + of[i] /\ off[i - 1] = Len(live) + of[i - 1]
        /\ of[i] \in Nat /\ of[i - 1] \in Nat /\ Len(live) \in Nat /\ Len(x) \in Nat /\ Len(y) \in Nat
    BY <1>8, <1>9, <2>1
  <2>b. of[i] = of[i - 1] + (Len(x) + Len(y))
    BY <2>2, <2>3
  <2>c. \A a, c, d, e \in Nat : a + (c + (d + e)) = (a + c) + d + e
    OBVIOUS
  <2>d. \A a, d \in Nat : a + d + 1 = a + (d + 1)
    OBVIOUS
  <2>e. off[i - 1] \in Nat /\ Len(x) \in Nat
    BY <2>a
  <2>4. off[i] = off[i - 1] + Len(x) + Len(y)
    BY ONLY <2>a, <2>b, <2>c
  <2>5. ASSUME NEW j \in 1..Len(s) PROVE all[off[i - 1] + j] = s[j]
    <3> DEFINE k == of[i - 1] + j
    <3>1. k \in 1..Len(F) /\ F[k] = s[j]
      BY <2>2
    <3>2. off[i - 1] + j = Len(live) + k
      <4>1. j \in Nat
        BY <2>3, <2>a
      <4>2. \A v, w, z \in Nat : (v + w) + z = v + (w + z)
        OBVIOUS
      <4> QED BY ONLY <2>a, <4>1, <4>2 DEF k
    <3> HIDE DEF k
    <3> QED BY <1>8, <3>1, <3>2
  <2>6. ASSUME NEW j \in 1..Len(x) PROVE all[off[i - 1] + j] = x[j]
    <3>1. j \in 1..Len(s)
      BY <2>1, <2>3
    <3> QED BY <2>3, <2>5, <3>1
  <2>7. ASSUME y # <<>> PROVE all[off[i - 1] + Len(x) + 1] = m[b].stmts[i]
    <3>1. y[1] = m[b].stmts[i] /\ Len(y) = 1
      BY <2>1, <2>7
    <3> DEFINE j == Len(x) + 1
    <3>2. j \in 1..Len(s) /\ s[j] = y[1]
      BY <2>1, <2>3, <3>1
    <3>3. off[i - 1] + Len(x) + 1 = off[i - 1] + j
      BY ONLY <2>d, <2>e DEF j
    <3> HIDE DEF j
    <3>4. all[off[i - 1] + j] = s[j]
      BY <2>5, <3>2
    <3> QED BY <3>1, <3>2, <3>3, <3>4
  <2> QED BY <2>4, <2>6, <2>7 DEF x, y
<1>12. Len(all) = off[n] + Len(E) + Len(A)
  BY <1>3, <1>8, <1>9
<1>13. E # <<>> => all[off[n] + 1] = E[1]
  <2> SUFFICES ASSUME E # <<>> PROVE all[off[n] + 1] = E[1]
    OBVIOUS
  <2>1. 1 \in 1..Len(E)
    BY <1>3
  <2>2. off[n] + 1 = Len(live) + (Len(F) + 1)
    BY <1>8, <1>9
  <2> QED BY <1>8, <2>1, <2>2
<1>14. ASSUME NEW j \in 1..Len(A) PROVE all[off[n] + Len(E) + j] = A[j]
  <2>1. off[n] + Len(E) + j = Len(live) + (Len(F) + (Len(E) + j))
    BY <1>3, <1>8, <1>9
  <2> QED BY <1>8, <2>1
<1>15. Layout(m, b, off, all)
  BY <1>9, <1>10, <1>11, <1>12, <1>13, <1>14 DEF Layout, E, A, bef, g
<1>16. all = live \o BlockPrims(m, b) /\ BlockPrims(m, b) \in Seq(S)
  BY <1>5, <1>8 DEF all, F
<1>17. \A s \in Seq(S) : <<>> \o s = s
  OBVIOUS
<1> QED
  BY <1>15, <1>16, <1>17

---------------------------------------------------------------------------
(* How far a run is in a block after `k` statements of its code: some of the *)
(* endings before a statement or the terminator are done, or some of those   *)
(* after the terminator, and the run is right there.                         *)
Unended(endings, j) == {endings[q].loan : q \in (j + 1)..Len(endings)}
Right(m, loc, j) == SoundOrTorn(m, loc) /\ LentRight(m, loc, Unended(EndingsBefore(m, loc), j))
Gone(m, b, j) ==
  /\ \A t \in ToSet(jumps_of(m[b].term)) : SoundOrTorn(m, <<t, 1>>)
  /\ LentAfter(m, <<b, TermIndex(m, b)>>, Unended(EndingsAfter(m, b), j))
Reached(m, b, off, k) ==
  \/ k < off[0] /\ Right(m, <<b, 1>>, 0)
  \/ \E i \in 1..TermIndex(m, b) : \E j \in 0..Len(EndingsBefore(m, <<b, i>>)) : k = off[i - 1] + j /\ Right(m, <<b, i>>, j)
  \/ \E j \in 0..Len(EndingsAfter(m, b)) : k = off[Len(m[b].stmts)] + Len(Effect(m, b)) + j /\ Gone(m, b, j)

LEMMA LeftOf ==
  ASSUME NEW T, NEW s \in Seq({EndLft(l) : l \in T})
  PROVE  /\ Unended(s, Len(s)) = {}
         /\ \A l \in T : (\E i \in 1..Len(s) : s[i] = EndLft(l)) => l \in Unended(s, 0)
         /\ \A j \in 0..(Len(s) - 1) : /\ j + 1 \in 1..Len(s) /\ s[j + 1].loan \in T /\ s[j + 1] = EndLft(s[j + 1].loan)
                                       /\ Unended(s, j) \subseteq Unended(s, j + 1) \cup {s[j + 1].loan}
<1>1. Len(s) \in Nat /\ \A i \in 1..Len(s) : s[i] \in {EndLft(l) : l \in T}
  OBVIOUS
<1>2. \A l : EndLft(l).loan = l
  BY DEF EndLft
<1>3. \A i \in 1..Len(s) : s[i].loan \in T /\ s[i] = EndLft(s[i].loan)
  <2> TAKE i \in 1..Len(s)
  <2>1. PICK l \in T : s[i] = EndLft(l)
    BY <1>1
  <2> QED BY <1>2, <2>1
<1>4. Unended(s, Len(s)) = {}
  <2>1. (Len(s) + 1)..Len(s) = {}
    BY <1>1
  <2> QED BY <2>1 DEF Unended
<1>5. ASSUME NEW l \in T, NEW i \in 1..Len(s), s[i] = EndLft(l) PROVE l \in Unended(s, 0)
  <2>1. s[i].loan = l /\ i \in (0 + 1)..Len(s)
    BY <1>2, <1>5
  <2> QED BY <2>1 DEF Unended
<1>6. ASSUME NEW j \in 0..(Len(s) - 1)
      PROVE  j + 1 \in 1..Len(s) /\ Unended(s, j) \subseteq Unended(s, j + 1) \cup {s[j + 1].loan}
  <2>1. j + 1 \in 1..Len(s) /\ (j + 1)..Len(s) = {j + 1} \cup ((j + 1) + 1)..Len(s)
    BY <1>1
  <2> QED BY <2>1 DEF Unended
<1> QED
  BY <1>3, <1>4, <1>5, <1>6

LEMMA Arrives ==
  ASSUME NEW m \in Bodies, NEW s \in Locations(m), NEW p \in get_loc_predecessors(m, s)
  PROVE  /\ SoundOrTorn(m, s) /\ LentAfter(m, p, {}) => Right(m, s, 0)
         /\ (SoundOrTorn(m, s) /\ LentAfter(m, p, {}) => Right(m, s, 0))'
<1>1. SoundOrTorn(m, s) /\ LentAfter(m, p, {}) => Right(m, s, 0)
  <2> SUFFICES ASSUME SoundOrTorn(m, s), LentAfter(m, p, {}) PROVE Right(m, s, 0)
    OBVIOUS
  <2> DEFINE T == dying_loans(m, loan_facts(m), s)
             due == IF IsTerminator(m, s) THEN {} ELSE T
             B == EndingsBefore(m, s)
  <2>1. LentRight(m, s, due)
    BY ArrivesLent
  <2>2. B \in Seq({EndLft(l) : l \in T}) /\ (~IsTerminator(m, s) => \A l \in T : \E i \in 1..Len(B) : B[i] = EndLft(l))
    BY BeforeOf
  <2> HIDE DEF T, B
  <2>3. due \subseteq Unended(B, 0)
    BY <2>2, LeftOf
  <2> HIDE DEF due
  <2>4. LentRight(m, s, Unended(B, 0))
    BY <2>1, <2>3 DEF LentRight
  <2> QED BY <2>4 DEF Right, B
<1>2. (SoundOrTorn(m, s) /\ LentAfter(m, p, {}) => Right(m, s, 0))'
  BY <1>1, PTL
<1> QED
  BY <1>1, <1>2

LEMMA NextIn ==
  ASSUME NEW m \in Bodies, NEW b \in DOMAIN m, NEW i \in 1..Len(m[b].stmts)
  PROVE  /\ <<b, i>> \in Locations(m) /\ <<b, i + 1>> \in Locations(m)
         /\ <<b, i>> \in get_loc_predecessors(m, <<b, i + 1>>)
         /\ <<<<b, i>>, <<b, i + 1>>>> \in Edges(m)
         /\ EndedAt(m, <<b, i>>) = {}
<1> DEFINE p == <<b, i>>
           s == <<b, i + 1>>
<1>1. /\ Len(m[b].stmts) \in Nat
      /\ \A k \in 1..(Len(m[b].stmts) + 1) : <<b, k>> \in Locations(m)
  BY LocationsOf
<1>2. i + 1 \in 1..(Len(m[b].stmts) + 1) /\ i + 1 > 1 /\ (i + 1) - 1 = i
  BY <1>1
<1>3. p \in Locations(m) /\ ~IsTerminator(m, p)
  BY PieceOf
<1>4. s \in Locations(m) /\ s[1] = b /\ s[2] = i + 1
  BY <1>1, <1>2
<1> HIDE DEF s
<1>5. p \in get_loc_predecessors(m, s)
  BY <1>2, <1>4 DEF get_loc_predecessors
<1>6. <<p, s>> \in Edges(m)
  BY <1>4, <1>5, PredecessorsOf
<1>7. EndedAt(m, p) = {}
  BY <1>3 DEF EndedAt
<1> QED
  BY <1>3, <1>4, <1>5, <1>6, <1>7 DEF s

\* Past a statement that is not in the code.
LEMMA StatementSkipped ==
  ASSUME NEW m \in Bodies, NEW b \in DOMAIN m, NEW i \in 1..Len(m[b].stmts), Goes(m, b, i) = <<>>,
         Right(m, <<b, i>>, Len(EndingsBefore(m, <<b, i>>)))
  PROVE  Right(m, <<b, i + 1>>, 0)
<1> DEFINE p == <<b, i>>
           s == <<b, i + 1>>
<1>1. /\ p \in Locations(m) /\ s \in Locations(m) /\ p \in get_loc_predecessors(m, s) /\ <<p, s>> \in Edges(m)
      /\ EndedAt(m, p) = {}
  BY NextIn
<1>2. /\ At(m, p) = m[b].stmts[i] /\ ~IsTerminator(m, p) /\ m[b].stmts[i].op \in {"spec", "nop"}
  <2>1. <<m[b].stmts[i]>> # <<>>
    OBVIOUS
  <2> QED BY <2>1, PieceOf
<1> HIDE DEF p, s
<1>3. IsStatement(At(m, p))
  BY <1>1, <1>2, NodesOf
<1>4. Skipped(At(m, p))
  BY <1>2, <1>3 DEF IsStatement, Skipped
<1>5. SoundOrTorn(m, p) /\ LentRight(m, p, {})
  <2>1. Right(m, p, Len(EndingsBefore(m, p)))
    BY DEF p
  <2>2. EndingsBefore(m, p) \in Seq({EndLft(l) : l \in dying_loans(m, loan_facts(m), p)})
    BY <1>1, BeforeOf
  <2>3. Unended(EndingsBefore(m, p), Len(EndingsBefore(m, p))) = {}
    BY <2>2, LeftOf
  <2> QED BY <2>1, <2>3 DEF Right
<1>6. SoundOrTorn(m, s)
  BY <1>1, <1>4, <1>5, SkipsSound DEF SoundOrTorn
<1>7. LentAfter(m, p, {})
  BY <1>1, <1>4, <1>5, SkipsLent
<1>8. Right(m, s, 0)
  BY <1>1, <1>6, <1>7, Arrives
<1> QED
  BY <1>8 DEF s

LEMMA EffectSkipped ==
  ASSUME NEW m \in Bodies, NEW b \in DOMAIN m, Skipped(m[b].term), Right(m, <<b, TermIndex(m, b)>>, 0)
  PROVE  Gone(m, b, 0)
<1> DEFINE p == <<b, TermIndex(m, b)>>
<1>1. /\ p \in Locations(m) /\ IsTerminator(m, p) /\ At(m, p) = m[b].term
      /\ EndingsAfter(m, b) \in Seq({EndLft(l) : l \in get_loans_dying_at(m, loan_facts(m), p, FALSE)})
      /\ \A l \in EndedAt(m, p) : \E i \in 1..Len(EndingsAfter(m, b)) : EndingsAfter(m, b)[i] = EndLft(l)
  BY AfterOf
<1>2. \A t \in ToSet(jumps_of(m[b].term)) : <<p, <<t, 1>>>> \in Edges(m)
  BY JumpsLead
<1> HIDE DEF p
<1>3. SoundOrTorn(m, p) /\ LentRight(m, p, {})
  <2>1. Right(m, p, 0)
    BY DEF p
  <2>2. Len(EndingsBefore(m, p)) = 0 /\ EndingsBefore(m, p) \in Seq({EndLft(l) : l \in dying_loans(m, loan_facts(m), p)})
    BY <1>1, BeforeOf
  <2>3. Unended(EndingsBefore(m, p), 0) = {}
    BY <2>2, LeftOf
  <2> QED BY <2>1, <2>3 DEF Right
<1>4. EndedAt(m, p) \subseteq Unended(EndingsAfter(m, b), 0)
  <2>1. EndedAt(m, p) \subseteq get_loans_dying_at(m, loan_facts(m), p, FALSE)
    BY DEF EndedAt
  <2> QED BY <1>1, <2>1, LeftOf
<1>5. LentAfter(m, p, Unended(EndingsAfter(m, b), 0))
  BY <1>1, <1>3, <1>4, SkipsLent
<1>6. ASSUME NEW t \in ToSet(jumps_of(m[b].term)) PROVE SoundOrTorn(m, <<t, 1>>)
  BY <1>1, <1>2, <1>3, SkipsSound DEF SoundOrTorn
<1> QED
  BY <1>5, <1>6 DEF Gone, p

\* The next thing in the code, if there is one.
Settled(m, b, off, k) ==
  \/ k < off[0] /\ Right(m, <<b, 1>>, 0)
  \/ \E i \in 1..Len(m[b].stmts) : \E j \in 0..(Len(EndingsBefore(m, <<b, i>>)) - 1) :
       k = off[i - 1] + j /\ Right(m, <<b, i>>, j)
  \/ \E i \in 1..Len(m[b].stmts) :
       /\ Goes(m, b, i) # <<>> /\ k = off[i - 1] + Len(EndingsBefore(m, <<b, i>>))
       /\ Right(m, <<b, i>>, Len(EndingsBefore(m, <<b, i>>)))
  \/ k = off[Len(m[b].stmts)] /\ Effect(m, b) # <<>> /\ Right(m, <<b, TermIndex(m, b)>>, 0)
  \/ \E j \in 0..Len(EndingsAfter(m, b)) : k = off[Len(m[b].stmts)] + Len(Effect(m, b)) + j /\ Gone(m, b, j)

LEMMA Settles ==
  ASSUME NEW m \in Bodies, NEW b \in DOMAIN m, NEW off, NEW prims, Layout(m, b, off, prims), NEW k,
         Reached(m, b, off, k)
  PROVE  Settled(m, b, off, k)
<1> DEFINE n == Len(m[b].stmts)
           bef(i) == Len(EndingsBefore(m, <<b, i>>))
           on(i, j) == k = off[i - 1] + j /\ Right(m, <<b, i>>, j)
           I == {i \in 1..(n + 1) : \E j \in 0..bef(i) : on(i, j)}
<1>1. n \in Nat /\ TermIndex(m, b) = n + 1
  BY LocationsOf DEF TermIndex
<1>2. \A i \in 1..(n + 1) : bef(i) \in Nat
  <2> TAKE i \in 1..(n + 1)
  <2>1. <<b, i>> \in Locations(m)
    BY LocationsOf
  <2> QED BY <2>1, BeforeOf
<1>3. CASE k < off[0] /\ Right(m, <<b, 1>>, 0)
  BY <1>3 DEF Settled
<1>4. CASE \E j \in 0..Len(EndingsAfter(m, b)) : k = off[Len(m[b].stmts)] + Len(Effect(m, b)) + j /\ Gone(m, b, j)
  BY <1>4 DEF Settled
<1>5. CASE I # {}
  <2>1. IsFiniteSet(I) /\ I \subseteq Nat
    <3> DEFINE J == 1..(n + 1)
    <3>1. IsFiniteSet(J) /\ J \subseteq Nat
      <4>1. 1 \in Int /\ n + 1 \in Int
        BY <1>1
      <4> QED BY <1>1, <4>1, FS_Interval
    <3>2. I \subseteq J
      OBVIOUS
    <3> HIDE DEF I, J
    <3> QED BY <3>1, <3>2, FS_Subset
  <2>2. PICK i \in I : \A x \in I : x <= i
    <3> HIDE DEF I
    <3> QED BY <1>5, <2>1, GreatestNumber
  <2>3. i \in 1..(n + 1)
    OBVIOUS
  <2>4. PICK j \in 0..bef(i) : on(i, j)
    OBVIOUS
  <2>5. CASE i \in 1..n /\ j \in 0..(bef(i) - 1)
    BY <2>4, <2>5 DEF Settled
  <2>6. CASE i \in 1..n /\ j = bef(i) /\ Goes(m, b, i) # <<>>
    BY <2>4, <2>6 DEF Settled
  <2>7. CASE i \in 1..n /\ j = bef(i) /\ Goes(m, b, i) = <<>>
    <3>1. Right(m, <<b, i + 1>>, 0)
      BY <2>4, <2>7, StatementSkipped
    <3>2. off[i] = off[i - 1] + bef(i) + Len(Goes(m, b, i)) /\ off[i] \in Nat /\ off[i - 1] \in Nat
      <4>1. i \in 0..n /\ i - 1 \in 0..n
        BY <1>1, <2>7
      <4> QED BY <2>7, <4>1 DEF Layout
    <3>3. Len(Goes(m, b, i)) = 0
      BY <2>7
    <3>4. k = off[(i + 1) - 1] + 0 /\ i + 1 \in 1..(n + 1) /\ 0 \in 0..bef(i + 1)
      <4>1. i + 1 \in 1..(n + 1) /\ (i + 1) - 1 = i
        BY <1>1, <2>7
      <4>2. k = off[i]
        BY <1>2, <2>3, <2>4, <2>7, <3>2, <3>3
      <4>3. bef(i + 1) \in Nat
        BY <1>2, <4>1
      <4> HIDE DEF bef
      <4> QED BY <3>2, <4>1, <4>2, <4>3
    <3>5. i + 1 \in I
      BY <3>1, <3>4
    <3> HIDE DEF I
    <3> QED BY <2>2, <2>3, <3>5
  <2>8. CASE i = n + 1
    <3>1. j = 0
      <4>1. <<b, i>> \in Locations(m) /\ IsTerminator(m, <<b, i>>)
        BY <1>1, <2>8, AfterOf
      <4>2. bef(i) = 0
        BY <4>1, BeforeOf
      <4> QED BY <4>2
    <3>2. i - 1 = n /\ off[n] \in Nat
      <4>1. n \in 0..n /\ i - 1 = n
        BY <1>1, <2>8
      <4>2. off \in [0..n -> Nat]
        BY DEF Layout
      <4> HIDE DEF n
      <4> QED BY <4>1, <4>2
    <3>3. k = off[n] /\ Right(m, <<b, TermIndex(m, b)>>, 0)
      BY <1>1, <2>4, <2>8, <3>1, <3>2
    <3>4. CASE Effect(m, b) # <<>>
      BY <3>3, <3>4 DEF Settled
    <3>5. CASE Effect(m, b) = <<>>
      <4>1. Gone(m, b, 0)
        BY <3>3, <3>5, EffectOf, EffectSkipped
      <4>2. Len(Effect(m, b)) = 0 /\ 0 \in 0..Len(EndingsAfter(m, b))
        BY <3>5, AfterOf
      <4>3. k = off[n] + Len(Effect(m, b)) + 0
        BY <3>2, <3>3, <4>2
      <4> QED BY <4>1, <4>2, <4>3 DEF Settled
    <3> QED BY <3>4, <3>5
  <2>9. i \in 1..n \/ i = n + 1
    BY <1>1, <2>3
  <2>10. j = bef(i) \/ j \in 0..(bef(i) - 1)
    <3>1. bef(i) \in Nat
      BY <1>2, <2>3
    <3> HIDE DEF bef
    <3> QED BY <2>4, <3>1
  <2> QED BY <2>5, <2>6, <2>7, <2>8, <2>9, <2>10
<1> QED
  BY <1>1, <1>3, <1>4, <1>5 DEF Reached

---------------------------------------------------------------------------
(* One statement of the code.                                                *)
LEMMA IdleKeeps ==
  ASSUME NEW m, NEW b, Idle(Prim), RunEndLft \/ RunBorrow \/ RunAssign, RunTyped(m)
  PROVE  /\ RunTyped(m)'
         /\ \A loc, j : Right(m, loc, j) => Right(m, loc, j)'
         /\ \A j : Gone(m, b, j) => Gone(m, b, j)'
<1>1. RunAssign
  BY DEF RunEndLft, RunBorrow, Idle
<1>2. UNCHANGED <<open, carries, lent, ended>> /\ RunTyped(m)'
  BY <1>1, PlainKeeps DEF Idle
<1>3. ASSUME NEW loc PROVE SoundOrTorn(m, loc) => SoundOrTorn(m, loc)'
  BY <1>2 DEF SoundOrTorn, Sound
<1>4. ASSUME NEW loc, NEW due
      PROVE  /\ LentRight(m, loc, due) => LentRight(m, loc, due)'
             /\ LentAfter(m, loc, due) => LentAfter(m, loc, due)'
  BY <1>2 DEF LentRight, LentAfter
<1>5. ASSUME NEW loc, NEW j, Right(m, loc, j) PROVE Right(m, loc, j)'
  BY <1>3, <1>4, <1>5 DEF Right
<1>6. ASSUME NEW j, Gone(m, b, j) PROVE Gone(m, b, j)'
  BY <1>3, <1>4, <1>6 DEF Gone
<1> QED
  BY <1>2, <1>5, <1>6

LEMMA EndsBefore ==
  ASSUME NEW m \in Bodies, NEW loc \in Locations(m), NEW j \in 0..(Len(EndingsBefore(m, loc)) - 1),
         Prim = EndingsBefore(m, loc)[j + 1], RunEndLft \/ RunBorrow \/ RunAssign, RunTyped(m), Right(m, loc, j)
  PROVE  RunTyped(m)' /\ Right(m, loc, j + 1)'
<1> DEFINE s == EndingsBefore(m, loc)
           T == dying_loans(m, loan_facts(m), loc)
<1>1. s \in Seq({EndLft(l) : l \in T})
  BY BeforeOf
<1> HIDE DEF s, T
<1>2. Prim.loan \in T /\ Prim = EndLft(Prim.loan) /\ Unended(s, j) \subseteq Unended(s, j + 1) \cup {Prim.loan}
  <2>1. Prim = s[j + 1] /\ j \in 0..(Len(s) - 1)
    BY DEF s
  <2>2. \A i \in 0..(Len(s) - 1) :
          /\ i + 1 \in 1..Len(s) /\ s[i + 1].loan \in T /\ s[i + 1] = EndLft(s[i + 1].loan)
          /\ Unended(s, i) \subseteq Unended(s, i + 1) \cup {s[i + 1].loan}
    BY <1>1, LeftOf
  <2>3. /\ s[j + 1].loan \in T /\ s[j + 1] = EndLft(s[j + 1].loan)
        /\ Unended(s, j) \subseteq Unended(s, j + 1) \cup {s[j + 1].loan}
    BY <2>1, <2>2
  <2> QED BY <2>1, <2>3
<1>3. RunEndLft
  BY <1>2 DEF RunBorrow, RunAssign, EndLft
<1>4. SoundOrTorn(m, loc) /\ LentRight(m, loc, Unended(s, j))
  BY DEF Right, s
<1>5. LiveAt(m, loc) \subseteq Var
  <2>1. LiveOf(m) \in SUBSET (Locations(m) \X Var)
    BY LiveLeast
  <2> QED BY <2>1, FromRelation DEF LiveAt
<1>6. \A v \in LiveAt(m, loc) : <<v, Prim.loan>> \in Owned(m, loc) => Torn(m)
  BY <1>2, EndsTorn DEF T
<1>7. SoundOrTorn(m, loc)'
  BY <1>3, <1>4, <1>5, <1>6, EndsSound
<1>8. RunTyped(m)' /\ LentRight(m, loc, Unended(s, j + 1))'
  BY <1>2, <1>3, <1>4, EndsLent
<1> QED
  BY <1>7, <1>8 DEF Right, s

LEMMA EndsAfter ==
  ASSUME NEW m \in Bodies, NEW b \in DOMAIN m, NEW j \in 0..(Len(EndingsAfter(m, b)) - 1),
         Prim = EndingsAfter(m, b)[j + 1], RunEndLft \/ RunBorrow \/ RunAssign, RunTyped(m), Gone(m, b, j)
  PROVE  RunTyped(m)' /\ Gone(m, b, j + 1)'
<1> DEFINE s == EndingsAfter(m, b)
           p == <<b, TermIndex(m, b)>>
           T == get_loans_dying_at(m, loan_facts(m), p, FALSE)
<1>1. s \in Seq({EndLft(l) : l \in T})
  BY AfterOf
<1> HIDE DEF s, T, p
<1>2. Prim.loan \in T /\ Prim = EndLft(Prim.loan) /\ Unended(s, j) \subseteq Unended(s, j + 1) \cup {Prim.loan}
  <2>1. Prim = s[j + 1] /\ j \in 0..(Len(s) - 1)
    BY DEF s
  <2>2. \A i \in 0..(Len(s) - 1) :
          /\ i + 1 \in 1..Len(s) /\ s[i + 1].loan \in T /\ s[i + 1] = EndLft(s[i + 1].loan)
          /\ Unended(s, i) \subseteq Unended(s, i + 1) \cup {s[i + 1].loan}
    BY <1>1, LeftOf
  <2>3. /\ s[j + 1].loan \in T /\ s[j + 1] = EndLft(s[j + 1].loan)
        /\ Unended(s, j) \subseteq Unended(s, j + 1) \cup {s[j + 1].loan}
    BY <2>1, <2>2
  <2> QED BY <2>1, <2>3
<1>3. RunEndLft
  BY <1>2 DEF RunBorrow, RunAssign, EndLft
<1>4. (\A t \in ToSet(jumps_of(m[b].term)) : SoundOrTorn(m, <<t, 1>>)) /\ LentAfter(m, p, Unended(s, j))
  BY DEF Gone, s, p
<1>5. LiveOf(m) \in SUBSET (Locations(m) \X Var)
  BY LiveLeast
<1>6. ASSUME NEW t \in ToSet(jumps_of(m[b].term)) PROVE SoundOrTorn(m, <<t, 1>>)'
  <2>1. LiveAt(m, <<t, 1>>) \subseteq Var
    BY <1>5, FromRelation DEF LiveAt
  <2>2. \A v \in LiveAt(m, <<t, 1>>) : <<v, Prim.loan>> \in Owned(m, <<t, 1>>) => Torn(m)
    BY <1>2, EndsTornAtTerminator DEF T, p
  <2> QED BY <1>3, <1>4, <2>1, <2>2, EndsSound
<1>7. RunTyped(m)' /\ LentAfter(m, p, Unended(s, j + 1))'
  BY <1>2, <1>3, <1>4, EndsLent
<1> QED
  BY <1>6, <1>7 DEF Gone, s, p

LEMMA StatementGoes ==
  ASSUME NEW m \in Bodies, NEW b \in DOMAIN m, NEW i \in 1..Len(m[b].stmts),
         Prim = m[b].stmts[i], RunEndLft \/ RunBorrow \/ RunAssign, RunTyped(m),
         Right(m, <<b, i>>, Len(EndingsBefore(m, <<b, i>>)))
  PROVE  RunTyped(m)' /\ Right(m, <<b, i + 1>>, 0)'
<1> DEFINE p == <<b, i>>
           s == <<b, i + 1>>
<1>1. /\ p \in Locations(m) /\ s \in Locations(m) /\ p \in get_loc_predecessors(m, s) /\ <<p, s>> \in Edges(m)
      /\ EndedAt(m, p) = {}
  BY NextIn
<1>a. ~IsTerminator(m, p) /\ At(m, p) = m[b].stmts[i]
  BY PieceOf
<1> HIDE DEF p, s
<1>2. IsStatement(At(m, p))
  BY <1>1, <1>a, NodesOf
<1>3. Does(At(m, p), Prim) /\ (RunBorrow \/ RunAssign)
  BY <1>a, <1>2 DEF IsStatement, Does, RunEndLft
<1>4. SoundOrTorn(m, p) /\ LentRight(m, p, {})
  <2>1. Right(m, p, Len(EndingsBefore(m, p)))
    BY DEF p
  <2>2. EndingsBefore(m, p) \in Seq({EndLft(l) : l \in dying_loans(m, loan_facts(m), p)})
    BY <1>1, BeforeOf
  <2>3. Unended(EndingsBefore(m, p), Len(EndingsBefore(m, p))) = {}
    BY <2>2, LeftOf
  <2> QED BY <2>1, <2>3 DEF Right
<1>5. SoundOrTorn(m, s)'
  BY <1>1, <1>3, <1>4, GoesSound DEF SoundOrTorn
<1>6. RunTyped(m)' /\ LentAfter(m, p, {})'
  <2>1. RunTyped(m)' /\ (EndedAt(m, p) \subseteq {} => LentAfter(m, p, {})')
    BY <1>1, <1>3, <1>4, GoesLent
  <2> QED BY <1>1, <2>1
<1>7. (SoundOrTorn(m, s) /\ LentAfter(m, p, {}) => Right(m, s, 0))'
  BY <1>1, Arrives
<1>8. Right(m, s, 0)'
  BY <1>5, <1>6, <1>7
<1> QED
  BY <1>6, <1>8 DEF s

LEMMA EffectGoes ==
  ASSUME NEW m \in Bodies, NEW b \in DOMAIN m, Effect(m, b) # <<>>,
         Prim = Effect(m, b)[1], RunEndLft \/ RunBorrow \/ RunAssign, RunTyped(m),
         Right(m, <<b, TermIndex(m, b)>>, 0)
  PROVE  RunTyped(m)' /\ Gone(m, b, 0)'
<1>1. CASE Does(m[b].term, Prim)
  <2> DEFINE p == <<b, TermIndex(m, b)>>
  <2>1. /\ p \in Locations(m) /\ IsTerminator(m, p) /\ At(m, p) = m[b].term
        /\ EndingsAfter(m, b) \in Seq({EndLft(l) : l \in get_loans_dying_at(m, loan_facts(m), p, FALSE)})
        /\ \A l \in EndedAt(m, p) : \E i \in 1..Len(EndingsAfter(m, b)) : EndingsAfter(m, b)[i] = EndLft(l)
    BY AfterOf
  <2>2. \A t \in ToSet(jumps_of(m[b].term)) : <<p, <<t, 1>>>> \in Edges(m)
    BY JumpsLead
  <2> HIDE DEF p
  <2>3. SoundOrTorn(m, p) /\ LentRight(m, p, {})
    <3>1. Right(m, p, 0)
      BY DEF p
    <3>2. Len(EndingsBefore(m, p)) = 0 /\ EndingsBefore(m, p) \in Seq({EndLft(l) : l \in dying_loans(m, loan_facts(m), p)})
      BY <2>1, BeforeOf
    <3>3. Unended(EndingsBefore(m, p), 0) = {}
      BY <3>2, LeftOf
    <3> QED BY <3>1, <3>3 DEF Right
  <2>4. EndedAt(m, p) \subseteq Unended(EndingsAfter(m, b), 0)
    <3>1. EndedAt(m, p) \subseteq get_loans_dying_at(m, loan_facts(m), p, FALSE)
      BY DEF EndedAt
    <3> QED BY <2>1, <3>1, LeftOf
  <2>5. Does(At(m, p), Prim) /\ (RunBorrow \/ RunAssign)
    BY <1>1, <2>1 DEF Does, RunEndLft
  <2>6. RunTyped(m)' /\ LentAfter(m, p, Unended(EndingsAfter(m, b), 0))'
    <3>1. RunTyped(m)' /\ (EndedAt(m, p) \subseteq Unended(EndingsAfter(m, b), 0) => LentAfter(m, p, Unended(EndingsAfter(m, b), 0))')
      BY <2>1, <2>3, <2>5, GoesLent
    <3> QED BY <2>4, <3>1
  <2>7. ASSUME NEW t \in ToSet(jumps_of(m[b].term)) PROVE SoundOrTorn(m, <<t, 1>>)'
    <3> DEFINE s == <<t, 1>>
    <3>1. <<p, s>> \in Edges(m)
      BY <2>2
    <3> HIDE DEF s
    <3>2. SoundOrTorn(m, s)'
      BY <2>3, <2>5, <3>1, GoesSound DEF SoundOrTorn
    <3> QED BY <3>2 DEF s
  <2> QED BY <2>6, <2>7 DEF Gone, p
<1>2. CASE Idle(Prim) /\ Skipped(m[b].term)
  <2>1. Gone(m, b, 0)
    BY <1>2, EffectSkipped
  <2> QED BY <1>2, <2>1, IdleKeeps
<1> QED
  BY <1>1, <1>2, EffectOf

LEMMA RunReaches ==
  ASSUME NEW m \in Bodies, NEW b \in DOMAIN m, NEW off, NEW prims, Layout(m, b, off, prims),
         NEW k \in Nat, k < Len(prims), Prim = prims[k + 1], RunEndLft \/ RunBorrow \/ RunAssign,
         RunTyped(m), Reached(m, b, off, k)
  PROVE  RunTyped(m)' /\ Reached(m, b, off, k + 1)'
<1> DEFINE n == Len(m[b].stmts)
           bef(i) == Len(EndingsBefore(m, <<b, i>>))
           e == Len(Effect(m, b))
           a == Len(EndingsAfter(m, b))
<1>1. /\ n \in Nat /\ TermIndex(m, b) = n + 1 /\ off \in [0..n -> Nat] /\ e \in 0..1 /\ a \in Nat
      /\ off[n] \in Nat /\ off[0] \in Nat
      /\ \A i \in 1..(n + 1) : bef(i) \in Nat /\ off[i - 1] \in Nat
  <2>1. n \in Nat /\ TermIndex(m, b) = n + 1 /\ off \in [0..n -> Nat]
    BY LocationsOf DEF TermIndex, Layout
  <2>2. e \in 0..1 /\ a \in Nat
    BY EffectOf, AfterOf
  <2>3. ASSUME NEW i \in 1..(n + 1) PROVE bef(i) \in Nat /\ off[i - 1] \in Nat
    <3>1. <<b, i>> \in Locations(m)
      BY LocationsOf
    <3>2. i - 1 \in 0..n
      BY <2>1
    <3> HIDE DEF n
    <3> QED BY <2>1, <3>1, <3>2, BeforeOf
  <2>4. n \in 0..n /\ 0 \in 0..n
    BY <2>1
  <2> HIDE DEF n, bef, e, a
  <2> QED BY <2>1, <2>2, <2>3, <2>4
<1>2. Settled(m, b, off, k)
  BY Settles
<1>3. CASE k < off[0] /\ Right(m, <<b, 1>>, 0)
  <2>1. k + 1 \in 1..off[0]
    BY <1>1, <1>3
  <2>2. Idle(Prim)
    BY <2>1 DEF Layout
  <2>3. RunTyped(m)' /\ Right(m, <<b, 1>>, 0)'
    BY <1>3, <2>2, IdleKeeps
  <2>4. k + 1 < off[0] \/ k + 1 = off[1 - 1] + 0
    BY <1>1, <2>1
  <2>5. 1 \in 1..TermIndex(m, b) /\ 0 \in 0..bef(1)
    BY <1>1
  <2>6. Reached(m, b, off, k + 1)'
    BY <2>3, <2>4, <2>5 DEF Reached
  <2> QED BY <2>3, <2>6
<1>4. ASSUME NEW i \in 1..n, NEW j \in 0..(bef(i) - 1), k = off[i - 1] + j, Right(m, <<b, i>>, j)
      PROVE  RunTyped(m)' /\ Reached(m, b, off, k + 1)'
  <2>1. i \in 1..(n + 1) /\ bef(i) \in Nat /\ off[i - 1] \in Nat
    BY <1>1
  <2>2. j + 1 \in 1..bef(i) /\ j + 1 \in 0..bef(i) /\ k + 1 = off[i - 1] + (j + 1)
    <3>1. \A x, y \in Nat : \A z \in 0..(y - 1) : z + 1 \in 1..y /\ z + 1 \in 0..y /\ x + z + 1 = x + (z + 1)
      OBVIOUS
    <3>2. j \in 0..(bef(i) - 1) /\ k = off[i - 1] + j
      BY <1>4
    <3> HIDE DEF bef
    <3> QED BY ONLY <2>1, <3>1, <3>2
  <2>a. prims[off[i - 1] + (j + 1)] = EndingsBefore(m, <<b, i>>)[j + 1]
    BY <2>2 DEF Layout
  <2>3. Prim = EndingsBefore(m, <<b, i>>)[j + 1]
    BY <2>2, <2>a
  <2>4. <<b, i>> \in Locations(m)
    BY PieceOf
  <2>5. RunTyped(m)' /\ Right(m, <<b, i>>, j + 1)'
    BY <1>4, <2>3, <2>4, EndsBefore
  <2>6. Reached(m, b, off, k + 1)'
    BY <1>1, <2>1, <2>2, <2>5 DEF Reached
  <2> QED BY <2>5, <2>6
<1>5. ASSUME NEW i \in 1..n, Goes(m, b, i) # <<>>, k = off[i - 1] + bef(i), Right(m, <<b, i>>, bef(i))
      PROVE  RunTyped(m)' /\ Reached(m, b, off, k + 1)'
  <2>1. Prim = m[b].stmts[i]
    BY <1>5 DEF Layout
  <2>2. RunTyped(m)' /\ Right(m, <<b, i + 1>>, 0)'
    BY <1>5, <2>1, StatementGoes
  <2>3. i + 1 \in 1..(n + 1) /\ (i + 1) - 1 = i /\ i \in 1..(n + 1)
    BY <1>1
  <2>4. off[i] = off[i - 1] + bef(i) + Len(Goes(m, b, i))
    BY DEF Layout
  <2>5. Len(Goes(m, b, i)) = 1
    <3>1. Goes(m, b, i) = <<m[b].stmts[i]>>
      BY <1>5, PieceOf
    <3> QED BY <3>1
  <2>6. k + 1 = off[(i + 1) - 1] + 0 /\ 0 \in 0..bef(i + 1)
    <3>1. bef(i) \in Nat /\ off[i - 1] \in Nat /\ bef(i + 1) \in Nat
      BY <1>1, <2>3
    <3>2. k + 1 = off[i] /\ off[i] \in Nat
      <4> HIDE DEF bef
      <4> QED BY <1>5, <2>4, <2>5, <3>1
    <3> HIDE DEF bef
    <3> QED BY <2>3, <3>1, <3>2
  <2>7. Reached(m, b, off, k + 1)'
    BY <1>1, <2>2, <2>3, <2>6 DEF Reached
  <2> QED BY <2>2, <2>7
<1>6. CASE k = off[n] /\ Effect(m, b) # <<>> /\ Right(m, <<b, TermIndex(m, b)>>, 0)
  <2>1. Prim = Effect(m, b)[1]
    BY <1>6 DEF Layout
  <2>2. RunTyped(m)' /\ Gone(m, b, 0)'
    BY <1>6, <2>1, EffectGoes
  <2>3. e = 1
    <3>1. Effect(m, b) \in Seq(ToSet(Effect(m, b))) /\ Effect(m, b) # <<>>
      BY <1>6, EffectOf
    <3>2. e # 0
      BY <3>1
    <3> HIDE DEF e
    <3> QED BY <1>1, <3>2
  <2>4. k + 1 = off[n] + e + 0 /\ 0 \in 0..a
    BY <1>1, <1>6, <2>3
  <2>5. Reached(m, b, off, k + 1)'
    BY <2>2, <2>4 DEF Reached
  <2> QED BY <2>2, <2>5
<1>7. ASSUME NEW j \in 0..a, k = off[n] + e + j, Gone(m, b, j)
      PROVE  RunTyped(m)' /\ Reached(m, b, off, k + 1)'
  <2>1. Len(prims) = off[n] + e + a
    BY DEF Layout
  <2>2. j \in 0..(a - 1) /\ j + 1 \in 1..a /\ j + 1 \in 0..a /\ k + 1 = off[n] + e + (j + 1)
    <3> HIDE DEF a, e, n
    <3> QED BY <1>1, <1>7, <2>1
  <2>3. Prim = EndingsAfter(m, b)[j + 1]
    BY <2>2 DEF Layout
  <2>4. RunTyped(m)' /\ Gone(m, b, j + 1)'
    BY <1>7, <2>2, <2>3, EndsAfter
  <2>5. Reached(m, b, off, k + 1)'
    BY <2>2, <2>4 DEF Reached
  <2> QED BY <2>4, <2>5
<1> QED
  BY <1>2, <1>3, <1>4, <1>5, <1>6, <1>7 DEF Settled

LEMMA JumpReaches ==
  ASSUME NEW m \in Bodies, NEW b \in DOMAIN m, NEW off, NEW prims, Layout(m, b, off, prims),
         NEW k \in Nat, k >= Len(prims), Reached(m, b, off, k), NEW t \in ToSet(jumps_of(m[b].term))
  PROVE  Right(m, <<t, 1>>, 0)
<1> DEFINE n == Len(m[b].stmts)
           bef(i) == Len(EndingsBefore(m, <<b, i>>))
           e == Len(Effect(m, b))
           a == Len(EndingsAfter(m, b))
<1>1. /\ n \in Nat /\ off \in [0..n -> Nat] /\ e \in 0..1 /\ a \in Nat /\ off[n] \in Nat
      /\ Len(prims) = off[n] + e + a
  <2>1. n \in Nat /\ off \in [0..n -> Nat] /\ Len(prims) = off[n] + e + a
    BY LocationsOf DEF Layout
  <2>2. e \in 0..1 /\ a \in Nat
    BY EffectOf, AfterOf
  <2>3. n \in 0..n
    BY <2>1
  <2> HIDE DEF n, e, a
  <2> QED BY <2>1, <2>2, <2>3
<1>2. Settled(m, b, off, k)
  BY Settles
<1>3. \A i \in 1..n : bef(i) \in Nat /\ off[i - 1] \in Nat /\ off[i] \in Nat /\ Len(Goes(m, b, i)) \in Nat
                     /\ off[i] = off[i - 1] + bef(i) + Len(Goes(m, b, i))
  <2> TAKE i \in 1..n
  <2>1. <<b, i>> \in Locations(m)
    BY GoesOf
  <2>2. bef(i) \in Nat
    BY <2>1, BeforeOf
  <2>3. Goes(m, b, i) = IF m[b].stmts[i].op \in {"spec", "nop"} THEN <<>> ELSE <<m[b].stmts[i]>>
    BY GoesOf
  <2>4. Len(Goes(m, b, i)) \in Nat
    <3>1. PICK s, x : s = Goes(m, b, i) /\ x = m[b].stmts[i]
      OBVIOUS
    <3>2. s = <<>> \/ s = <<x>>
      BY <2>3, <3>1
    <3>3. Len(s) \in Nat
      BY ONLY <3>2
    <3> QED BY <3>1, <3>3
  <2>5. i \in 0..n /\ i - 1 \in 0..n
    BY <1>1
  <2>6. off[i] = off[i - 1] + bef(i) + Len(Goes(m, b, i))
    BY DEF Layout
  <2> HIDE DEF bef, n
  <2> QED BY <1>1, <2>2, <2>4, <2>5, <2>6
<1>4. \A i \in 0..n : off[i] <= off[n]
  <2> DEFINE P == {d \in 0..n : off[n - d] <= off[n]}
  <2> HIDE DEF n, bef
  <2>1. 0 \in P
    <3>1. n - 0 = n /\ 0 \in 0..n
      BY <1>1
    <3> QED BY <1>1, <3>1
  <2>2. ASSUME NEW d \in 0..(n - 1), d \in P PROVE d + 1 \in P
    <3> DEFINE i == n - d
    <3>1. i \in 1..n /\ n - (d + 1) = i - 1 /\ d + 1 \in 0..n
      BY <1>1
    <3>2. off[i] <= off[n]
      BY <2>2
    <3> HIDE DEF i
    <3>3. off[i - 1] <= off[i] /\ off[i - 1] \in Nat /\ off[i] \in Nat
      <4>1. /\ bef(i) \in Nat /\ off[i - 1] \in Nat /\ off[i] \in Nat /\ Len(Goes(m, b, i)) \in Nat
            /\ off[i] = off[i - 1] + bef(i) + Len(Goes(m, b, i))
        BY ONLY <1>3, <3>1
      <4>2. \A v, w, z \in Nat : v <= v + w + z
        OBVIOUS
      <4> QED BY ONLY <4>1, <4>2
    <3>4. off[i - 1] <= off[n]
      BY <1>1, <3>2, <3>3
    <3> QED BY <3>1, <3>4
  <2>3. \A d \in 0..n : d \in P
    <3> HIDE DEF P
    <3> QED BY <1>1, <2>1, <2>2, RangeInduction
  <2>4. ASSUME NEW i \in 0..n PROVE off[i] <= off[n]
    <3>1. n - i \in 0..n /\ n - (n - i) = i
      BY <1>1
    <3>2. off[n - (n - i)] <= off[n]
      BY <2>3, <3>1
    <3> QED BY <3>1, <3>2
  <2> QED BY <2>4
<1>5. k >= off[n] + e + a
  BY <1>1
<1>6. CASE k < off[0]
  <2>1. 0 \in 0..n
    BY <1>1
  <2>2. off[0] \in Nat /\ off[0] <= off[n]
    BY <1>1, <1>4, <2>1
  <2> HIDE DEF n, e, a
  <2> QED BY <1>1, <1>5, <1>6, <2>2
<1>7. ASSUME NEW i \in 1..n, NEW j \in 0..(bef(i) - 1), k = off[i - 1] + j PROVE FALSE
  <2>1. i \in 0..n
    BY <1>1
  <2>2. off[i] <= off[n]
    BY <1>4, <2>1
  <2> HIDE DEF n, e, a, bef
  <2>3. /\ bef(i) \in Nat /\ off[i - 1] \in Nat /\ off[i] \in Nat /\ Len(Goes(m, b, i)) \in Nat
        /\ off[i] = off[i - 1] + bef(i) + Len(Goes(m, b, i))
    BY ONLY <1>3
  <2>4. off[n] \in Nat /\ e \in Nat /\ a \in Nat
    BY ONLY <1>1
  <2>5. j \in 0..(bef(i) - 1) /\ k = off[i - 1] + j
    BY <1>7
  <2>6. \A u, v, w, x, y, z, q \in Nat : y = u + v + w /\ y <= x /\ q < v => ~(u + q >= x + z)
    OBVIOUS
  <2>7. j \in Nat /\ j < bef(i)
    BY ONLY <2>3, <2>5
  <2>8. e + a \in Nat /\ off[n] + e + a = off[n] + (e + a)
    BY ONLY <2>4
  <2>9. off[i - 1] + j >= off[n] + (e + a)
    BY ONLY <1>5, <2>5, <2>8
  <2> QED BY ONLY <2>2, <2>3, <2>4, <2>6, <2>7, <2>8, <2>9
<1>8. ASSUME NEW i \in 1..n, Goes(m, b, i) # <<>>, k = off[i - 1] + bef(i) PROVE FALSE
  <2>1. i \in 0..n
    BY <1>1
  <2>2. off[i] <= off[n]
    BY <1>4, <2>1
  <2>3. Len(Goes(m, b, i)) = 1
    <3>1. Goes(m, b, i) = <<m[b].stmts[i]>>
      BY <1>8, PieceOf
    <3> QED BY <3>1
  <2> HIDE DEF n, e, a, bef
  <2>4. /\ bef(i) \in Nat /\ off[i - 1] \in Nat /\ off[i] \in Nat
        /\ off[i] = off[i - 1] + bef(i) + 1
    BY ONLY <1>3, <2>3
  <2>5. off[n] \in Nat /\ e \in Nat /\ a \in Nat
    BY ONLY <1>1
  <2>6. \A u, v, x, y, z \in Nat : y = u + v + 1 /\ y <= x => ~(u + v >= x + z)
    OBVIOUS
  <2>7. e + a \in Nat /\ off[n] + e + a = off[n] + (e + a)
    BY ONLY <2>5
  <2>8. off[i - 1] + bef(i) >= off[n] + (e + a)
    <3>1. k = off[i - 1] + bef(i)
      BY <1>8
    <3> QED BY ONLY <1>5, <2>7, <3>1
  <2> QED BY ONLY <2>2, <2>4, <2>5, <2>6, <2>7, <2>8
<1>9. ASSUME k = off[n], Effect(m, b) # <<>> PROVE FALSE
  <2>1. e # 0
    <3>1. Effect(m, b) \in Seq(ToSet(Effect(m, b))) /\ Effect(m, b) # <<>>
      BY <1>9, EffectOf
    <3> QED BY <3>1
  <2> HIDE DEF n, e, a, bef
  <2> QED BY <1>1, <1>5, <1>9, <2>1
<1>10. ASSUME NEW j \in 0..a, k = off[n] + e + j, Gone(m, b, j) PROVE Right(m, <<t, 1>>, 0)
  <2>1. j = a
    <3> HIDE DEF n, e, a, bef
    <3> QED BY <1>1, <1>5, <1>10
  <2>2. EndingsAfter(m, b) \in Seq({EndLft(l) : l \in get_loans_dying_at(m, loan_facts(m), <<b, TermIndex(m, b)>>, FALSE)})
    BY AfterOf
  <2>3. Unended(EndingsAfter(m, b), a) = {}
    BY <2>2, LeftOf
  <2>4. SoundOrTorn(m, <<t, 1>>) /\ LentAfter(m, <<b, TermIndex(m, b)>>, {})
    BY <1>10, <2>1, <2>3 DEF Gone
  <2>5. <<t, 1>> \in Locations(m) /\ <<b, TermIndex(m, b)>> \in get_loc_predecessors(m, <<t, 1>>)
    BY JumpsLead
  <2> QED BY <2>4, <2>5, Arrives
<1> QED
  BY <1>2, <1>6, <1>7, <1>8, <1>9, <1>10 DEF Settled

\* What is used, a statement or a terminator uses where the run is right.
LEMMA UseRight ==
  ASSUME NEW m \in Bodies, NEW b \in DOMAIN m, NEW off, NEW prims, Layout(m, b, off, prims),
         NEW k \in Nat, k < Len(prims), Reached(m, b, off, k), prims[k + 1].src # NoVar
  PROVE  \E p \in Locations(m) : At(m, p).src = prims[k + 1].src /\ SoundOrTorn(m, p) /\ LentRight(m, p, {})
<1> DEFINE n == Len(m[b].stmts)
           bef(i) == Len(EndingsBefore(m, <<b, i>>))
           e == Len(Effect(m, b))
           a == Len(EndingsAfter(m, b))
<1>1. /\ n \in Nat /\ off \in [0..n -> Nat] /\ e \in 0..1 /\ a \in Nat /\ off[n] \in Nat
      /\ Len(prims) = off[n] + e + a
  <2>1. n \in Nat /\ off \in [0..n -> Nat] /\ Len(prims) = off[n] + e + a
    BY LocationsOf DEF Layout
  <2>2. e \in 0..1 /\ a \in Nat
    BY EffectOf, AfterOf
  <2>3. n \in 0..n
    BY <2>1
  <2> HIDE DEF n, e, a
  <2> QED BY <2>1, <2>2, <2>3
<1>2. Settled(m, b, off, k)
  BY Settles
<1>3. \A l : EndLft(l).src = NoVar
  BY DEF EndLft
<1>4. ASSUME k < off[0] PROVE FALSE
  <2>1. k + 1 \in 1..off[0]
    <3>1. 0 \in 0..n
      BY <1>1
    <3>2. off[0] \in Nat
      BY <1>1, <3>1
    <3> QED BY <1>4, <3>2
  <2> QED BY <2>1 DEF Layout, Idle
<1>5. ASSUME NEW i \in 1..n, NEW j \in 0..(bef(i) - 1), k = off[i - 1] + j PROVE FALSE
  <2>1. <<b, i>> \in Locations(m)
    BY PieceOf
  <2>2. EndingsBefore(m, <<b, i>>) \in Seq({EndLft(l) : l \in dying_loans(m, loan_facts(m), <<b, i>>)})
    BY <2>1, BeforeOf
  <2>3. /\ j + 1 \in 1..bef(i)
        /\ EndingsBefore(m, <<b, i>>)[j + 1] = EndLft(EndingsBefore(m, <<b, i>>)[j + 1].loan)
    <3> DEFINE s == EndingsBefore(m, <<b, i>>)
               T == dying_loans(m, loan_facts(m), <<b, i>>)
    <3> HIDE DEF s, T
    <3>0. s \in Seq({EndLft(l) : l \in T})
      BY <2>2 DEF s, T
    <3>1. \A q \in 0..(Len(s) - 1) :
            /\ q + 1 \in 1..Len(s) /\ s[q + 1].loan \in T /\ s[q + 1] = EndLft(s[q + 1].loan)
            /\ Unended(s, q) \subseteq Unended(s, q + 1) \cup {s[q + 1].loan}
      BY <3>0, LeftOf
    <3>2. j \in 0..(Len(s) - 1)
      BY DEF s
    <3>3. j + 1 \in 1..Len(s) /\ s[j + 1] = EndLft(s[j + 1].loan)
      BY <3>1, <3>2
    <3> QED BY <3>3 DEF s
  <2>4. k + 1 = off[i - 1] + (j + 1)
    <3>1. i - 1 \in 0..n
      BY <1>1
    <3>2. off[i - 1] \in Nat
      BY <1>1, <3>1
    <3>3. bef(i) \in Nat
      BY <2>1, BeforeOf
    <3> HIDE DEF bef
    <3>4. j \in Nat /\ k = off[i - 1] + j
      BY <1>5, <3>3
    <3>5. \A v, w \in Nat : (v + w) + 1 = v + (w + 1)
      OBVIOUS
    <3> QED BY ONLY <3>2, <3>4, <3>5
  <2>5. prims[k + 1] = EndingsBefore(m, <<b, i>>)[j + 1]
    <3>1. \A h \in 1..Len(EndingsBefore(m, <<b, i>>)) : prims[off[i - 1] + h] = EndingsBefore(m, <<b, i>>)[h]
      BY DEF Layout
    <3>2. j + 1 \in 1..Len(EndingsBefore(m, <<b, i>>))
      BY <2>3
    <3> QED BY ONLY <2>4, <3>1, <3>2
  <2> QED BY <1>3, <2>3, <2>5
<1>6. ASSUME NEW i \in 1..n, Goes(m, b, i) # <<>>, k = off[i - 1] + bef(i), Right(m, <<b, i>>, bef(i))
      PROVE  \E p \in Locations(m) : At(m, p).src = prims[k + 1].src /\ SoundOrTorn(m, p) /\ LentRight(m, p, {})
  <2>1. prims[k + 1] = m[b].stmts[i]
    BY <1>6 DEF Layout
  <2>a. <<b, i>> \in Locations(m)
    BY PieceOf
  <2>b. At(m, <<b, i>>) = m[b].stmts[i]
    BY PieceOf
  <2>2. <<b, i>> \in Locations(m) /\ At(m, <<b, i>>) = m[b].stmts[i]
    BY <2>a, <2>b
  <2>3. EndingsBefore(m, <<b, i>>) \in Seq({EndLft(l) : l \in dying_loans(m, loan_facts(m), <<b, i>>)})
    BY <2>2, BeforeOf
  <2>4. Unended(EndingsBefore(m, <<b, i>>), bef(i)) = {}
    BY <2>3, LeftOf
  <2>5. SoundOrTorn(m, <<b, i>>) /\ LentRight(m, <<b, i>>, {})
    BY <1>6, <2>4 DEF Right
  <2> QED BY <2>1, <2>2, <2>5
<1>7. ASSUME k = off[n], Effect(m, b) # <<>>, Right(m, <<b, TermIndex(m, b)>>, 0)
      PROVE  \E p \in Locations(m) : At(m, p).src = prims[k + 1].src /\ SoundOrTorn(m, p) /\ LentRight(m, p, {})
  <2> DEFINE p == <<b, TermIndex(m, b)>>
  <2>1. prims[k + 1] = Effect(m, b)[1]
    BY <1>7 DEF Layout
  <2>2. p \in Locations(m) /\ IsTerminator(m, p) /\ At(m, p) = m[b].term
    BY AfterOf
  <2>3. Effect(m, b)[1].src = m[b].term.src
    BY <1>7, <2>1, EffectOf DEF Does, Idle
  <2>4. Right(m, p, 0)
    BY <1>7
  <2> HIDE DEF p
  <2>5. Len(EndingsBefore(m, p)) = 0 /\ EndingsBefore(m, p) \in Seq({EndLft(l) : l \in dying_loans(m, loan_facts(m), p)})
    BY <2>2, BeforeOf
  <2>6. Unended(EndingsBefore(m, p), 0) = {}
    BY <2>5, LeftOf
  <2> QED BY <2>1, <2>2, <2>3, <2>4, <2>6 DEF Right
<1>8. ASSUME NEW j \in 0..a, k = off[n] + e + j PROVE FALSE
  <2>1. j \in 0..(a - 1)
    <3> HIDE DEF n, e, a
    <3> QED BY <1>1, <1>8
  <2>2. EndingsAfter(m, b) \in Seq({EndLft(l) : l \in get_loans_dying_at(m, loan_facts(m), <<b, TermIndex(m, b)>>, FALSE)})
    BY AfterOf
  <2>3. j + 1 \in 1..a /\ EndingsAfter(m, b)[j + 1] = EndLft(EndingsAfter(m, b)[j + 1].loan)
    <3> DEFINE s == EndingsAfter(m, b)
               T == get_loans_dying_at(m, loan_facts(m), <<b, TermIndex(m, b)>>, FALSE)
    <3> HIDE DEF s, T
    <3>0. s \in Seq({EndLft(l) : l \in T})
      BY <2>2 DEF s, T
    <3>1. \A q \in 0..(Len(s) - 1) :
            /\ q + 1 \in 1..Len(s) /\ s[q + 1].loan \in T /\ s[q + 1] = EndLft(s[q + 1].loan)
            /\ Unended(s, q) \subseteq Unended(s, q + 1) \cup {s[q + 1].loan}
      BY <3>0, LeftOf
    <3>2. j \in 0..(Len(s) - 1)
      BY <2>1 DEF s
    <3>3. j + 1 \in 1..Len(s) /\ s[j + 1] = EndLft(s[j + 1].loan)
      BY <3>1, <3>2
    <3> QED BY <3>3 DEF s
  <2>4. k + 1 = off[n] + e + (j + 1)
    <3> HIDE DEF n, e, a
    <3> QED BY <1>1, <1>8
  <2>5. prims[k + 1] = EndingsAfter(m, b)[j + 1]
    BY <2>3, <2>4 DEF Layout
  <2> QED BY <1>3, <2>3, <2>5
<1> QED
  BY <1>2, <1>4, <1>5, <1>6, <1>7, <1>8 DEF Settled

---------------------------------------------------------------------------
(* The code has the parts that the facts about the body give it.             *)
LivePrims == {Live(v) : v \in AlwaysLive}
FormInv ==
  /\ status # "new" => facts = loan_facts(body)
  /\ \A b \in DOMAIN code : \E live \in Seq(LivePrims) : code[b].prims = live \o BlockPrims(body, b)

LEMMA TranslatedPrims ==
  ASSUME NEW b, facts = loan_facts(body)
  PROVE  translate_basic_block(b).prims = BlockPrims(body, b)
<1> DEFINE dying == get_loans_dying_at(body, facts, <<b, TermIndex(body, b)>>, FALSE)
           ends == IF EmitsEndings(body[b].term) THEN generate_endlfts(dying) ELSE <<>>
<1>1. translate_terminator(b).prims = effect_of(body[b].term) \o ends
  BY DEF translate_terminator
<1>2. ends = EndingsAfter(body, b)
  BY DEF EndingsAfter
<1> HIDE DEF ends
<1>3. translate_basic_block(b).prims = translate_statements(b) \o translate_terminator(b).prims
  BY DEF translate_basic_block
<1> QED
  BY <1>1, <1>2, <1>3 DEF BlockPrims, Effect, translate_statements

LEMMA LivePrefix ==
  LET live == [i \in DOMAIN SetToSeq(AlwaysLive) |-> Live(SetToSeq(AlwaysLive)[i])] IN live \in Seq(LivePrims)
<1> DEFINE N == Cardinality(AlwaysLive)
           s == SetToSeq(AlwaysLive)
<1>1. N \in Nat /\ \E f \in [1..N -> AlwaysLive] : IsInjective(f)
  <2>1. N \in Nat /\ ExistsBijection(1..N, AlwaysLive)
    BY LocalsAssumption, FS_CardinalityType
  <2> QED BY <2>1 DEF ExistsBijection, Bijection, Injection
<1>2. s \in [1..N -> AlwaysLive]
  BY <1>1 DEF SetToSeq
<1> HIDE DEF s, N
<1>3. \A i \in 1..N : Live(s[i]) \in LivePrims
  BY <1>2 DEF LivePrims
<1>4. [i \in DOMAIN s |-> Live(s[i])] \in [1..N -> LivePrims]
  BY <1>2, <1>3
<1>5. [i \in DOMAIN s |-> Live(s[i])] \in Seq(LivePrims)
  BY <1>1, <1>4
<1> QED
  BY <1>5 DEF s

LEMMA FormIsInvariant == Spec => []FormInv
<1>1. Init => FormInv
  BY DEF Init, FormInv
<1>2. CodeInv /\ FormInv /\ [Next]_vars => FormInv'
  <2> SUFFICES ASSUME CodeInv, FormInv, [Next]_vars PROVE FormInv'
    OBVIOUS
  <2>1. CASE Prepare
    <3>1. code = <<>> /\ code' = code /\ facts' = loan_facts(body) /\ body' = body
      BY <2>1 DEF Prepare, CodeInv
    <3> QED BY <3>1 DEF FormInv
  <2>2. ASSUME NEW b, NEW block, NEW rest, AddBlock(b, block, rest), status # "new",
               \E live \in Seq(LivePrims) : block.prims = live \o BlockPrims(body, b)
        PROVE  FormInv'
    <3>1. /\ code' = [c \in DOMAIN code \cup {b} |-> IF c = b THEN block ELSE code[c]]
          /\ body' = body /\ facts' = facts
      BY <2>2 DEF AddBlock
    <3>2. facts' = loan_facts(body')
      BY <2>2, <3>1 DEF FormInv
    <3>3. ASSUME NEW c \in DOMAIN code'
          PROVE  \E live \in Seq(LivePrims) : code'[c].prims = live \o BlockPrims(body', c)
      <4>1. CASE c = b
        BY <2>2, <3>1, <4>1
      <4>2. CASE c # b
        <5>1. c \in DOMAIN code /\ code'[c] = code[c]
          BY <3>1, <4>2
        <5> QED BY <3>1, <5>1 DEF FormInv
      <4> QED BY <4>1, <4>2
    <3> QED BY <3>2, <3>3 DEF FormInv, LivePrims
  <2>3. CASE TranslateStart
    <3> DEFINE block == translate_basic_block(START_BLOCK)
               live == [i \in DOMAIN SetToSeq(AlwaysLive) |-> Live(SetToSeq(AlwaysLive)[i])]
               longer == [block EXCEPT !.prims = live \o @]
    <3>1. CASE BlockErrs(START_BLOCK)
      BY <2>3, <3>1 DEF TranslateStart, Fail, FormInv
    <3>2. CASE ~BlockErrs(START_BLOCK)
      <4>1. status # "new" /\ facts = loan_facts(body)
        BY <2>3 DEF TranslateStart, FormInv
      <4>2. AddBlock(START_BLOCK, longer, bb_queue)
        BY <2>3, <3>2 DEF TranslateStart
      <4>3. block.prims = BlockPrims(body, START_BLOCK)
        BY <4>1, TranslatedPrims
      <4>4. longer.prims = live \o block.prims
        <5>1. DOMAIN block = {"prims", "stuck", "jumps"}
          BY DEF translate_basic_block
        <5> HIDE DEF block, live
        <5> QED BY <5>1
      <4>5. live \in Seq(LivePrims)
        BY LivePrefix
      <4> HIDE DEF longer, live, block
      <4>6. \E l \in Seq(LivePrims) : longer.prims = l \o BlockPrims(body, START_BLOCK)
        BY <4>3, <4>4, <4>5
      <4> QED BY <2>2, <4>1, <4>2, <4>6
    <3> QED BY <3>1, <3>2
  <2>4. CASE TranslateNext
    <3> DEFINE b == Last(bb_queue)
    <3>1. CASE BlockErrs(b)
      BY <2>4, <3>1 DEF TranslateNext, Fail, FormInv
    <3>2. CASE ~BlockErrs(b)
      <4>1. status # "new" /\ facts = loan_facts(body) /\ body \in Bodies /\ b \in DOMAIN body
        BY <2>4, QueueSplit DEF TranslateNext, FormInv, CodeInv
      <4>2. AddBlock(b, translate_basic_block(b), Front(bb_queue))
        BY <2>4, <3>2 DEF TranslateNext
      <4> HIDE DEF b
      <4>3. translate_basic_block(b).prims = BlockPrims(body, b)
        BY <4>1, TranslatedPrims
      <4>4. <<>> \in Seq({}) /\ <<>> \in Seq(LivePrims)
        OBVIOUS
      <4>5. <<>> \o BlockPrims(body, b) = BlockPrims(body, b)
        BY <4>1, <4>4, LayoutOf
      <4>6. \E live \in Seq(LivePrims) : translate_basic_block(b).prims = live \o BlockPrims(body, b)
        BY <4>3, <4>4, <4>5
      <4> QED BY <2>2, <4>1, <4>2, <4>6
    <3> QED BY <3>1, <3>2
  <2>5. CASE Finish
    BY <2>5 DEF Finish, FormInv
  <2>6. CASE UNCHANGED vars
    BY <2>6 DEF vars, FormInv
  <2> QED BY <2>1, <2>3, <2>4, <2>5, <2>6 DEF Next, Translate
<1> QED
  BY <1>1, <1>2, CodeInvariant, PTL DEF Spec

---------------------------------------------------------------------------
(* A run is right at every point of every block it comes to.                 *)
Within(m) ==
  \E b \in DOMAIN m : \E k \in Nat : \E off, prims :
    /\ status = "done" /\ at = b /\ b \in DOMAIN code /\ code[b].prims = prims /\ pos = k + 1
    /\ Layout(m, b, off, prims) /\ Reached(m, b, off, k)
NotBegun == at = NoBlock /\ pos = 1 /\ open = {} /\ ended = {}
RunInv == \E m \in Bodies : body = m /\ RunTyped(m) /\ (NotBegun \/ Within(m))

LEMMA Enters ==
  ASSUME NEW m \in Bodies, NEW t \in DOMAIN m, NEW off, NEW prims, Layout(m, t, off, prims), Right(m, <<t, 1>>, 0)
  PROVE  Reached(m, t, off, 0)
<1>1. Len(m[t].stmts) \in Nat /\ off \in [0..Len(m[t].stmts) -> Nat]
  BY LocationsOf DEF Layout
<1>2. 0 \in 0..Len(m[t].stmts) /\ 1 \in 1..TermIndex(m, t)
  BY <1>1 DEF TermIndex
<1>3. off[0] \in Nat
  BY <1>1, <1>2
<1>4. CASE 0 < off[0]
  BY <1>4 DEF Reached
<1>5. CASE ~(0 < off[0])
  <2>1. 0 = off[1 - 1] + 0
    BY <1>3, <1>5
  <2>2. <<t, 1>> \in Locations(m)
    BY <1>2, LocationsOf DEF TermIndex
  <2>3. 0 \in 0..Len(EndingsBefore(m, <<t, 1>>))
    BY <2>2, BeforeOf
  <2> QED BY <1>2, <2>1, <2>3 DEF Reached
<1> QED
  BY <1>4, <1>5

\* Each block of the code has a layout.
LEMMA BlockLayout ==
  ASSUME NEW m \in Bodies, body = m, FormInv, NEW b \in DOMAIN m, b \in DOMAIN code
  PROVE  \E off : Layout(m, b, off, code[b].prims)
<1>1. PICK live \in Seq(LivePrims) : code[b].prims = live \o BlockPrims(m, b)
  BY DEF FormInv
<1>2. \A prim \in LivePrims : Idle(prim)
  BY DEF LivePrims, Live, Idle
<1> QED
  BY <1>1, <1>2, LayoutOf

LEMMA RunsTranslation == RunSpec => Spec
<1>1. RunSpecInit => Init
  BY DEF RunSpecInit
<1>2. [RunNext]_allvars => [Next]_vars
  BY DEF RunNext, BeginRun, RunEndLft, RunBorrow, RunAssign, RunJump, Advance, allvars
<1> QED
  BY <1>1, <1>2, PTL DEF RunSpec, Spec

LEMMA RunBegins ==
  ASSUME CodeInv, FormInv, RunInv, BeginRun
  PROVE  RunInv'
<1>1. PICK m \in Bodies : body = m /\ RunTyped(m) /\ (NotBegun \/ Within(m))
  BY DEF RunInv
<1>2. /\ status = "done" /\ at = NoBlock /\ at' = START_BLOCK
      /\ UNCHANGED <<vars, pos, open, carries, lent, ended, stray>>
  BY DEF BeginRun
<1>3. NotBegun
  <2>1. ASSUME Within(m) PROVE FALSE
    <3>1. PICK b \in DOMAIN m : at = b
      BY <2>1 DEF Within
    <3>2. DOMAIN m \subseteq Nat
      BY BodiesAssumption DEF IsMirBody
    <3> QED BY <1>2, <3>1, <3>2 DEF NoBlock
  <2> QED BY <1>1, <2>1
<1>4. START_BLOCK \in DOMAIN m /\ START_BLOCK \in DOMAIN code
  <2>1. START_BLOCK \in DOMAIN m
    BY BodiesAssumption DEF IsMirBody
  <2>2. ToSet(bb_queue) = {} /\ DOMAIN code \cup ToSet(bb_queue) = {START_BLOCK} \cup processed_bbs
    BY <1>2 DEF CodeInv, ToSet
  <2> QED BY <2>1, <2>2
<1>5. PICK off : Layout(m, START_BLOCK, off, code[START_BLOCK].prims)
  BY <1>1, <1>4, BlockLayout
<1>6. PICK prims : prims = code[START_BLOCK].prims
  OBVIOUS
<1>7. Right(m, <<START_BLOCK, 1>>, 0)
  BY <1>3 DEF NotBegun, Right, SoundOrTorn, Sound, LentRight
<1>8. Reached(m, START_BLOCK, off, 0)
  BY <1>4, <1>5, <1>6, <1>7, Enters
<1>9. body' = m /\ RunTyped(m)' /\ Reached(m, START_BLOCK, off, 0)'
  <2>1. RunTyped(m)'
    BY <1>1, <1>2 DEF RunTyped
  <2>2. Reached(m, START_BLOCK, off, 0)'
    <3>1. UNCHANGED <<ended, carries, open, lent>>
      BY <1>2
    <3> QED BY <1>8, <3>1 DEF Reached, Right, Gone, SoundOrTorn, Sound, LentRight, LentAfter
  <2> QED BY <1>1, <1>2, <2>1, <2>2 DEF vars
<1>10. Within(m)'
  <2>1. status' = "done" /\ at' = START_BLOCK /\ START_BLOCK \in DOMAIN code' /\ code'[START_BLOCK].prims = prims
        /\ pos' = 0 + 1 /\ 0 \in Nat
    BY <1>2, <1>3, <1>4, <1>6 DEF vars, NotBegun
  <2>2. Layout(m, START_BLOCK, off, prims)
    BY <1>5, <1>6
  <2> QED BY <1>4, <1>9, <2>1, <2>2 DEF Within
<1> QED
  BY <1>9, <1>10 DEF RunInv

LEMMA RunSteps ==
  ASSUME RunInv, RunEndLft \/ RunBorrow \/ RunAssign
  PROVE  RunInv'
<1>1. PICK m \in Bodies : body = m /\ RunTyped(m) /\ (NotBegun \/ Within(m))
  BY DEF RunInv
<1>2. AtPrim /\ pos' = pos + 1 /\ UNCHANGED <<at, vars>>
  BY DEF RunEndLft, RunBorrow, RunAssign, Advance
<1>3. Within(m)
  BY <1>1, <1>2 DEF AtPrim, NotBegun
<1>4. PICK b \in DOMAIN m, k \in Nat : \E off, prims :
        /\ status = "done" /\ at = b /\ b \in DOMAIN code /\ code[b].prims = prims /\ pos = k + 1
        /\ Layout(m, b, off, prims) /\ Reached(m, b, off, k)
  BY <1>3 DEF Within
<1>5. PICK off, prims :
        /\ status = "done" /\ at = b /\ b \in DOMAIN code /\ code[b].prims = prims /\ pos = k + 1
        /\ Layout(m, b, off, prims) /\ Reached(m, b, off, k)
  BY <1>4
<1>6. k < Len(prims) /\ Prim = prims[k + 1]
  <2>1. k + 1 <= Len(prims)
    BY <1>2, <1>5 DEF AtPrim
  <2>2. Len(prims) \in Int
    <3>1. Len(m[b].stmts) \in Nat /\ off \in [0..Len(m[b].stmts) -> Nat]
          /\ Len(prims) = off[Len(m[b].stmts)] + Len(Effect(m, b)) + Len(EndingsAfter(m, b))
      BY <1>5, LocationsOf DEF Layout
    <3>2. off[Len(m[b].stmts)] \in Nat
      BY <3>1
    <3>3. Len(Effect(m, b)) \in 0..1 /\ Len(EndingsAfter(m, b)) \in Nat
      BY EffectOf, AfterOf
    <3> QED BY <3>1, <3>2, <3>3
  <2> QED BY <1>5, <2>1, <2>2 DEF Prim
<1>7. RunTyped(m)' /\ Reached(m, b, off, k + 1)'
  BY <1>1, <1>5, <1>6, RunReaches
<1>8. /\ status' = "done" /\ at' = b /\ b \in DOMAIN code' /\ code'[b].prims = prims /\ pos' = (k + 1) + 1
      /\ body' = m /\ k + 1 \in Nat
  BY <1>1, <1>2, <1>5 DEF vars
<1>9. Within(m)'
  BY <1>5, <1>7, <1>8 DEF Within
<1> QED
  BY <1>7, <1>8, <1>9 DEF RunInv

LEMMA RunJumps ==
  ASSUME CodeInv, FormInv, RunInv, RunJump
  PROVE  RunInv'
<1>1. PICK m \in Bodies : body = m /\ RunTyped(m) /\ (NotBegun \/ Within(m))
  BY DEF RunInv
<1>2. /\ at # NoBlock /\ pos > Len(code[at].prims) /\ pos' = 1
      /\ \E i \in DOMAIN code[at].jumps : at' = code[at].jumps[i].target
      /\ UNCHANGED <<vars, open, carries, lent, ended, stray>>
  BY DEF RunJump
<1>3. Within(m)
  BY <1>1, <1>2 DEF NotBegun
<1>4. PICK b \in DOMAIN m, k \in Nat : \E off, prims :
        /\ status = "done" /\ at = b /\ b \in DOMAIN code /\ code[b].prims = prims /\ pos = k + 1
        /\ Layout(m, b, off, prims) /\ Reached(m, b, off, k)
  BY <1>3 DEF Within
<1>5. PICK off, prims :
        /\ status = "done" /\ at = b /\ b \in DOMAIN code /\ code[b].prims = prims /\ pos = k + 1
        /\ Layout(m, b, off, prims) /\ Reached(m, b, off, k)
  BY <1>4
<1>6. k >= Len(prims)
  <2>1. k + 1 > Len(prims)
    BY <1>2, <1>5
  <2>2. Len(prims) \in Int
    <3>1. Len(m[b].stmts) \in Nat /\ off \in [0..Len(m[b].stmts) -> Nat]
          /\ Len(prims) = off[Len(m[b].stmts)] + Len(Effect(m, b)) + Len(EndingsAfter(m, b))
      BY <1>5, LocationsOf DEF Layout
    <3>2. off[Len(m[b].stmts)] \in Nat
      BY <3>1
    <3>3. Len(Effect(m, b)) \in 0..1 /\ Len(EndingsAfter(m, b)) \in Nat
      BY EffectOf, AfterOf
    <3> QED BY <3>1, <3>2, <3>3
  <2> QED BY <2>1, <2>2
<1>7. PICK t \in ToSet(jumps_of(m[b].term)) : at' = t /\ t \in DOMAIN code /\ t \in DOMAIN m
  <2>1. PICK i \in DOMAIN code[b].jumps : at' = code[b].jumps[i].target
    BY <1>2, <1>5
  <2>2. at' \in ToSet(Jumps(code[b]))
    BY <2>1 DEF ToSet, Jumps
  <2>3. /\ Jumps(code[b]) = jumps_of(m[b].term) /\ ToSet(Jumps(code[b])) \subseteq processed_bbs
        /\ processed_bbs \subseteq ReachedReally /\ bb_queue = <<>>
        /\ DOMAIN code \cup ToSet(bb_queue) = {START_BLOCK} \cup processed_bbs
    BY <1>1, <1>5 DEF CodeInv
  <2>4. ReachedReally \in SUBSET DOMAIN m
    BY <1>1, ReachedLeast
  <2>5. ToSet(bb_queue) = {}
    BY <2>3 DEF ToSet
  <2>6. at' \in DOMAIN code /\ at' \in DOMAIN m /\ at' \in ToSet(jumps_of(m[b].term))
    BY <2>2, <2>3, <2>4, <2>5
  <2> QED BY <2>6
<1>8. Right(m, <<t, 1>>, 0)
  BY <1>5, <1>6, JumpReaches
<1>9. PICK later : Layout(m, t, later, code[t].prims)
  BY <1>1, <1>7, BlockLayout
<1>10. PICK next : next = code[t].prims
  OBVIOUS
<1>11. Layout(m, t, later, next) /\ Reached(m, t, later, 0)
  BY <1>7, <1>8, <1>9, <1>10, Enters
<1>12. body' = m /\ RunTyped(m)' /\ Reached(m, t, later, 0)'
  <2>1. RunTyped(m)'
    BY <1>1, <1>2 DEF RunTyped
  <2>2. Reached(m, t, later, 0)'
    <3>1. UNCHANGED <<ended, carries, open, lent>>
      BY <1>2
    <3> QED BY <1>11, <3>1 DEF Reached, Right, Gone, SoundOrTorn, Sound, LentRight, LentAfter
  <2> QED BY <1>1, <1>2, <2>1, <2>2 DEF vars
<1>13. /\ status' = "done" /\ at' = t /\ t \in DOMAIN code' /\ code'[t].prims = next /\ pos' = 0 + 1 /\ 0 \in Nat
  BY <1>2, <1>5, <1>7, <1>10 DEF vars
<1>14. Within(m)'
  BY <1>7, <1>11, <1>12, <1>13 DEF Within
<1> QED
  BY <1>12, <1>14 DEF RunInv

(* Wherever a run is, the code it is in has the parts that the facts about   *)
(* the body give it, and what has ended, is carried and is lent is what the  *)
(* facts at that place in the body say.                                      *)
THEOREM RunIsRight == RunSpec => []RunInv
<1>1. RunSpecInit => RunInv
  <2> SUFFICES ASSUME RunSpecInit PROVE RunInv
    OBVIOUS
  <2>1. PICK m \in Bodies : m = body
    BY DEF RunSpecInit, Init
  <2>2. NotBegun /\ RunTyped(m)
    BY DEF RunSpecInit, RunInit, NotBegun, RunTyped
  <2> QED BY <2>1, <2>2 DEF RunInv
<1>2. CodeInv /\ FormInv /\ RunInv /\ [RunNext]_allvars => RunInv'
  <2> SUFFICES ASSUME CodeInv, FormInv, RunInv, [RunNext]_allvars PROVE RunInv'
    OBVIOUS
  <2>1. PICK m \in Bodies : body = m /\ RunTyped(m) /\ (NotBegun \/ Within(m))
    BY DEF RunInv
  <2>2. CASE Next /\ UNCHANGED runvars
    <3>1. status # "done" /\ body' = body
      BY <2>2 DEF Next, Prepare, Translate, TranslateStart, TranslateNext, Finish, AddBlock, Fail
    <3>2. NotBegun
      BY <2>1, <3>1 DEF Within
    <3>3. NotBegun' /\ RunTyped(m)'
      BY <2>1, <2>2, <3>2 DEF NotBegun, RunTyped, runvars
    <3> QED BY <2>1, <3>1, <3>3 DEF RunInv
  <2>3. CASE BeginRun
    BY <2>3, RunBegins
  <2>4. CASE RunEndLft \/ RunBorrow \/ RunAssign
    BY <2>4, RunSteps
  <2>5. CASE RunJump
    BY <2>5, RunJumps
  <2>6. CASE UNCHANGED allvars
    <3>1. UNCHANGED <<body, status, code, at, pos, open, carries, lent, ended, stray>>
      BY <2>6 DEF allvars, vars, runvars
    <3>2. RunTyped(m)' /\ body' = m
      BY <2>1, <3>1 DEF RunTyped
    <3>3. NotBegun => NotBegun'
      BY <3>1 DEF NotBegun
    <3>4. ASSUME Within(m) PROVE Within(m)'
      <4>1. PICK b \in DOMAIN m, k \in Nat : \E off, prims :
              /\ status = "done" /\ at = b /\ b \in DOMAIN code /\ code[b].prims = prims /\ pos = k + 1
              /\ Layout(m, b, off, prims) /\ Reached(m, b, off, k)
        BY <3>4 DEF Within
      <4>2. PICK off, prims :
              /\ status = "done" /\ at = b /\ b \in DOMAIN code /\ code[b].prims = prims /\ pos = k + 1
              /\ Layout(m, b, off, prims) /\ Reached(m, b, off, k)
        BY <4>1
      <4>3. Reached(m, b, off, k)'
        BY <3>1, <4>2 DEF Reached, Right, Gone, SoundOrTorn, Sound, LentRight, LentAfter
      <4>4. status' = "done" /\ at' = b /\ b \in DOMAIN code' /\ code'[b].prims = prims /\ pos' = k + 1
        BY <3>1, <4>2
      <4> QED BY <4>2, <4>3, <4>4 DEF Within
    <3> QED BY <2>1, <3>2, <3>3, <3>4 DEF RunInv
  <2> QED BY <2>2, <2>3, <2>4, <2>5, <2>6 DEF RunNext
<1>3. Spec => []CodeInv /\ []FormInv
  BY CodeInvariant, FormIsInvariant
<1> QED
  BY <1>1, <1>2, <1>3, RunsTranslation, PTL DEF RunSpec

\* At a use the run is right, and the facts are the body's.
LEMMA AtUse ==
  ASSUME FormInv, RunInv, AtPrim, Prim.src # NoVar
  PROVE  \E m \in Bodies : /\ body = m /\ facts = loan_facts(m) /\ RunTyped(m)
                           /\ \E p \in Locations(m) : At(m, p).src = Prim.src /\ SoundOrTorn(m, p) /\ LentRight(m, p, {})
<1>1. PICK m \in Bodies : body = m /\ RunTyped(m) /\ (NotBegun \/ Within(m))
  BY DEF RunInv
<1>2. Within(m)
  BY <1>1 DEF AtPrim, NotBegun
<1>3. PICK b \in DOMAIN m, k \in Nat : \E off, prims :
        /\ status = "done" /\ at = b /\ b \in DOMAIN code /\ code[b].prims = prims /\ pos = k + 1
        /\ Layout(m, b, off, prims) /\ Reached(m, b, off, k)
  BY <1>2 DEF Within
<1>4. PICK off, prims :
        /\ status = "done" /\ at = b /\ b \in DOMAIN code /\ code[b].prims = prims /\ pos = k + 1
        /\ Layout(m, b, off, prims) /\ Reached(m, b, off, k)
  BY <1>3
<1>5. k < Len(prims) /\ Prim = prims[k + 1]
  <2>1. k + 1 <= Len(prims)
    BY <1>4 DEF AtPrim
  <2>2. Len(prims) \in Int
    <3>1. Len(m[b].stmts) \in Nat /\ off \in [0..Len(m[b].stmts) -> Nat]
          /\ Len(prims) = off[Len(m[b].stmts)] + Len(Effect(m, b)) + Len(EndingsAfter(m, b))
      BY <1>4, LocationsOf DEF Layout
    <3>2. off[Len(m[b].stmts)] \in Nat
      BY <3>1
    <3>3. Len(Effect(m, b)) \in 0..1 /\ Len(EndingsAfter(m, b)) \in Nat
      BY EffectOf, AfterOf
    <3> QED BY <3>1, <3>2, <3>3
  <2> QED BY <1>4, <2>1, <2>2 DEF Prim
<1>6. \E p \in Locations(m) : At(m, p).src = Prim.src /\ SoundOrTorn(m, p) /\ LentRight(m, p, {})
  BY <1>4, <1>5, UseRight
<1>7. facts = loan_facts(m)
  BY <1>1, <1>4 DEF FormInv
<1> QED
  BY <1>1, <1>6, <1>7

(* No reference is used on any path after a lifetime it depends on was       *)
(* ended, whatever the body: unless a loan is torn between being a loan on   *)
(* one path and a zombie on another (basicblock.rs:33, polonius_info.rs:391).*)
THEOREM NoUseAfterEnd == RunSpec => []UsesHoldUntorn
<1>1. FormInv /\ RunInv => UsesHoldUntorn
  <2> SUFFICES ASSUME FormInv, RunInv, AtPrim, Prim.src \in ended PROVE TornLoan
    BY DEF UsesHoldUntorn
  <2>1. Prim.src \in Var /\ Prim.src # NoVar
    <3>1. PICK m \in Bodies : RunTyped(m)
      BY DEF RunInv
    <3> QED BY <3>1, LoanFactsAssumption DEF RunTyped
  <2>2. PICK m \in Bodies :
          /\ body = m /\ facts = loan_facts(m) /\ RunTyped(m)
          /\ \E p \in Locations(m) : At(m, p).src = Prim.src /\ SoundOrTorn(m, p) /\ LentRight(m, p, {})
    BY <2>1, AtUse
  <2>3. PICK p \in Locations(m) : At(m, p).src = Prim.src /\ SoundOrTorn(m, p)
    BY <2>2
  <2>4. Prim.src \in LiveAt(m, p)
    <3>1. <<p, At(m, p).src>> \in LiveOf(m)
      BY <2>1, <2>3, LiveLeast
    <3> QED BY <2>3, <3>1, InRelation DEF LiveAt
  <2>5. Torn(m)
    BY <2>3, <2>4 DEF SoundOrTorn, Sound
  <2> QED BY <2>2, <2>5 DEF Torn, TornLoan
<1>2. Spec => []FormInv
  BY FormIsInvariant
<1> QED
  BY <1>1, <1>2, RunsTranslation, RunIsRight, PTL

(* What a reference was lent for is back before it is used again, whatever   *)
(* the body, unless the loan dies where the translation does not look        *)
(* (terminator.rs:234).                                                      *)
THEOREM LentIsBack == RunSpec => []LentBack
<1>1. FormInv /\ RunInv => LentBack
  <2> SUFFICES ASSUME FormInv, RunInv, AtPrim, Prim.src # NoVar, NEW l \in StillLent(Prim.src) PROVE DiesUnseen(l)
    BY DEF LentBack
  <2>1. PICK m \in Bodies :
          /\ body = m /\ facts = loan_facts(m) /\ RunTyped(m)
          /\ \E p \in Locations(m) : At(m, p).src = Prim.src /\ SoundOrTorn(m, p) /\ LentRight(m, p, {})
    BY AtUse
  <2>2. PICK p \in Locations(m) : At(m, p).src = Prim.src /\ LentRight(m, p, {})
    BY <2>1
  <2>3. Prim.src \in Var
    <3>1. IsNode(At(m, p))
      BY NodesOf
    <3> QED BY <2>2, <3>1 DEF IsNode
  <2>4. Unseen(m, l)
    <3>1. CASE l \in lent[Prim.src] \cap open
      <4>1. l \in LoansOn(m, Prim.src)
        BY <2>1, <2>3, <3>1 DEF RunTyped
      <4>2. l \notin loan_facts(m).loan_start[p]
        BY <2>2, <4>1, AccessNotLent
      <4> QED BY <2>2, <2>3, <3>1, <4>2 DEF LentRight
    <3>2. CASE l \in {e[2] : e \in {f \in stray : f[1] = Prim.src}}
      BY <2>1, <3>2 DEF RunTyped
    <3> QED BY <3>1, <3>2 DEF StillLent
  <2>5. PICK s \in Locations(m) : \E q \in get_loc_predecessors(m, s) :
          /\ IsTerminator(m, s)
          /\ l \in get_loans_dying_between(m, loan_facts(m), q, s, FALSE)
                     \cup get_loans_dying_between(m, loan_facts(m), q, s, TRUE)
          /\ l \notin EndedAt(m, q)
    BY <2>4 DEF Unseen
  <2>7. PICK q \in get_loc_predecessors(m, s) :
          /\ IsTerminator(m, s)
          /\ l \in get_loans_dying_between(m, loan_facts(m), q, s, FALSE)
                     \cup get_loans_dying_between(m, loan_facts(m), q, s, TRUE)
          /\ l \notin EndedAt(m, q)
    BY <2>5
  <2>6. Dying(q, s) = get_loans_dying_between(m, loan_facts(m), q, s, FALSE)
                        \cup get_loans_dying_between(m, loan_facts(m), q, s, TRUE)
        /\ EndedAtTerminator(q) = EndedAt(m, q)
    BY <2>1 DEF Dying, EndedAtTerminator, EndedAt
  <2> QED BY <2>1, <2>7, <2>6 DEF DiesUnseen
<1>2. Spec => []FormInv
  BY FormIsInvariant
<1> QED
  BY <1>1, <1>2, RunsTranslation, RunIsRight, PTL
=============================================================================
