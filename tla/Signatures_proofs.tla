------------------------- MODULE Signatures_proofs -------------------------
(* Proofs about the signatures of a crate: whatever its items and the      *)
(* attributes of its function are, every clause reaches the specification  *)
(* once and where it belongs, and an associated type that is determined by *)
(* an equality is no parameter of a finished scope.                        *)
EXTENDS Signatures, FixedPoints

---------------------------------------------------------------------------
(* Lists.                                                                  *)
LEMMA ListFacts ==
  ASSUME NEW s, IsList(s)
  PROVE  /\ Len(s) \in Nat /\ DOMAIN s = 1..Len(s)
         /\ \A i \in DOMAIN s : s[i] \in ToSet(s)
         /\ \A x \in ToSet(s) : \E i \in DOMAIN s : s[i] = x
         /\ IsFiniteSet(DOMAIN s) /\ IsFiniteSet(ToSet(s))
<1>1. Len(s) \in Nat /\ DOMAIN s = 1..Len(s)
  BY DEF IsList
<1>2. IsFiniteSet(1..Len(s))
  BY <1>1, FS_Interval
<1>3. IsFiniteSet(ToSet(s))
  <2>1. s \in Surjection(1..Len(s), ToSet(s))
    BY <1>1 DEF Surjection, ToSet, IsList
  <2> QED BY <1>2, <2>1, FS_Surjection
<1> QED BY <1>1, <1>2, <1>3 DEF ToSet

LEMMA SeqIsList ==
  ASSUME NEW S, NEW s \in Seq(S)
  PROVE  IsList(s) /\ ToSet(s) \subseteq S
BY DEF IsList, ToSet

(* The fold of FoldLeft, one element at a time from the last one.          *)
ListFolded(s, step, base, g) ==
  \A I \in SUBSET DOMAIN s : g[I] = IF I = {} THEN base ELSE step[Max(I)][g[I \ {Max(I)}]]

(* A fold over a list is defined, and stays where each of its steps does.  *)
LEMMA ListFold ==
  ASSUME NEW s, IsList(s), NEW V, NEW base \in V, NEW step \in [DOMAIN s -> [V -> V]]
  PROVE  \E g \in [SUBSET DOMAIN s -> V] : ListFolded(s, step, base, g)
<1> DEFINE D == DOMAIN s
           pick == [I \in SUBSET D |-> Max(I)]
<1>1. D \subseteq Nat /\ IsFiniteSet(D)
  BY ListFacts
<1>2. step \in [D -> [V -> V]]
  OBVIOUS
<1> HIDE DEF D
<1>3. \A I \in SUBSET D : I # {} => pick[I] \in I
  BY <1>1, MaxIn
<1>4. PICK g \in [SUBSET D -> V] : Folded(D, pick, step, base, g)
  <2> HIDE DEF pick
  <2> QED BY <1>1, <1>2, <1>3, SetFold
<1>5. ASSUME NEW I \in SUBSET D
      PROVE  g[I] = IF I = {} THEN base ELSE step[Max(I)][g[I \ {Max(I)}]]
  BY <1>4 DEF Folded
<1> QED BY <1>5 DEF D, ListFolded

LEMMA ListFoldStays ==
  ASSUME NEW s, IsList(s), NEW V, NEW f, f[{}] \in V,
         \A I \in SUBSET DOMAIN s : I # {} /\ f[I \ {Max(I)}] \in V => f[I] \in V
  PROVE  f[DOMAIN s] \in V
<1> DEFINE D == DOMAIN s
           pick == [I \in SUBSET D |-> Max(I)]
<1>1. D \subseteq Nat /\ IsFiniteSet(D)
  BY ListFacts
<1>2. f[{}] \in V /\ \A I \in SUBSET D : I # {} /\ f[I \ {Max(I)}] \in V => f[I] \in V
  OBVIOUS
<1> HIDE DEF D
<1>3. \A I \in SUBSET D : I # {} =>
        pick[I] \in I /\ (f[I \ {pick[I]}] \in V => f[I] \in V)
  BY <1>1, <1>2, MaxIn
<1>4. f[D] \in V
  <2> HIDE DEF pick
  <2> QED BY <1>1, <1>2, <1>3, FoldStays
<1> QED BY <1>4 DEF D

LEMMA MaxListed ==
  ASSUME NEW s, IsList(s), NEW I \in SUBSET DOMAIN s, I # {}
  PROVE  Max(I) \in I
<1>1. DOMAIN s \subseteq Nat /\ IsFiniteSet(DOMAIN s)
  BY ListFacts
<1> QED BY <1>1, MaxIn

---------------------------------------------------------------------------
(* The orders of the requirements are lists.                               *)
LEMMA InsertedList ==
  ASSUME NEW B, NEW s \in Seq(B), NEW b \in B, NEW i \in 1..(Len(s) + 1)
  PROVE  InsertAt(s, i, b) \in Seq(B) /\ ToSet(s) \cup {b} \subseteq ToSet(InsertAt(s, i, b))
<1> DEFINE u == SubSeq(s, 1, i - 1)
           v == SubSeq(s, i, Len(s))
           l == InsertAt(s, i, b)
<1>1. u \in Seq(B) /\ v \in Seq(B) /\ <<b>> \in Seq(B)
  OBVIOUS
<1>2. l = u \o <<b>> \o v
  BY DEF InsertAt
<1>3. l \in Seq(B)
  BY <1>1, <1>2
<1>4. Len(u) = i - 1 /\ Len(v) = Len(s) + 1 - i /\ Len(l) = Len(s) + 1
  <2>1. Len(u) = i - 1
    OBVIOUS
  <2>2. Len(v) = Len(s) + 1 - i
    OBVIOUS
  <2>3. \A x, y \in Seq(B) : x \o y \in Seq(B) /\ Len(x \o y) = Len(x) + Len(y)
    OBVIOUS
  <2>4. Len(<<b>>) = 1
    OBVIOUS
  <2> HIDE DEF u, v, l
  <2>5. u \o <<b>> \in Seq(B) /\ Len(u \o <<b>>) = i
    BY <1>1, <2>1, <2>3, <2>4
  <2>6. Len(l) = i + (Len(s) + 1 - i)
    BY <1>1, <1>2, <2>2, <2>3, <2>5
  <2> QED BY <2>1, <2>2, <2>6
<1>5. \A n \in 1..(i - 1) : u[n] = s[n]
  OBVIOUS
<1>6. \A n \in 1..(Len(s) + 1 - i) : v[n] = s[i + n - 1]
  OBVIOUS
<1> HIDE DEF u, v
<1>7. /\ \A n \in 1..(i - 1) : l[n] = u[n]
      /\ l[i] = b
      /\ \A n \in 1..(Len(s) + 1 - i) : l[i + n] = v[n]
  <2>1. PICK w, o : o = <<b>> /\ w = u \o o
    OBVIOUS
  <2>2. o \in Seq(B) /\ Len(o) = 1 /\ o[1] = b
    BY <2>1
  <2>3. \A x, y \in Seq(B) :
          /\ x \o y \in Seq(B) /\ Len(x \o y) = Len(x) + Len(y)
          /\ \A n \in 1..Len(x) : (x \o y)[n] = x[n]
          /\ \A n \in 1..Len(y) : (x \o y)[Len(x) + n] = y[n]
    OBVIOUS
  <2>4. i \in Nat /\ (i - 1) + 1 = i /\ i \in 1..i /\ 1..(i - 1) \subseteq 1..i
    OBVIOUS
  <2>5. w \in Seq(B) /\ Len(w) = i /\ (\A n \in 1..(i - 1) : w[n] = u[n]) /\ w[i] = b
    <3>1. /\ w \in Seq(B) /\ Len(w) = Len(u) + Len(o)
          /\ \A n \in 1..Len(u) : w[n] = u[n]
          /\ \A n \in 1..Len(o) : w[Len(u) + n] = o[n]
      BY ONLY <1>1, <2>1, <2>2, <2>3
    <3>2. 1 \in 1..1
      OBVIOUS
    <3> QED BY ONLY <1>4, <2>2, <2>4, <3>1, <3>2
  <2> HIDE DEF l
  <2>6. l = w \o v
    BY ONLY <1>2, <2>1
  <2>7. /\ \A n \in 1..Len(w) : l[n] = w[n]
        /\ \A n \in 1..Len(v) : l[Len(w) + n] = v[n]
    BY ONLY <1>1, <2>3, <2>5, <2>6
  <2>8. Len(v) = Len(s) + 1 - i
    BY <1>4
  <2> QED BY ONLY <2>4, <2>5, <2>7, <2>8
<1> HIDE DEF l
<1>8. ASSUME NEW x \in ToSet(s) PROVE x \in ToSet(l)
  <2>1. PICK n \in 1..Len(s) : x = s[n]
    BY DEF ToSet
  <2>2. CASE n < i
    <3>1. n \in 1..(i - 1) /\ n \in DOMAIN l
      BY <1>3, <1>4, <2>2
    <3> QED BY <1>5, <1>7, <2>1, <3>1 DEF ToSet
  <2>3. CASE ~(n < i)
    <3>1. n - i + 1 \in 1..(Len(s) + 1 - i) /\ i + (n - i + 1) \in DOMAIN l /\ i + (n - i + 1) - 1 = n
      BY <1>3, <1>4, <2>3
    <3>2. l[i + (n - i + 1)] = x
      BY <1>6, <1>7, <2>1, <3>1
    <3> QED BY <3>1, <3>2 DEF ToSet
  <2> QED BY <2>2, <2>3
<1>9. b \in ToSet(l)
  <2>1. i \in DOMAIN l
    BY <1>3, <1>4
  <2> QED BY <1>7, <2>1 DEF ToSet
<1> QED BY <1>3, <1>8, <1>9 DEF l

LEMMA SortedList ==
  ASSUME NEW B, NEW refs \in Seq(B), NEW decl
  PROVE  sort_by(refs, decl) \in Seq(B) /\ ToSet(refs) \subseteq ToSet(sort_by(refs, decl))
<1> DEFINE stop(s, b) == {j \in DOMAIN s : cmp_trait_ref(decl, b, s[j]) # -1}
           insert(s, b) == InsertAt(s, 1 + Max(stop(s, b) \cup {0}), b)
           V == Seq(B)
           D == DOMAIN refs
           step == [n \in D |-> [s \in V |-> insert(s, refs[n])]]
           Sat(f) == f = [I \in SUBSET D |->
                            IF I = {} THEN << >> ELSE insert(f[I \ {Max(I)}], refs[Max(I)])]
           iter == CHOOSE f : Sat(f)
<1>1. sort_by(refs, decl) = iter[D]
  BY DEF sort_by, FoldLeft, MapThenFoldSet
<1>2. ASSUME NEW s \in V, NEW n \in D
      PROVE  insert(s, refs[n]) \in V /\ ToSet(s) \cup {refs[n]} \subseteq ToSet(insert(s, refs[n]))
  <2> DEFINE S == stop(s, refs[n]) \cup {0}
  <2>1. S \subseteq 0..Len(s) /\ S # {}
    OBVIOUS
  <2>2. IsFiniteSet(0..Len(s)) /\ 0..Len(s) \subseteq Nat
    BY FS_Interval
  <2> HIDE DEF S
  <2>3. Max(S) \in 0..Len(s)
    BY <2>1, <2>2, MaxIn
  <2>4. 1 + Max(S) \in 1..(Len(s) + 1)
    BY <2>3
  <2>5. /\ InsertAt(s, 1 + Max(S), refs[n]) \in Seq(B)
        /\ ToSet(s) \cup {refs[n]} \subseteq ToSet(InsertAt(s, 1 + Max(S), refs[n]))
    BY <2>4, InsertedList
  <2> QED BY <2>5 DEF S
<1> HIDE DEF insert
<1>3. step \in [D -> [V -> V]]
  BY <1>2
<1>4. IsList(refs) /\ << >> \in V
  BY SeqIsList
<1>5. \A I \in SUBSET D : I # {} => Max(I) \in I
  BY <1>4, MaxListed
<1>6. \E f : Sat(f)
  <2>1. PICK g \in [SUBSET D -> V] : \A I \in SUBSET D :
          g[I] = IF I = {} THEN << >> ELSE step[Max(I)][g[I \ {Max(I)}]]
    <3>1. step \in [DOMAIN refs -> [V -> V]] /\ IsList(refs) /\ << >> \in V
      BY <1>3, <1>4
    <3> HIDE DEF step, V
    <3>2. \E g \in [SUBSET DOMAIN refs -> V] : ListFolded(refs, step, << >>, g)
      BY ONLY <3>1, ListFold
    <3> QED BY <3>2 DEF ListFolded
  <2>2. ASSUME NEW I \in SUBSET D
        PROVE  g[I] = IF I = {} THEN << >> ELSE insert(g[I \ {Max(I)}], refs[Max(I)])
    <3>1. I # {} => Max(I) \in D /\ g[I \ {Max(I)}] \in V
      BY <1>5
    <3> HIDE DEF V, D
    <3> QED BY <2>1, <3>1
  <2>3. g = [I \in SUBSET D |-> g[I]]
    OBVIOUS
  <2>4. Sat(g)
    <3> HIDE DEF D, V
    <3> QED BY <2>2, <2>3
  <2> HIDE DEF Sat
  <2> QED BY <2>4
<1>7. Sat(iter)
  <2> HIDE DEF Sat
  <2> QED BY <1>6
<1> HIDE DEF iter
<1> DEFINE W == {w \in (SUBSET D) \X V : \A n \in w[1] : refs[n] \in ToSet(w[2])}
           h == [I \in SUBSET D |-> <<I, iter[I]>>]
<1>8. h[{}] \in W
  <2>1. iter[{}] \in V
    BY <1>4, <1>7
  <2> HIDE DEF V
  <2> QED BY <2>1
<1>9. ASSUME NEW I \in SUBSET D, I # {}, h[I \ {Max(I)}] \in W PROVE h[I] \in W
  <2> DEFINE J == I \ {Max(I)}
  <2>1. Max(I) \in I /\ J \in SUBSET D
    BY <1>5, <1>9
  <2>2. iter[I] = insert(iter[J], refs[Max(I)])
    <3> HIDE DEF D
    <3> QED BY <1>7, <1>9
  <2> HIDE DEF V, D, J
  <2>3. <<J, iter[J]>> \in W
    BY <1>9, <2>1 DEF J
  <2>4. iter[J] \in V /\ \A n \in J : refs[n] \in ToSet(iter[J])
    BY <2>3
  <2>5. iter[I] \in V /\ ToSet(iter[J]) \cup {refs[Max(I)]} \subseteq ToSet(iter[I])
    BY <1>2, <2>1, <2>2, <2>4
  <2>6. \A n \in I : refs[n] \in ToSet(iter[I])
    BY <2>4, <2>5 DEF J
  <2>7. <<I, iter[I]>> \in W
    BY <2>5, <2>6
  <2> QED BY <2>7
<1>10. h[D] \in W
  <2>1. IsList(refs) /\ h[{}] \in W /\ \A I \in SUBSET DOMAIN refs : I # {} /\ h[I \ {Max(I)}] \in W => h[I] \in W
    BY <1>4, <1>8, <1>9
  <2> HIDE DEF V, W, h, Sat, D
  <2>2. h[DOMAIN refs] \in W
    BY ONLY <2>1, ListFoldStays
  <2> QED BY <2>2 DEF D
<1>11. iter[D] \in V /\ \A n \in D : refs[n] \in ToSet(iter[D])
  <2> HIDE DEF V, D
  <2> QED BY <1>10
<1> QED BY <1>1, <1>11 DEF ToSet

(* What is left of the requirements are always some of them.               *)
LEMMA LeftWithin ==
  ASSUME NEW refs, IsFiniteSet(DOMAIN refs)
  PROVE  /\ Left(refs)[0] = DOMAIN refs
         /\ \A n \in 0..Cardinality(DOMAIN refs) : Left(refs)[n] \subseteq DOMAIN refs
<1> DEFINE D == DOMAIN refs
           N == Cardinality(D)
           waits(S) == {i \in S : \E j \in S : refs[j].tr \in trait_get_deps(refs[i].tr)}
           Sat(f) == f = [n \in 0..N |-> IF n = 0 THEN D ELSE waits(f[n - 1])]
           left == CHOOSE f : Sat(f)
           step == [S \in SUBSET D |-> waits(S)]
<1>1. Left(refs) = left
  BY DEF Left
<1>2. N \in Nat
  BY FS_CardinalityType
<1>3. \A S \in SUBSET D : waits(S) \in SUBSET D
  OBVIOUS
<1> HIDE DEF waits, D, N
<1>4. \E f : Sat(f)
  <2> HIDE DEF step
  <2>1. PICK f : Iterates(N, step, D, f)
    BY <1>2, IterationExists
  <2>2. \A n \in 0..N : f[n] = IF n = 0 THEN D ELSE step[f[n - 1]]
    BY <2>1 DEF Iterates
  <2> DEFINE T == {n \in 0..N : f[n] \in SUBSET D}
  <2>3. 0 \in T
    BY <1>2, <2>2
  <2>4. ASSUME NEW n \in 0..(N - 1), n \in T PROVE n + 1 \in T
    <3>1. n + 1 \in 0..N /\ n + 1 # 0 /\ (n + 1) - 1 = n
      BY <1>2
    <3>2. f[n + 1] = step[f[n]]
      BY <2>2, <3>1
    <3>3. f[n] \in SUBSET D
      BY <2>4
    <3>4. f[n + 1] \in SUBSET D
      BY <1>3, <3>2, <3>3 DEF step
    <3> QED BY <3>1, <3>4
  <2>5. \A n \in 0..N : n \in T
    <3> HIDE DEF T
    <3> QED BY <1>2, <2>3, <2>4, RangeInduction
  <2>6. ASSUME NEW n \in 0..N PROVE f[n] = IF n = 0 THEN D ELSE waits(f[n - 1])
    <3>1. CASE n = 0
      BY <2>2, <3>1
    <3>2. CASE n # 0
      <4>1. n - 1 \in 0..N
        BY <1>2, <3>2
      <4>2. f[n - 1] \in SUBSET D
        BY <2>5, <4>1
      <4> QED BY <2>2, <3>2, <4>2 DEF step
    <3> QED BY <3>1, <3>2
  <2>7. f = [n \in 0..N |-> f[n]]
    BY <2>1 DEF Iterates
  <2>8. Sat(f)
    BY <2>6, <2>7
  <2> HIDE DEF Sat
  <2> QED BY <2>8
<1>5. Sat(left)
  <2> HIDE DEF Sat
  <2> QED BY <1>4
<1> HIDE DEF left
<1> DEFINE T == {n \in 0..N : left[n] \in SUBSET D}
<1>6. 0 \in T /\ left[0] = D
  BY <1>2, <1>5
<1>7. ASSUME NEW n \in 0..(N - 1), n \in T PROVE n + 1 \in T
  <2>1. n + 1 \in 0..N /\ n + 1 # 0 /\ (n + 1) - 1 = n
    BY <1>2
  <2>2. left[n + 1] = waits(left[n])
    BY <1>5, <2>1
  <2> QED BY <1>3, <1>7, <2>1, <2>2
<1>8. \A n \in 0..N : n \in T
  <2> HIDE DEF T
  <2> QED BY <1>2, <1>6, <1>7, RangeInduction
<1> QED BY <1>1, <1>6, <1>8 DEF D, N

(* Each requirement leaves the sort in one of the rounds, if all leave it. *)
LEMMA LeavesOnce ==
  ASSUME NEW refs, IsFiniteSet(DOMAIN refs), Left(refs)[Cardinality(DOMAIN refs)] = {}, NEW i \in DOMAIN refs
  PROVE  \E n \in 1..Cardinality(DOMAIN refs) : i \in Left(refs)[n - 1] \ Left(refs)[n]
<1> DEFINE N == Cardinality(DOMAIN refs)
           left == Left(refs)
           T == {n \in 0..N : i \notin left[n]}
<1>1. N \in Nat /\ left[0] = DOMAIN refs
  BY FS_CardinalityType, LeftWithin
<1> HIDE DEF N, left
<1>2. N \in T
  BY <1>1 DEF N, left
<1>3. T \subseteq Nat
  OBVIOUS
<1>4. PICK n \in T : \A m \in T : n <= m
  <2> HIDE DEF T
  <2> QED BY <1>2, <1>3, LeastNumber
<1>5. n # 0
  BY <1>1
<1>6. n - 1 \in 0..N /\ n \in 1..N /\ ~(n <= n - 1)
  BY <1>1, <1>5
<1>7. i \in left[n - 1]
  BY <1>4, <1>6
<1> QED BY <1>6, <1>7 DEF N, left

LEMMA Joined ==
  ASSUME NEW B, NEW s \in Seq(B), NEW r \in Seq(B)
  PROVE  s \o r \in Seq(B) /\ ToSet(s \o r) = ToSet(s) \cup ToSet(r)
<1>1. /\ s \o r \in Seq(B) /\ Len(s) \in Nat /\ Len(r) \in Nat
      /\ DOMAIN s = 1..Len(s) /\ DOMAIN r = 1..Len(r) /\ DOMAIN (s \o r) = 1..(Len(s) + Len(r))
  OBVIOUS
<1>2. \A i \in 1..Len(s) : i \in 1..(Len(s) + Len(r)) /\ (s \o r)[i] = s[i]
  OBVIOUS
<1>3. \A i \in 1..Len(r) : Len(s) + i \in 1..(Len(s) + Len(r)) /\ (s \o r)[Len(s) + i] = r[i]
  OBVIOUS
<1>4. \A i \in 1..(Len(s) + Len(r)) : i \in 1..Len(s) \/ (i - Len(s) \in 1..Len(r) /\ i = Len(s) + (i - Len(s)))
  BY <1>1
<1> DEFINE l == s \o r
<1>5. /\ l \in Seq(B) /\ DOMAIN l = 1..(Len(s) + Len(r))
      /\ \A i \in 1..Len(s) : i \in DOMAIN l /\ l[i] = s[i]
      /\ \A i \in 1..Len(r) : Len(s) + i \in DOMAIN l /\ l[Len(s) + i] = r[i]
  BY <1>1, <1>2, <1>3
<1> HIDE DEF l
<1>6. ToSet(s) \subseteq ToSet(l)
  BY <1>1, <1>5 DEF ToSet
<1>7. ToSet(r) \subseteq ToSet(l)
  BY <1>1, <1>5 DEF ToSet
<1>8. ASSUME NEW i \in DOMAIN l PROVE l[i] \in ToSet(s) \cup ToSet(r)
  <2>1. CASE i \in 1..Len(s)
    BY <1>1, <1>5, <2>1 DEF ToSet
  <2>2. CASE i - Len(s) \in 1..Len(r) /\ i = Len(s) + (i - Len(s))
    <3>1. l[i] = r[i - Len(s)]
      BY <1>5, <2>2
    <3> QED BY <1>1, <2>2, <3>1 DEF ToSet
  <2> QED BY <1>4, <1>5, <2>1, <2>2
<1>9. ToSet(l) \subseteq ToSet(s) \cup ToSet(r)
  BY <1>8 DEF ToSet
<1> QED BY <1>5, <1>6, <1>7, <1>9 DEF l

(* The fold of get_nontrivial starts from one list, and every round makes  *)
(* longer lists of the ones there are, which have the round's requirements.*)
LEMMA NontrivialLists ==
  ASSUME NEW B, NEW d, NEW decl, caller_bounds(d) \in Seq(B)
  PROVE  /\ get_nontrivial(d, decl) \subseteq Seq(B)
         /\ \A s \in get_nontrivial(d, decl) : \A b \in ToSet(caller_bounds(d)) :
              b.tr \notin Builtin => b \in ToSet(s)
<1> DEFINE bounds == caller_bounds(d)
           refs   == Restrict(bounds, {i \in DOMAIN bounds : bounds[i].tr \notin Builtin})
           N      == Cardinality(DOMAIN refs)
           left   == Left(refs)
           popped(layer) == {sort_by([i \in DOMAIN s |-> refs[s[i]]], decl) : s \in SetToSeqs(layer)}
           more   == [n \in 1..N |-> popped(left[n - 1] \ left[n])]
<1>1. DOMAIN refs \subseteq DOMAIN bounds /\ \A i \in DOMAIN refs : refs[i] \in B
  BY DEF Restrict
<1>0. \A b \in ToSet(bounds) : b.tr \notin Builtin => \E i \in DOMAIN refs : refs[i] = b
  BY DEF Restrict, ToSet
<1>2. IsFiniteSet(DOMAIN refs)
  <2>1. IsFiniteSet(DOMAIN bounds)
    BY SeqIsList, ListFacts
  <2> QED BY <1>1, <2>1, FS_Subset
<1> HIDE DEF refs
<1>3. N \in Nat /\ \A n \in 0..N : left[n] \subseteq DOMAIN refs
  BY <1>2, FS_CardinalityType, LeftWithin
<1>4. ASSUME NEW layer \in SUBSET DOMAIN refs
      PROVE  popped(layer) \subseteq Seq(B) /\ \A r \in popped(layer) : \A i \in layer : refs[i] \in ToSet(r)
  <2> SUFFICES ASSUME NEW s \in SetToSeqs(layer)
               PROVE  LET r == sort_by([i \in DOMAIN s |-> refs[s[i]]], decl)
                      IN  r \in Seq(B) /\ \A i \in layer : refs[i] \in ToSet(r)
    OBVIOUS
  <2>1. Cardinality(layer) \in Nat /\ s \in [1..Cardinality(layer) -> layer]
    BY <1>2, FS_Subset, FS_CardinalityType DEF SetToSeqs
  <2>2. [i \in DOMAIN s |-> refs[s[i]]] \in Seq(B)
    BY <1>1, <2>1
  <2>3. \A i \in layer : \E n \in DOMAIN s : s[n] = i
    <3>1. IsFiniteSet(layer)
      BY <1>2, FS_Subset
    <3>2. Cardinality(1..Cardinality(layer)) = Cardinality(layer)
      BY <2>1, FS_Interval
    <3>3. s \in Injection(1..Cardinality(layer), layer)
      BY <2>1 DEF SetToSeqs, Injection, IsInjective
    <3>4. s \in Surjection(1..Cardinality(layer), layer)
      BY <3>1, <3>2, <3>3, FS_Injection
    <3> QED BY <2>1, <3>4 DEF Surjection
  <2>4. \A i \in layer : refs[i] \in ToSet([n \in DOMAIN s |-> refs[s[n]]])
    BY <2>3 DEF ToSet
  <2> QED BY <2>2, <2>4, SortedList
<1> HIDE DEF popped, left, N
<1>5. \A n \in 1..N : /\ more[n] \subseteq Seq(B)
                      /\ \A r \in more[n] : \A i \in left[n - 1] \ left[n] : refs[i] \in ToSet(r)
  <2> TAKE n \in 1..N
  <2>1. n - 1 \in 0..N
    BY <1>3
  <2>2. left[n - 1] \ left[n] \in SUBSET DOMAIN refs
    BY <1>3, <2>1
  <2> QED BY <1>4, <2>2
<1> DEFINE append(done, n) == UNION {{s \o r : r \in popped(left[n - 1] \ left[n])} : s \in done}
           V == SUBSET Seq(B)
           idx == [n \in 1..N |-> n]
           D == DOMAIN idx
           step == [n \in D |-> [done \in V |-> append(done, n)]]
           Sat(f) == f = [I \in SUBSET D |->
                            IF I = {} THEN {<< >>} ELSE append(f[I \ {Max(I)}], idx[Max(I)])]
           iter == CHOOSE f : Sat(f)
<1>11. get_nontrivial(d, decl) = IF left[N] # {} THEN {} ELSE iter[D]
  BY DEF get_nontrivial, FoldLeft, MapThenFoldSet, popped, left, N, refs
<1>12. ASSUME NEW W \in V, NEW n \in D
       PROVE  /\ append(W, n) \in V
              /\ \A x \in append(W, n) : \E s \in W :
                   ToSet(s) \subseteq ToSet(x) /\ \A i \in left[n - 1] \ left[n] : refs[i] \in ToSet(x)
  <2>1. /\ popped(left[n - 1] \ left[n]) \subseteq Seq(B)
        /\ \A r \in popped(left[n - 1] \ left[n]) : \A i \in left[n - 1] \ left[n] : refs[i] \in ToSet(r)
    BY <1>5
  <2> HIDE DEF popped
  <2>2. ASSUME NEW s \in Seq(B), NEW r \in Seq(B)
        PROVE  s \o r \in Seq(B) /\ ToSet(s) \subseteq ToSet(s \o r) /\ ToSet(r) \subseteq ToSet(s \o r)
    BY Joined
  <2>3. ASSUME NEW x \in append(W, n)
        PROVE  \E s \in W, r \in popped(left[n - 1] \ left[n]) : x = s \o r
    <3>1. PICK s \in W : x \in {s \o r : r \in popped(left[n - 1] \ left[n])}
      OBVIOUS
    <3>2. PICK r \in popped(left[n - 1] \ left[n]) : x = s \o r
      BY <3>1
    <3> QED BY <3>2
  <2> HIDE DEF append
  <2>4. ASSUME NEW x \in append(W, n)
        PROVE  /\ x \in Seq(B)
               /\ \E s \in W :
                    ToSet(s) \subseteq ToSet(x) /\ \A i \in left[n - 1] \ left[n] : refs[i] \in ToSet(x)
    <3>1. PICK s \in W, r \in popped(left[n - 1] \ left[n]) : x = s \o r
      BY <2>3
    <3>2. s \in Seq(B) /\ r \in Seq(B)
      BY <2>1
    <3>3. x \in Seq(B) /\ ToSet(s) \subseteq ToSet(x) /\ ToSet(r) \subseteq ToSet(x)
      BY <2>2, <3>1, <3>2
    <3> QED BY <2>1, <3>1, <3>3
  <2>5. append(W, n) \subseteq Seq(B)
    BY <2>4
  <2> QED BY <2>4, <2>5
<1> HIDE DEF append
<1>13. step \in [D -> [V -> V]]
  BY <1>12
<1>14. IsList(idx) /\ {<< >>} \in V
  <2>1. idx \in Seq(1..N)
    BY <1>3
  <2>2. << >> \in Seq(B)
    OBVIOUS
  <2> QED BY <2>1, <2>2, SeqIsList
<1>15. \A I \in SUBSET D : I # {} => Max(I) \in I
  BY <1>14, MaxListed
<1>16. \E f : Sat(f)
  <2>1. PICK g \in [SUBSET D -> V] : \A I \in SUBSET D :
          g[I] = IF I = {} THEN {<< >>} ELSE step[Max(I)][g[I \ {Max(I)}]]
    <3>1. step \in [DOMAIN idx -> [V -> V]] /\ IsList(idx) /\ {<< >>} \in V
      BY <1>13, <1>14
    <3> HIDE DEF step, V, idx
    <3>2. \E g \in [SUBSET DOMAIN idx -> V] : ListFolded(idx, step, {<< >>}, g)
      BY ONLY <3>1, ListFold
    <3> QED BY <3>2 DEF ListFolded
  <2>2. ASSUME NEW I \in SUBSET D
        PROVE  g[I] = IF I = {} THEN {<< >>} ELSE append(g[I \ {Max(I)}], idx[Max(I)])
    <3>1. I # {} => Max(I) \in D /\ g[I \ {Max(I)}] \in V /\ idx[Max(I)] = Max(I)
      BY <1>15
    <3> HIDE DEF V, D
    <3> QED BY <2>1, <3>1
  <2>3. g = [I \in SUBSET D |-> g[I]]
    OBVIOUS
  <2>4. Sat(g)
    <3> HIDE DEF D, V, idx
    <3> QED BY <2>2, <2>3
  <2> HIDE DEF Sat
  <2> QED BY <2>4
<1>17. Sat(iter)
  <2> HIDE DEF Sat
  <2> QED BY <1>16
<1> HIDE DEF iter
<1> DEFINE has(s, n) == \A i \in left[n - 1] \ left[n] : refs[i] \in ToSet(s)
           R == {w \in (SUBSET D) \X V : \A s \in w[2] : \A n \in w[1] : has(s, n)}
           h == [I \in SUBSET D |-> <<I, iter[I]>>]
<1>18. h[{}] \in R
  <2>1. iter[{}] \in V
    BY <1>14, <1>17
  <2> HIDE DEF V, has
  <2> QED BY <2>1
<1>19. ASSUME NEW I \in SUBSET D, I # {}, h[I \ {Max(I)}] \in R PROVE h[I] \in R
  <2> DEFINE J == I \ {Max(I)}
             m == Max(I)
  <2>1. m \in I /\ J \in SUBSET D /\ idx[m] = m /\ m \in D
    BY <1>15, <1>19
  <2>2. iter[I] = append(iter[J], m)
    <3>1. iter[I] = append(iter[J], idx[m])
      <4> HIDE DEF D, idx
      <4> QED BY <1>17, <1>19
    <3> QED BY <2>1, <3>1
  <2> HIDE DEF V, D, J, m, idx, has
  <2>3. <<J, iter[J]>> \in R
    BY <1>19, <2>1 DEF J, m
  <2>4. iter[J] \in V /\ \A s \in iter[J] : \A n \in J : has(s, n)
    BY <2>3
  <2>5. /\ iter[I] \in V
        /\ \A x \in iter[I] : \E s \in iter[J] :
             ToSet(s) \subseteq ToSet(x) /\ \A i \in left[m - 1] \ left[m] : refs[i] \in ToSet(x)
    BY <1>12, <2>1, <2>2, <2>4
  <2>6. ASSUME NEW x \in iter[I], NEW n \in I PROVE has(x, n)
    <3>1. PICK s \in iter[J] : ToSet(s) \subseteq ToSet(x) /\ \A i \in left[m - 1] \ left[m] : refs[i] \in ToSet(x)
      BY <2>5
    <3>2. CASE n = m
      BY <3>1, <3>2 DEF has
    <3>3. CASE n # m
      <4>1. has(s, n)
        BY <2>4, <3>3 DEF J, m
      <4> QED BY <3>1, <4>1 DEF has
    <3> QED BY <3>2, <3>3
  <2>7. <<I, iter[I]>> \in R
    BY <2>5, <2>6
  <2> QED BY <2>7
<1>20. h[D] \in R
  <2>1. IsList(idx) /\ h[{}] \in R /\ \A I \in SUBSET DOMAIN idx : I # {} /\ h[I \ {Max(I)}] \in R => h[I] \in R
    BY <1>14, <1>18, <1>19
  <2> HIDE DEF V, R, h, Sat, D, idx
  <2>2. h[DOMAIN idx] \in R
    BY ONLY <2>1, ListFoldStays
  <2> QED BY <2>2 DEF D
<1>21. iter[D] \in V /\ \A s \in iter[D] : \A n \in D : has(s, n)
  <2> HIDE DEF V, D, has
  <2> QED BY <1>20
<1>22. ASSUME NEW s \in get_nontrivial(d, decl), NEW b \in ToSet(bounds), b.tr \notin Builtin PROVE b \in ToSet(s)
  <2>1. left[N] = {} /\ s \in iter[D]
    BY <1>11
  <2>2. PICK i \in DOMAIN refs : refs[i] = b
    BY <1>0, <1>22
  <2>3. PICK n \in 1..N : i \in left[n - 1] \ left[n]
    BY <1>2, <2>1, LeavesOnce DEF N, left
  <2>4. n \in D
    BY <2>3
  <2> QED BY <1>21, <2>1, <2>2, <2>3, <2>4
<1> QED BY <1>11, <1>21, <1>22

LEMMA Popped ==
  ASSUME NEW s, IsList(s), s # << >>
  PROVE  /\ IsList(Tail(s)) /\ Head(s) \in ToSet(s)
         /\ ToSet(Tail(s)) \subseteq ToSet(s)
         /\ \A x \in ToSet(s) : x = Head(s) \/ x \in ToSet(Tail(s))
<1> DEFINE S == ToSet(s)
<1>1. s \in Seq(S) /\ Len(s) \in Nat /\ DOMAIN s = 1..Len(s)
  BY ListFacts DEF IsList
<1>2. S = {s[i] : i \in DOMAIN s}
  BY DEF ToSet
<1> HIDE DEF S
<1>3. Len(s) # 0
  BY <1>1
<1>4. Tail(s) \in Seq(S) /\ Len(Tail(s)) = Len(s) - 1 /\ DOMAIN Tail(s) = 1..(Len(s) - 1)
  BY <1>1, <1>3
<1>5. \A i \in 1..(Len(s) - 1) : Tail(s)[i] = s[i + 1]
  BY <1>1, <1>3
<1>6. Head(s) = s[1] /\ 1 \in DOMAIN s
  BY <1>1, <1>3
<1>7. IsList(Tail(s)) /\ ToSet(Tail(s)) \subseteq S
  BY <1>4, SeqIsList
<1>8. ASSUME NEW x \in S, x # Head(s) PROVE x \in ToSet(Tail(s))
  <2>1. PICK i \in 1..Len(s) : x = s[i]
    BY <1>1, <1>2, <1>8
  <2>2. i # 1
    BY <1>6, <1>8, <2>1
  <2>3. i - 1 \in 1..(Len(s) - 1) /\ (i - 1) + 1 = i
    BY <1>1, <2>1, <2>2
  <2>4. Tail(s)[i - 1] = x
    BY <1>5, <2>1, <2>3
  <2> QED BY <1>4, <2>3, <2>4 DEF ToSet
<1>9. Head(s) \in S
  BY <1>2, <1>6
<1> QED BY <1>7, <1>8, <1>9 DEF S

LEMMA ReversedList ==
  ASSUME NEW s, IsList(s)
  PROVE  IsList(Reverse(s)) /\ ToSet(Reverse(s)) = ToSet(s)
<1> DEFINE S == ToSet(s)
<1>1. s \in Seq(S) /\ Len(s) \in Nat /\ DOMAIN s = 1..Len(s)
  BY ListFacts DEF IsList
<1>2. S = {s[i] : i \in DOMAIN s}
  BY DEF ToSet
<1> HIDE DEF S
<1>3. Reverse(s) \in Seq(S)
  <2>1. \A i \in 1..Len(s) : (Len(s) - i) + 1 \in 1..Len(s)
    BY <1>1
  <2> QED BY <1>1, <2>1 DEF Reverse
<1>4. IsList(Reverse(s)) /\ ToSet(Reverse(s)) \subseteq S
  BY <1>3, SeqIsList
<1>5. ASSUME NEW x \in S PROVE x \in ToSet(Reverse(s))
  <2>1. PICK i \in 1..Len(s) : x = s[i]
    BY <1>1, <1>2
  <2>2. (Len(s) - i) + 1 \in 1..Len(s) /\ (Len(s) - ((Len(s) - i) + 1)) + 1 = i
    BY <1>1
  <2>3. Reverse(s)[(Len(s) - i) + 1] = x /\ DOMAIN Reverse(s) = 1..Len(s)
    BY <2>1, <2>2 DEF Reverse
  <2> QED BY <2>2, <2>3 DEF ToSet
<1> QED BY <1>4, <1>5 DEF S

---------------------------------------------------------------------------
(* The scopes.  While a scope is built, a cell that is not empty belongs   *)
(* to a requirement that is no requirement on Self, and a name denotes a   *)
(* cell that declares it; in the last pass every requirement that was      *)
(* visited has its names.                                                  *)
Plain(key) == key[2][1] \in {<<p>> : p \in DOMAIN ParamIndex}
HasNames(key, ns) == \A a \in Attrs[key[1]] : <<key[2][1][1], a>> \in DOMAIN ns.attrs
NamesHold(cs, ns) ==
  \A q \in DOMAIN ns.attrs :
    ns.attrs[q] \in DOMAIN cs /\ ns.attrs[q][2][1] = <<q[1]>> /\ q[2] \in Attrs[ns.attrs[q][1]]
WholeCells(cs) == \A k \in DOMAIN cs : {"state", "overridden"} \subseteq DOMAIN cs[k]

Filled(rs, cs) ==
  \A k \in DOMAIN cs :
    cs[k].state # "empty" => \E r \in ToSet(rs) : r.key = k /\ ~r.is_self_in_trait_decl
Visited(p, td, rs, cs, ns) ==
  \A r \in ToSet(rs) :
    /\ r.key \in DOMAIN cs \/ (p = "preregister" /\ r \in ToSet(td))
    /\ p = "name" /\ r \notin ToSet(td) /\ ~r.is_self_in_trait_decl /\ Plain(r.key) => HasNames(r.key, ns)
Lists(td, rs) == IsList(rs) /\ IsList(td) /\ ToSet(td) \subseteq ToSet(rs)

InPass(p, td, rs, cs, ns) ==
  Lists(td, rs) /\ WholeCells(cs) /\ NamesHold(cs, ns) /\ Filled(rs, cs) /\ Visited(p, td, rs, cs, ns)

Complete(s) ==
  /\ {"cells", "names"} \subseteq DOMAIN s
  /\ WholeCells(s.cells) /\ NamesHold(s.cells, s.names)
  /\ \A k \in DOMAIN s.cells : s.cells[k].state # "empty" /\ Plain(k) => HasNames(k, s.names)

(* The passes over the cells.                                              *)
LEMMA CellsPass ==
  ASSUME NEW p, p # "name", NEW td, td # << >>, NEW rs, NEW cs, NEW ns, InPass(p, td, rs, cs, ns), NEW cs2,
         \/ cs2 = cs /\ p # "preregister"
         \/ LET r == Head(td) IN
            /\ DOMAIN cs \subseteq DOMAIN cs2 /\ DOMAIN cs2 \subseteq DOMAIN cs \cup {r.key}
            /\ p = "preregister" => r.key \in DOMAIN cs2
            /\ \A k \in DOMAIN cs2 : k # r.key => cs2[k] = cs[k]
            /\ r.key \in DOMAIN cs2 => {"state", "overridden"} \subseteq DOMAIN cs2[r.key]
            /\ r.key \in DOMAIN cs2 /\ cs2[r.key].state # "empty" => ~r.is_self_in_trait_decl
  PROVE  InPass(p, Tail(td), rs, cs2, ns)
<1> DEFINE r == Head(td)
<1>1. IsList(Tail(td)) /\ r \in ToSet(td) /\ ToSet(Tail(td)) \subseteq ToSet(td)
      /\ \A x \in ToSet(td) : x = r \/ x \in ToSet(Tail(td))
  BY Popped DEF InPass, Lists
<1>2. r \in ToSet(rs) /\ Lists(Tail(td), rs)
  BY <1>1 DEF InPass, Lists
<1> HIDE DEF r
<1>3. WholeCells(cs2)
  BY DEF InPass, WholeCells, r
<1>4. NamesHold(cs2, ns)
  BY DEF InPass, NamesHold
<1>5. Filled(rs, cs2)
  BY <1>2 DEF InPass, Filled, r
<1>6. Visited(p, Tail(td), rs, cs2, ns)
  BY <1>1 DEF InPass, Visited, r
<1> QED BY <1>2, <1>3, <1>4, <1>5, <1>6 DEF InPass

(* The pass over the names: a name is set to a key that declares it, and   *)
(* stays set.                                                              *)
LEMMA NamesPass ==
  ASSUME NEW td, td # << >>, NEW rs, NEW cs, NEW ns, InPass("name", td, rs, cs, ns), NEW ns2,
         LET key   == Head(td).key
             short == ~Head(td).is_self_in_trait_decl /\ Plain(key)
         IN  /\ short =>
                  /\ DOMAIN ns2.attrs = DOMAIN ns.attrs \cup {<<key[2][1][1], a>> : a \in Attrs[key[1]]}
                  /\ \A q \in DOMAIN ns2.attrs :
                       ns2.attrs[q] = IF q[1] = key[2][1][1] /\ q[2] \in Attrs[key[1]] THEN key ELSE ns.attrs[q]
             /\ ~short => ns2.attrs = ns.attrs
  PROVE  InPass("name", Tail(td), rs, cs, ns2)
<1> DEFINE r == Head(td)
           key == r.key
           short == ~r.is_self_in_trait_decl /\ Plain(key)
<1>1. IsList(Tail(td)) /\ r \in ToSet(td) /\ ToSet(Tail(td)) \subseteq ToSet(td)
      /\ \A x \in ToSet(td) : x = r \/ x \in ToSet(Tail(td))
  BY Popped DEF InPass, Lists
<1>2. r \in ToSet(rs) /\ Lists(Tail(td), rs)
  BY <1>1 DEF InPass, Lists
<1>3. r.key \in DOMAIN cs
  BY <1>2 DEF InPass, Visited
<1>4. short => /\ DOMAIN ns2.attrs = DOMAIN ns.attrs \cup {<<key[2][1][1], a>> : a \in Attrs[key[1]]}
               /\ \A q \in DOMAIN ns2.attrs :
                    ns2.attrs[q] = IF q[1] = key[2][1][1] /\ q[2] \in Attrs[key[1]] THEN key ELSE ns.attrs[q]
  OBVIOUS
<1>5. ~short => ns2.attrs = ns.attrs
  OBVIOUS
<1>6. Plain(key) => key[2][1] = <<key[2][1][1]>>
  BY DEF Plain
<1> HIDE DEF r
<1>7. NamesHold(cs, ns2)
  <2>1. CASE short
    <3> SUFFICES ASSUME NEW q \in DOMAIN ns2.attrs
                 PROVE  ns2.attrs[q] \in DOMAIN cs /\ ns2.attrs[q][2][1] = <<q[1]>> /\ q[2] \in Attrs[ns2.attrs[q][1]]
      BY DEF NamesHold
    <3>1. CASE q[1] = key[2][1][1] /\ q[2] \in Attrs[key[1]]
      <4>1. ns2.attrs[q] = key
        BY <1>4, <2>1, <3>1
      <4> QED BY <1>3, <1>6, <2>1, <3>1, <4>1
    <3>2. CASE ~(q[1] = key[2][1][1] /\ q[2] \in Attrs[key[1]])
      <4>1. ns2.attrs[q] = ns.attrs[q]
        BY <1>4, <2>1, <3>2
      <4>2. q \in DOMAIN ns.attrs
        BY <1>4, <2>1, <3>2
      <4> QED BY <4>1, <4>2 DEF InPass, NamesHold
    <3> QED BY <3>1, <3>2
  <2>2. CASE ~short
    BY <1>5, <2>2 DEF InPass, NamesHold
  <2> QED BY <2>1, <2>2
<1>8. Visited("name", Tail(td), rs, cs, ns2)
  <2> SUFFICES ASSUME NEW x \in ToSet(rs)
               PROVE  /\ x.key \in DOMAIN cs
                      /\ x \notin ToSet(Tail(td)) /\ ~x.is_self_in_trait_decl /\ Plain(x.key) => HasNames(x.key, ns2)
    BY DEF Visited
  <2>1. x.key \in DOMAIN cs
    BY DEF InPass, Visited
  <2>2. ASSUME x \notin ToSet(Tail(td)), ~x.is_self_in_trait_decl, Plain(x.key) PROVE HasNames(x.key, ns2)
    <3>1. CASE x = r
      <4>1. short
        BY <2>2, <3>1
      <4> QED BY <1>4, <3>1, <4>1 DEF HasNames
    <3>2. CASE x # r
      <4>1. HasNames(x.key, ns)
        BY <1>1, <2>2, <3>2 DEF InPass, Visited
      <4>2. DOMAIN ns.attrs \subseteq DOMAIN ns2.attrs
        BY <1>4, <1>5
      <4> QED BY <4>1, <4>2 DEF HasNames
    <3> QED BY <3>1, <3>2
  <2> QED BY <2>1, <2>2
<1> QED BY <1>2, <1>7, <1>8 DEF InPass

(* From one pass to the next, and from the last one to the finished scope. *)
LEMMA NextPassKept ==
  ASSUME NEW p, NEW td, NEW rs, NEW cs, NEW ns, InPass(p, td, rs, cs, ns), p # "name", td = << >>,
         NEW p2, p2 # "preregister", NEW td2, td2 = IF p2 = "name" THEN rs ELSE Reverse(rs)
  PROVE  InPass(p2, td2, rs, cs, ns)
<1>1. IsList(td2) /\ ToSet(td2) = ToSet(rs)
  BY ReversedList DEF InPass, Lists
<1>2. Lists(td2, rs)
  BY <1>1 DEF InPass, Lists
<1>3. ToSet(td) = {}
  BY DEF ToSet
<1>4. Visited(p2, td2, rs, cs, ns)
  BY <1>1, <1>3 DEF InPass, Visited
<1> QED BY <1>2, <1>4 DEF InPass

LEMMA ScopeComplete ==
  ASSUME NEW td, td = << >>, NEW rs, NEW cs, NEW ns, InPass("name", td, rs, cs, ns), NEW d
  PROVE  Complete(GenericScope(d, rs, cs, ns))
<1> DEFINE s == GenericScope(d, rs, cs, ns)
<1>1. s.cells = cs /\ s.names = ns /\ {"cells", "names"} \subseteq DOMAIN s
  BY DEF GenericScope
<1>2. ToSet(td) = {}
  BY DEF ToSet
<1>3. ASSUME NEW k \in DOMAIN cs, cs[k].state # "empty", Plain(k) PROVE HasNames(k, ns)
  BY <1>2, <1>3 DEF InPass, Filled, Visited
<1> HIDE DEF s
<1> QED BY <1>1, <1>3 DEF Complete, InPass, s

Given ==
  /\ program \in Programs
  /\ \A d \in DOMAIN program.items : \A order \in orders[d] : IsList(order)

Passes == {"preregister", "fill", "constrain", "finalize", "name"}
ScopeInv ==
  /\ DOMAIN scopes \subseteq ToSet(program.order)
  /\ AllScopes => did = "" /\ pass = "none"
  /\ pass # "none" => did \in ToSet(program.order)
  /\ pass = "collect" => DOMAIN cells = {} /\ DOMAIN names.attrs = {}
  /\ pass \in Passes => InPass(pass, todo, reqs, cells, names)
  /\ \A d \in DOMAIN scopes : Complete(scopes[d])

(* As long as scopes are missing, the order goes on.                       *)
LEMMA NextItem ==
  ASSUME Given, DOMAIN scopes \subseteq ToSet(program.order), ~AllScopes
  PROVE  program.order[Cardinality(DOMAIN scopes) + 1] \in ToSet(program.order)
<1> DEFINE s == program.order
           S == ToSet(s)
           C == DOMAIN scopes
<1>1. IsList(s)
  BY ProgramsAssumption DEF Given
<1>2. Len(s) \in Nat /\ DOMAIN s = 1..Len(s) /\ IsFiniteSet(S)
  BY <1>1, ListFacts
<1>3. Cardinality(S) <= Len(s) /\ Cardinality(S) \in Nat
  <2>1. s \in Surjection(1..Len(s), S)
    BY <1>1, <1>2 DEF Surjection, ToSet, IsList
  <2>2. IsFiniteSet(1..Len(s)) /\ Cardinality(1..Len(s)) = Len(s)
    BY <1>2, FS_Interval
  <2> HIDE DEF S, s
  <2>3. Cardinality(S) <= Cardinality(1..Len(s))
    BY <2>1, <2>2, FS_Surjection
  <2> QED BY <1>2, <2>2, <2>3, FS_CardinalityType
<1>4. C \subseteq S /\ C # S
  BY DEF AllScopes
<1>5. Cardinality(C) < Cardinality(S) /\ Cardinality(C) \in Nat
  <2> HIDE DEF S, C
  <2>1. IsFiniteSet(C)
    BY <1>2, <1>4, FS_Subset
  <2> QED BY <1>2, <1>4, <2>1, FS_Subset, FS_CardinalityType
<1>6. Cardinality(C) + 1 \in 1..Len(s)
  BY <1>3, <1>5
<1> QED BY <1>2, <1>6 DEF ToSet

LEMMA BuildStep ==
  ASSUME Given, ScopeInv, BuildScope, UNCHANGED <<program, orders>>
  PROVE  ScopeInv'
<1>1. ToSet(program.order) \subseteq DOMAIN program.items
  BY ProgramsAssumption DEF Given
<1>2. ASSUME NewFromGenerics PROVE ScopeInv'
  <2>1. did' \in ToSet(program.order)
    BY <1>2, NextItem DEF NewFromGenerics, ScopeInv
  <2>2. pass' = "collect" /\ scopes' = scopes /\ ~AllScopes
    BY <1>2 DEF NewFromGenerics
  <2>3. DOMAIN cells' = {} /\ DOMAIN names'.attrs = {}
    BY <1>2 DEF NewFromGenerics
  <2> QED BY <2>1, <2>2, <2>3 DEF ScopeInv, AllScopes, Passes
<1>3. ASSUME CollectRequirements PROVE ScopeInv'
  <2>1. pass = "collect" /\ pass' = "preregister"
    BY <1>3 DEF CollectRequirements
  <2>2. did \in DOMAIN program.items
    BY <1>1, <2>1 DEF ScopeInv
  <2>3. IsList(reqs') /\ todo' = reqs'
    BY <1>3, <2>2 DEF CollectRequirements, Given, get_trait_requirements_with_origin
  <2>4. PICK rs : rs = reqs'
    OBVIOUS
  <2>5. DOMAIN cells = {} /\ DOMAIN names.attrs = {}
    BY <2>1 DEF ScopeInv
  <2>6. InPass("preregister", rs, rs, cells, names)
    BY <2>3, <2>4, <2>5 DEF InPass, Lists, WholeCells, NamesHold, Filled, Visited
  <2>7. UNCHANGED <<did, cells, names, scopes>>
    BY <1>3 DEF CollectRequirements
  <2> QED BY <2>1, <2>3, <2>4, <2>6, <2>7 DEF ScopeInv, AllScopes, Passes
<1>4. ASSUME SortForever PROVE ScopeInv'
  <2>1. UNCHANGED <<did, pass, todo, reqs, cells, names, scopes>>
    BY <1>4 DEF SortForever
  <2> QED BY <2>1 DEF ScopeInv, AllScopes
<1>5. ASSUME pass \in Passes, todo # << >>, UNCHANGED <<did, pass, reqs, scopes>>,
             InPass(pass, Tail(todo), reqs, cells', names'), todo' = Tail(todo)
      PROVE  ScopeInv'
  BY <1>5 DEF ScopeInv, AllScopes, Passes
<1>6. ASSUME NEW p, Visit(p), p \in Passes PROVE pass = p /\ todo # << >> /\ InPass(pass, todo, reqs, cells, names)
  BY <1>6 DEF Visit, ScopeInv
<1> DEFINE r == Head(todo)
<1>7. ASSUME PreRegister PROVE ScopeInv'
  <2>1. pass = "preregister" /\ pass \in Passes /\ todo # << >> /\ InPass(pass, todo, reqs, cells, names)
    BY <1>6, <1>7 DEF PreRegister, Passes
  <2>2. PICK cs2 : cs2 = cells'
    OBVIOUS
  <2>3. /\ DOMAIN cs2 = DOMAIN cells \cup {r.key}
        /\ \A k \in DOMAIN cs2 : k # r.key => cs2[k] = cells[k]
        /\ cs2[r.key] = [Empty EXCEPT !.self_use = r.is_self_in_trait_decl]
    BY <1>7, <2>2 DEF PreRegister
  <2>4. {"state", "overridden"} \subseteq DOMAIN cs2[r.key] /\ cs2[r.key].state = "empty"
    BY <2>3 DEF Empty
  <2>5. InPass(pass, Tail(todo), reqs, cs2, names)
    BY <2>1, <2>3, <2>4, CellsPass
  <2>6. UNCHANGED <<did, pass, reqs, names, scopes>> /\ todo' = Tail(todo)
    BY <1>7 DEF PreRegister
  <2> QED BY <1>5, <2>1, <2>2, <2>5, <2>6

<1>8. ASSUME pass \in Passes, pass \notin {"preregister", "name"}, todo # << >>,
             InPass(pass, todo, reqs, cells, names), NEW cs2, cs2 = cells',
             \/ cs2 = cells
             \/ /\ ~r.is_self_in_trait_decl /\ DOMAIN cs2 = DOMAIN cells
                /\ \A k \in DOMAIN cs2 : k # r.key => cs2[k] = cells[k]
                /\ r.key \in DOMAIN cs2 => DOMAIN cs2[r.key] = DOMAIN cells[r.key],
             UNCHANGED <<did, pass, reqs, names, scopes>>, todo' = Tail(todo)
      PROVE  ScopeInv'
  <2>1. r.key \in DOMAIN cells => {"state", "overridden"} \subseteq DOMAIN cells[r.key]
    BY <1>8 DEF InPass, WholeCells
  <2>2. InPass(pass, Tail(todo), reqs, cs2, names)
    BY <1>8, <2>1, CellsPass
  <2> QED BY <1>5, <1>8, <2>2
<1>9. ASSUME fill_trait_use PROVE ScopeInv'
  <2>1. pass = "fill" /\ todo # << >> /\ InPass(pass, todo, reqs, cells, names)
    BY <1>6, <1>9 DEF fill_trait_use, Passes
  <2>2. PICK cs2 : cs2 = cells'
    OBVIOUS
  <2>3. \/ cs2 = cells
        \/ /\ ~r.is_self_in_trait_decl /\ DOMAIN cs2 = DOMAIN cells
           /\ \A k \in DOMAIN cs2 : k # r.key => cs2[k] = cells[k]
           /\ r.key \in DOMAIN cs2 => DOMAIN cs2[r.key] = DOMAIN cells[r.key]
    BY <1>9, <2>2 DEF fill_trait_use
  <2>4. UNCHANGED <<did, pass, reqs, names, scopes>> /\ todo' = Tail(todo)
    BY <1>9 DEF fill_trait_use
  <2>5. pass \in Passes /\ pass \notin {"preregister", "name"}
    BY <2>1 DEF Passes
  <2> QED BY <1>8, <2>1, <2>2, <2>3, <2>4, <2>5
<1>10. ASSUME ConstrainAssocTypes PROVE ScopeInv'
  <2>1. pass = "constrain" /\ todo # << >> /\ InPass(pass, todo, reqs, cells, names)
    BY <1>6, <1>10 DEF ConstrainAssocTypes, Passes
  <2>2. PICK cs2 : cs2 = cells'
    OBVIOUS
  <2>3. \/ cs2 = cells
        \/ /\ ~r.is_self_in_trait_decl /\ DOMAIN cs2 = DOMAIN cells
           /\ \A k \in DOMAIN cs2 : k # r.key => cs2[k] = cells[k]
           /\ r.key \in DOMAIN cs2 => DOMAIN cs2[r.key] = DOMAIN cells[r.key]
    BY <1>10, <2>2 DEF ConstrainAssocTypes
  <2>4. UNCHANGED <<did, pass, reqs, names, scopes>> /\ todo' = Tail(todo)
    BY <1>10 DEF ConstrainAssocTypes
  <2>5. pass \in Passes /\ pass \notin {"preregister", "name"}
    BY <2>1 DEF Passes
  <2> QED BY <1>8, <2>1, <2>2, <2>3, <2>4, <2>5
<1>11. ASSUME finalize_trait_use PROVE ScopeInv'
  <2>1. pass = "finalize" /\ todo # << >> /\ InPass(pass, todo, reqs, cells, names)
    BY <1>6, <1>11 DEF finalize_trait_use, Passes
  <2>2. PICK cs2 : cs2 = cells'
    OBVIOUS
  <2>3. \/ cs2 = cells
        \/ /\ ~r.is_self_in_trait_decl /\ DOMAIN cs2 = DOMAIN cells
           /\ \A k \in DOMAIN cs2 : k # r.key => cs2[k] = cells[k]
           /\ r.key \in DOMAIN cs2 => DOMAIN cs2[r.key] = DOMAIN cells[r.key]
    <3>1. CASE cells' = cells
      BY <2>2, <3>1
    <3>2. CASE cells' # cells
      <4>1. /\ ~r.is_self_in_trait_decl
            /\ \E order \in get_trait_requirements_with_origin(r.key[1]) :
                 cells' = [cells EXCEPT ![r.key] =
                   [@ EXCEPT !.state = "final", !.tys = r.key[2],
                             !.reqs = resolve_trait_requirements(r.key[1], order, InstOf(r.key[1], r.key[2]), FALSE,
                                                                 did, cells)]]
        BY <1>11, <3>2 DEF finalize_trait_use
      <4>2. PICK new : cells' = [cells EXCEPT ![r.key] = [@ EXCEPT !.state = "final", !.tys = r.key[2], !.reqs = new]]
        BY <4>1
      <4> QED BY <2>2, <4>1, <4>2
    <3> QED BY <3>1, <3>2
  <2>4. UNCHANGED <<did, pass, reqs, names, scopes>> /\ todo' = Tail(todo)
    BY <1>11 DEF finalize_trait_use
  <2>5. pass \in Passes /\ pass \notin {"preregister", "name"}
    BY <2>1 DEF Passes
  <2> QED BY <1>8, <2>1, <2>2, <2>3, <2>4, <2>5
<1>12. ASSUME PrecomputeNames PROVE ScopeInv'
  <2>1. pass = "name" /\ pass \in Passes /\ todo # << >> /\ InPass(pass, todo, reqs, cells, names)
    BY <1>6, <1>12 DEF PrecomputeNames, Passes
  <2>2. PICK ns2 : ns2 = names'
    OBVIOUS
  <2> DEFINE key == r.key
             short == ~r.is_self_in_trait_decl /\ Plain(key)
  <2>3. /\ short =>
             /\ DOMAIN ns2.attrs = DOMAIN names.attrs \cup {<<key[2][1][1], a>> : a \in Attrs[key[1]]}
             /\ \A q \in DOMAIN ns2.attrs :
                  ns2.attrs[q] = IF q[1] = key[2][1][1] /\ q[2] \in Attrs[key[1]] THEN key ELSE names.attrs[q]
        /\ ~short => ns2.attrs = names.attrs
    BY <1>12, <2>2 DEF PrecomputeNames, Plain
  <2>4. InPass("name", Tail(todo), reqs, cells, ns2)
    BY <2>1, <2>3, NamesPass
  <2>5. UNCHANGED <<did, pass, reqs, cells, scopes>> /\ todo' = Tail(todo)
    BY <1>12 DEF PrecomputeNames
  <2> QED BY <1>5, <2>1, <2>2, <2>4, <2>5
<1>13. ASSUME PassDone PROVE ScopeInv'
  <2>1. /\ pass \in Passes /\ pass # "name" /\ todo = << >>
        /\ UNCHANGED <<did, reqs, cells, names, scopes>>
    BY <1>13 DEF PassDone, Passes
  <2>2. /\ pass' \in Passes \ {"preregister"}
        /\ todo' = IF pass' = "name" THEN reqs ELSE Reverse(reqs)
    BY <1>13 DEF PassDone, NextPass, Passes
  <2>3. PICK p2, td2 : p2 = pass' /\ td2 = todo'
    OBVIOUS
  <2>4. InPass(p2, td2, reqs, cells, names)
    BY <2>1, <2>2, <2>3, NextPassKept DEF ScopeInv
  <2>5. ~AllScopes /\ did \in ToSet(program.order)
    BY <2>1 DEF ScopeInv, Passes
  <2> QED BY <2>1, <2>2, <2>3, <2>4, <2>5 DEF ScopeInv, AllScopes, Passes
<1>14. ASSUME IntoGenericScope PROVE ScopeInv'
  <2>1. /\ pass = "name" /\ todo = << >> /\ InPass("name", todo, reqs, cells, names)
        /\ UNCHANGED <<todo, reqs, cells, names>>
    BY <1>14 DEF IntoGenericScope, ScopeInv, Passes
  <2>2. ~AllScopes /\ did \in ToSet(program.order)
    BY <2>1 DEF ScopeInv
  <2>3. CASE SharedKey
    <3>1. UNCHANGED <<did, pass, scopes>>
      BY <1>14, <2>3 DEF IntoGenericScope
    <3> QED BY <2>1, <3>1 DEF ScopeInv, AllScopes
  <2>4. CASE ~SharedKey
    <3>1. Complete(GenericScope(did, reqs, cells, names))
      BY <2>1, ScopeComplete
    <3>2. /\ DOMAIN scopes' = DOMAIN scopes \cup {did}
          /\ \A d \in DOMAIN scopes' : scopes'[d] = IF d = did THEN GenericScope(did, reqs, cells, names) ELSE scopes[d]
          /\ did' = "" /\ pass' = "none"
      BY <1>14, <2>4 DEF IntoGenericScope
    <3>3. PICK ss : ss = scopes'
      OBVIOUS
    <3>4. \A d \in DOMAIN ss : Complete(ss[d])
      BY <3>1, <3>2, <3>3 DEF ScopeInv
    <3> QED BY <2>2, <3>2, <3>3, <3>4 DEF ScopeInv, Passes
  <2> QED BY <2>3, <2>4
<1> QED BY <1>2, <1>3, <1>4, <1>7, <1>9, <1>10, <1>11, <1>12, <1>13, <1>14 DEF BuildScope

---------------------------------------------------------------------------
(* The clauses.  What has been handled of the attributes is in the lists   *)
(* of the specification, in its order.                                     *)
OkBefore(attrs, m) == \E o \in 1..m : attrs[o].kind = "ok"
Clauses(attrs, kinds, after, m) ==
  {n \in DOMAIN attrs :
     /\ n <= m /\ attrs[n].kind \in kinds
     /\ attrs[n].kind = "requires" => attrs[n].form \notin {"linktime", "trait"}
     /\ after <=> OkBefore(attrs, n - 1)}
PostClauses(attrs, m) ==
  Clauses(attrs, {"ensures", "observe"}, FALSE, m) \cup Clauses(attrs, {"observe"}, TRUE, m)
Numbers(post) == [i \in DOMAIN post |-> post[i].clause]

SpecFields == {"at", "params", "args", "preconditions", "postconditions", "existentials", "ret",
               "got_args", "ok_mode", "ok_exists", "ok_requires", "ok_ensures"}
Collected(attrs, s, m) ==
  /\ s.ok_mode <=> OkBefore(attrs, m)
  /\ s.preconditions \in Seq(Nat) /\ InOrder(s.preconditions, Clauses(attrs, {"requires"}, FALSE, m))
  /\ s.ok_requires \in Seq(Nat) /\ InOrder(s.ok_requires, Clauses(attrs, {"requires"}, TRUE, m))
  /\ s.ok_ensures \in Seq(Nat) /\ InOrder(s.ok_ensures, Clauses(attrs, {"ensures"}, TRUE, m))
  /\ s.postconditions \in Seq([clause : Nat]) /\ InOrder(Numbers(s.postconditions), PostClauses(attrs, m))

LEMMA AppendedInOrder ==
  ASSUME NEW s \in Seq(Nat), NEW S, InOrder(s, S), NEW n \in Nat, \A x \in S : x < n
  PROVE  Append(s, n) \in Seq(Nat) /\ InOrder(Append(s, n), S \cup {n})
<1>1. Len(s) \in Nat /\ DOMAIN s = 1..Len(s)
  OBVIOUS
<1>2. /\ Append(s, n) \in Seq(Nat) /\ DOMAIN Append(s, n) = 1..(Len(s) + 1)
      /\ \A i \in 1..Len(s) : Append(s, n)[i] = s[i]
      /\ Append(s, n)[Len(s) + 1] = n
  OBVIOUS
<1>3. ToSet(Append(s, n)) = S \cup {n}
  <2>1. S = {s[i] : i \in 1..Len(s)}
    BY <1>1 DEF InOrder, ToSet
  <2>2. 1..(Len(s) + 1) = 1..Len(s) \cup {Len(s) + 1}
    BY <1>1
  <2>3. ToSet(Append(s, n)) = {Append(s, n)[i] : i \in 1..(Len(s) + 1)}
    BY <1>2 DEF ToSet
  <2> QED BY <1>2, <2>1, <2>2, <2>3
<1>4. ASSUME NEW i \in 1..(Len(s) + 1), NEW j \in 1..(Len(s) + 1), i < j
      PROVE  Append(s, n)[i] < Append(s, n)[j]
  <2>1. i \in 1..Len(s) /\ s[i] \in S
    <3>1. i \in 1..Len(s)
      BY <1>1, <1>4
    <3> QED BY <1>1, <3>1 DEF InOrder, ToSet
  <2>2. CASE j \in 1..Len(s)
    BY <1>1, <1>2, <1>4, <2>1, <2>2 DEF InOrder
  <2>3. CASE j \notin 1..Len(s)
    <3>1. j = Len(s) + 1
      BY <1>1, <2>3
    <3> QED BY <1>2, <2>1, <3>1
  <2> QED BY <2>2, <2>3
<1> QED BY <1>2, <1>3, <1>4 DEF InOrder

(* The attribute after the first m ones.                                   *)
IsClause(attrs, kinds, after, n) ==
  /\ attrs[n].kind \in kinds
  /\ attrs[n].kind = "requires" => attrs[n].form \notin {"linktime", "trait"}
  /\ after <=> OkBefore(attrs, n - 1)

LEMMA NextClause ==
  ASSUME NEW attrs, IsList(attrs), NEW m \in Nat, m < Len(attrs), NEW kinds, NEW after \in BOOLEAN
  PROVE  /\ IsClause(attrs, kinds, after, m + 1) =>
              Clauses(attrs, kinds, after, m + 1) = Clauses(attrs, kinds, after, m) \cup {m + 1}
         /\ ~IsClause(attrs, kinds, after, m + 1) =>
              Clauses(attrs, kinds, after, m + 1) = Clauses(attrs, kinds, after, m)
         /\ \A x \in Clauses(attrs, kinds, after, m) : x < m + 1
<1>1. Len(attrs) \in Nat /\ DOMAIN attrs = 1..Len(attrs)
  BY ListFacts
<1>2. \A n \in DOMAIN attrs : n <= m + 1 <=> n <= m \/ n = m + 1
  BY <1>1
<1>3. m + 1 \in DOMAIN attrs /\ ~(m + 1 <= m)
  BY <1>1
<1>4. \A n \in DOMAIN attrs : n <= m => n < m + 1
  BY <1>1
<1> QED BY <1>2, <1>3, <1>4 DEF Clauses, IsClause

Extend(attrs, list, kinds, after, n) == IF IsClause(attrs, kinds, after, n) THEN Append(list, n) ELSE list
Extended(attrs, s, s2, n) ==
  /\ s2.ok_mode <=> (s.ok_mode \/ attrs[n].kind = "ok")
  /\ s2.preconditions = Extend(attrs, s.preconditions, {"requires"}, FALSE, n)
  /\ s2.ok_requires = Extend(attrs, s.ok_requires, {"requires"}, TRUE, n)
  /\ s2.ok_ensures = Extend(attrs, s.ok_ensures, {"ensures"}, TRUE, n)
  /\ s2.postconditions =
       IF IsClause(attrs, {"ensures", "observe"}, FALSE, n) \/ IsClause(attrs, {"observe"}, TRUE, n)
       THEN Append(s.postconditions, [clause |-> n]) ELSE s.postconditions

LEMMA CollectStep ==
  ASSUME NEW attrs, IsList(attrs), NEW m \in Nat, m < Len(attrs), NEW s, Collected(attrs, s, m), NEW s2,
         Extended(attrs, s, s2, m + 1)
  PROVE  Collected(attrs, s2, m + 1)
<1> DEFINE n == m + 1
           extend(list, kinds, after) == Extend(attrs, list, kinds, after, n)
<1>1. /\ s2.ok_mode <=> (s.ok_mode \/ attrs[n].kind = "ok")
      /\ s2.preconditions = extend(s.preconditions, {"requires"}, FALSE)
      /\ s2.ok_requires = extend(s.ok_requires, {"requires"}, TRUE)
      /\ s2.ok_ensures = extend(s.ok_ensures, {"ensures"}, TRUE)
      /\ s2.postconditions =
           IF IsClause(attrs, {"ensures", "observe"}, FALSE, n) \/ IsClause(attrs, {"observe"}, TRUE, n)
           THEN Append(s.postconditions, [clause |-> n]) ELSE s.postconditions
  BY DEF Extended
<1>2. s2.ok_mode <=> OkBefore(attrs, n)
  <2>1. \A o \in 1..n : o \in 1..m \/ o = n
    OBVIOUS
  <2>2. 1..m \subseteq 1..n /\ n \in 1..n
    OBVIOUS
  <2> QED BY <1>1, <2>1, <2>2 DEF Collected, OkBefore
<1>3. ASSUME NEW list \in Seq(Nat), NEW kinds, NEW after \in BOOLEAN, InOrder(list, Clauses(attrs, kinds, after, m))
      PROVE  /\ extend(list, kinds, after) \in Seq(Nat)
             /\ InOrder(extend(list, kinds, after), Clauses(attrs, kinds, after, n))
  BY <1>3, NextClause, AppendedInOrder DEF Extend
<1>4. /\ s2.preconditions \in Seq(Nat) /\ InOrder(s2.preconditions, Clauses(attrs, {"requires"}, FALSE, n))
      /\ s2.ok_requires \in Seq(Nat) /\ InOrder(s2.ok_requires, Clauses(attrs, {"requires"}, TRUE, n))
      /\ s2.ok_ensures \in Seq(Nat) /\ InOrder(s2.ok_ensures, Clauses(attrs, {"ensures"}, TRUE, n))
  <2> HIDE DEF extend, n
  <2>1. s2.preconditions \in Seq(Nat) /\ InOrder(s2.preconditions, Clauses(attrs, {"requires"}, FALSE, n))
    BY <1>1, <1>3 DEF Collected
  <2>2. s2.ok_requires \in Seq(Nat) /\ InOrder(s2.ok_requires, Clauses(attrs, {"requires"}, TRUE, n))
    BY <1>1, <1>3 DEF Collected
  <2>3. s2.ok_ensures \in Seq(Nat) /\ InOrder(s2.ok_ensures, Clauses(attrs, {"ensures"}, TRUE, n))
    BY <1>1, <1>3 DEF Collected
  <2> QED BY <2>1, <2>2, <2>3
<1>5. s2.postconditions \in Seq([clause : Nat]) /\ InOrder(Numbers(s2.postconditions), PostClauses(attrs, n))
  <2> DEFINE post == s.postconditions
  <2>1. post \in Seq([clause : Nat]) /\ InOrder(Numbers(post), PostClauses(attrs, m))
    BY DEF Collected
  <2>2. CASE IsClause(attrs, {"ensures", "observe"}, FALSE, n) \/ IsClause(attrs, {"observe"}, TRUE, n)
    <3>1. s2.postconditions = Append(post, [clause |-> n])
      BY <1>1, <2>2
    <3>2. PostClauses(attrs, n) = PostClauses(attrs, m) \cup {n} /\ \A x \in PostClauses(attrs, m) : x < n
      <4> DEFINE K == {"ensures", "observe"}
      <4>1. /\ IsClause(attrs, K, FALSE, n) => Clauses(attrs, K, FALSE, n) = Clauses(attrs, K, FALSE, m) \cup {n}
            /\ ~IsClause(attrs, K, FALSE, n) => Clauses(attrs, K, FALSE, n) = Clauses(attrs, K, FALSE, m)
            /\ \A x \in Clauses(attrs, K, FALSE, m) : x < n
        BY NextClause
      <4>2. /\ IsClause(attrs, {"observe"}, TRUE, n) =>
                 Clauses(attrs, {"observe"}, TRUE, n) = Clauses(attrs, {"observe"}, TRUE, m) \cup {n}
            /\ ~IsClause(attrs, {"observe"}, TRUE, n) =>
                 Clauses(attrs, {"observe"}, TRUE, n) = Clauses(attrs, {"observe"}, TRUE, m)
            /\ \A x \in Clauses(attrs, {"observe"}, TRUE, m) : x < n
        BY NextClause
      <4> HIDE DEF n
      <4> QED BY <2>2, <4>1, <4>2 DEF PostClauses
    <3> HIDE DEF post
    <3>3. Numbers(post) \in Seq(Nat) /\ Numbers(Append(post, [clause |-> n])) = Append(Numbers(post), n)
      <4>1. Len(post) \in Nat /\ DOMAIN post = 1..Len(post) /\ \A i \in 1..Len(post) : post[i].clause \in Nat
        <5>1. Len(post) \in Nat /\ DOMAIN post = 1..Len(post)
          BY <2>1
        <5>2. \A i \in 1..Len(post) : post[i] \in [clause : Nat]
          <6> DEFINE R == [clause : Nat]
          <6>1. post \in Seq(R)
            BY <2>1
          <6> HIDE DEF R
          <6>2. \A i \in 1..Len(post) : post[i] \in R
            BY ONLY <6>1
          <6> QED BY <6>2 DEF R
        <5> QED BY <5>1, <5>2
      <4>2. Numbers(post) \in Seq(Nat) /\ Len(Numbers(post)) = Len(post)
        BY <4>1 DEF Numbers
      <4> DEFINE long == Append(post, [clause |-> n])
      <4>3. /\ DOMAIN long = 1..(Len(post) + 1) /\ \A i \in 1..Len(post) : long[i] = post[i]
            /\ long[Len(post) + 1] = [clause |-> n]
        BY <2>1
      <4>4. /\ Append(Numbers(post), n) \in Seq(Nat) /\ Len(Append(Numbers(post), n)) = Len(post) + 1
            /\ \A i \in 1..Len(post) : Append(Numbers(post), n)[i] = post[i].clause
            /\ Append(Numbers(post), n)[Len(post) + 1] = n
        BY <4>1, <4>2 DEF Numbers
      <4> HIDE DEF long
      <4>5. \A i \in 1..(Len(post) + 1) : i \in 1..Len(post) \/ i = Len(post) + 1
        BY <4>1
      <4>6. \A i \in 1..(Len(post) + 1) : long[i].clause = Append(Numbers(post), n)[i]
        BY <4>3, <4>4, <4>5
      <4>7. Numbers(long) = [i \in 1..(Len(post) + 1) |-> Append(Numbers(post), n)[i]]
        BY <4>3, <4>6 DEF Numbers
      <4>8. Append(Numbers(post), n) = [i \in 1..(Len(post) + 1) |-> Append(Numbers(post), n)[i]]
        BY <4>4
      <4> QED BY <4>2, <4>7, <4>8 DEF long
    <3>4. InOrder(Append(Numbers(post), n), PostClauses(attrs, m) \cup {n})
      BY <2>1, <3>2, <3>3, AppendedInOrder
    <3>5. Append(post, [clause |-> n]) \in Seq([clause : Nat])
      BY <2>1
    <3> QED BY <3>1, <3>2, <3>3, <3>4, <3>5
  <2>3. CASE ~(IsClause(attrs, {"ensures", "observe"}, FALSE, n) \/ IsClause(attrs, {"observe"}, TRUE, n))
    <3>1. s2.postconditions = post
      BY <1>1, <2>3
    <3>2. PostClauses(attrs, n) = PostClauses(attrs, m)
      BY <2>3, NextClause DEF PostClauses
    <3> QED BY <2>1, <3>1, <3>2
  <2> QED BY <2>2, <2>3
<1> QED BY <1>2, <1>4, <1>5 DEF Collected

JoinOf(s, x, y, z) ==
  /\ DOMAIN s = 1..(Len(x) + Len(y) + Len(z))
  /\ \A i \in 1..Len(x) : s[i] = x[i]
  /\ \A i \in 1..Len(y) : s[Len(x) + i] = y[i]
  /\ \A i \in 1..Len(z) : s[Len(x) + Len(y) + i] = z[i]
  /\ \A i \in DOMAIN s : \/ i \in 1..Len(x)
                         \/ \E j \in 1..Len(y) : i = Len(x) + j
                         \/ \E j \in 1..Len(z) : i = Len(x) + Len(y) + j

LEMMA ThreeLists ==
  ASSUME NEW R, NEW x \in Seq(R), NEW y \in Seq(R), NEW z \in Seq(R), NEW s, s = x \o (y \o z)
  PROVE  JoinOf(s, x, y, z)
<1> DEFINE t == y \o z
<1>1. Len(x) \in Nat /\ Len(y) \in Nat /\ Len(z) \in Nat
  OBVIOUS
<1>2. /\ t \in Seq(R) /\ Len(t) = Len(y) + Len(z)
      /\ \A i \in 1..Len(y) : t[i] = y[i]
      /\ \A i \in 1..Len(z) : t[Len(y) + i] = z[i]
  OBVIOUS
<1>0. s = x \o t
  OBVIOUS
<1> HIDE DEF t
<1>3. /\ s \in Seq(R) /\ Len(s) = Len(x) + Len(t)
      /\ \A i \in 1..Len(x) : s[i] = x[i]
      /\ \A i \in 1..Len(t) : s[Len(x) + i] = t[i]
  <2>1. \A u, v \in Seq(R) : /\ u \o v \in Seq(R) /\ Len(u \o v) = Len(u) + Len(v)
                             /\ \A i \in 1..Len(u) : (u \o v)[i] = u[i]
                             /\ \A i \in 1..Len(v) : (u \o v)[Len(u) + i] = v[i]
    OBVIOUS
  <2>2. t \in Seq(R) /\ x \in Seq(R)
    BY <1>2
  <2> QED BY ONLY <1>0, <2>1, <2>2
<1>4. DOMAIN s = 1..(Len(x) + Len(y) + Len(z))
  BY <1>1, <1>2, <1>3
<1>5. ASSUME NEW i \in 1..Len(y) PROVE s[Len(x) + i] = y[i]
  <2>1. i \in 1..Len(t)
    BY <1>1, <1>2
  <2> QED BY <1>2, <1>3, <2>1
<1>6. ASSUME NEW i \in 1..Len(z) PROVE s[Len(x) + Len(y) + i] = z[i]
  <2>1. Len(y) + i \in 1..Len(t) /\ Len(x) + Len(y) + i = Len(x) + (Len(y) + i)
    BY <1>1, <1>2
  <2> QED BY <1>2, <1>3, <2>1
<1>7. ASSUME NEW i \in DOMAIN s
      PROVE  \/ i \in 1..Len(x)
             \/ \E j \in 1..Len(y) : i = Len(x) + j
             \/ \E j \in 1..Len(z) : i = Len(x) + Len(y) + j
  <2>1. CASE i <= Len(x)
    BY <1>1, <1>4, <2>1
  <2>2. CASE i > Len(x) /\ i <= Len(x) + Len(y)
    <3>1. i - Len(x) \in 1..Len(y) /\ i = Len(x) + (i - Len(x))
      BY <1>1, <1>4, <2>2
    <3> QED BY <3>1
  <2>3. CASE i > Len(x) + Len(y)
    <3>1. i - (Len(x) + Len(y)) \in 1..Len(z) /\ i = Len(x) + Len(y) + (i - (Len(x) + Len(y)))
      BY <1>1, <1>4, <2>3
    <3> QED BY <3>1
  <2> QED BY <1>1, <1>4, <2>1, <2>2, <2>3
<1> QED BY <1>3, <1>4, <1>5, <1>6, <1>7 DEF JoinOf

LEMMA SeqWithin ==
  ASSUME NEW Q, NEW R, Q \subseteq R, NEW s \in Seq(Q)
  PROVE  s \in Seq(R) /\ \A i \in 1..Len(s) : s[i] \in Q
OBVIOUS

(* The postconditions that are pushed, after the observations of a closure.*)
Cases(attrs, s) ==
  IF OkBefore(attrs, Len(attrs))
  THEN <<[case |-> "success", requires |-> s.ok_requires, exists |-> s.ok_exists, ensures |-> s.ok_ensures],
         [case |-> "failure", negated |-> s.ok_requires]>>
  ELSE << >>

LEMMA AllClauses ==
  ASSUME IsList(fn.attrs), NEW kinds, NEW after
  PROVE  ClauseNumbers(kinds, after) = Clauses(fn.attrs, kinds, after, Len(fn.attrs))
<1>1. \A n \in DOMAIN fn.attrs : n <= Len(fn.attrs)
  BY ListFacts
<1> QED BY <1>1 DEF ClauseNumbers, Clauses, OkBefore

Observed(post) == IsList(post) /\ \A i \in DOMAIN post : DOMAIN post[i] = {"observe"}

LEMMA Assembled ==
  ASSUME IsList(fn.attrs), NEW obs, Observed(obs), NEW cl \in Seq([clause : Nat]),
         InOrder(Numbers(cl), PostClauses(fn.attrs, Len(fn.attrs))),
         InOrder(spec.ok_requires, Clauses(fn.attrs, {"requires"}, TRUE, Len(fn.attrs))),
         InOrder(spec.ok_ensures, Clauses(fn.attrs, {"ensures"}, TRUE, Len(fn.attrs)))
  PROVE  PostKept(obs \o (cl \o Cases(fn.attrs, spec)))
<1> DEFINE cs == Cases(fn.attrs, spec)
           post == obs \o (cl \o cs)
           R == ToSet(obs) \cup [clause : Nat] \cup ToSet(cs)
           a == Len(obs)
           b == Len(cl)
           ok == OkBefore(fn.attrs, Len(fn.attrs))
<1>1. /\ ok => cs = <<[case |-> "success", requires |-> spec.ok_requires, exists |-> spec.ok_exists,
                       ensures |-> spec.ok_ensures], [case |-> "failure", negated |-> spec.ok_requires]>>
      /\ ~ok => cs = << >>
  BY DEF Cases
<1>17. ok => /\ DOMAIN cs = {1, 2} /\ Len(cs) = 2 /\ cs \in Seq({cs[1], cs[2]})
             /\ cs[1] = [case |-> "success", requires |-> spec.ok_requires, exists |-> spec.ok_exists,
                         ensures |-> spec.ok_ensures]
             /\ cs[2] = [case |-> "failure", negated |-> spec.ok_requires]
  <2> HIDE DEF cs, ok
  <2>1. \A x, y : /\ <<x, y>> \in Seq({x, y}) /\ DOMAIN <<x, y>> = {1, 2} /\ Len(<<x, y>>) = 2
                  /\ <<x, y>>[1] = x /\ <<x, y>>[2] = y
    <3> TAKE x, y
    <3>1. DOMAIN <<x, y>> = 1..2 /\ 1..2 = {1, 2}
      OBVIOUS
    <3> QED BY <3>1
  <2>2. PICK x, y : x = [case |-> "success", requires |-> spec.ok_requires, exists |-> spec.ok_exists,
                         ensures |-> spec.ok_ensures]
                    /\ y = [case |-> "failure", negated |-> spec.ok_requires]
    OBVIOUS
  <2>3. ok => cs = <<x, y>>
    BY ONLY <1>1, <2>2
  <2>4. ok => /\ DOMAIN cs = {1, 2} /\ Len(cs) = 2 /\ cs[1] = x /\ cs[2] = y /\ cs \in Seq({x, y})
    <3>1. PICK c : /\ c = <<x, y>> /\ DOMAIN c = {1, 2} /\ Len(c) = 2 /\ c[1] = x /\ c[2] = y
                   /\ c \in Seq({x, y})
      BY ONLY <2>1
    <3>2. ok => cs = c
      BY ONLY <2>3, <3>1
    <3> QED BY ONLY <3>1, <3>2
  <2> QED BY ONLY <2>2, <2>4
<1> HIDE DEF cs, ok
<1>2. cs \in Seq(ToSet(cs))
  <2>1. CASE ok
    <3>1. cs \in Seq({cs[1], cs[2]}) /\ DOMAIN cs = {1, 2}
      BY <1>17, <2>1
    <3>2. ToSet(cs) = {cs[1], cs[2]}
      BY <3>1 DEF ToSet
    <3> QED BY <3>1, <3>2
  <2>2. CASE ~ok
    BY <1>1, <2>2
  <2> QED BY <2>1, <2>2
<1>3. obs \in Seq(R) /\ cl \in Seq(R) /\ cs \in Seq(R)
  <2>1. ToSet(obs) \subseteq R /\ [clause : Nat] \subseteq R /\ ToSet(cs) \subseteq R
    OBVIOUS
  <2> HIDE DEF R
  <2>2. obs \in Seq(R) /\ cl \in Seq(R)
    <3>1. obs \in Seq(ToSet(obs))
      BY DEF Observed, IsList
    <3> QED BY <2>1, <3>1, SeqWithin
  <2>3. cs \in Seq(R)
    BY <1>2, <2>1, SeqWithin
  <2> QED BY <2>2, <2>3
<1>4. a \in Nat /\ b \in Nat /\ (ok => Len(cs) = 2) /\ (~ok => Len(cs) = 0)
  <2>1. a \in Nat
    BY ListFacts DEF Observed
  <2> QED BY <1>1, <2>1
<1>5. /\ DOMAIN post = 1..(a + b + Len(cs))
      /\ \A i \in 1..a : post[i] = obs[i]
      /\ \A i \in 1..b : post[a + i] = cl[i]
      /\ \A i \in 1..Len(cs) : post[a + b + i] = cs[i]
      /\ \A i \in DOMAIN post : \/ i \in 1..a
                                \/ \E j \in 1..b : i = a + j
                                \/ \E j \in 1..Len(cs) : i = a + b + j
  <2>1. PICK s : s = post
    OBVIOUS
  <2> HIDE DEF R
  <2>2. s = obs \o (cl \o cs)
    BY <2>1
  <2>3. JoinOf(s, obs, cl, cs)
    BY ONLY <1>3, <2>2, ThreeLists
  <2> HIDE DEF post
  <2> QED BY <2>1, <2>3 DEF JoinOf
<1>6. /\ \A i \in 1..a : DOMAIN obs[i] = {"observe"}
      /\ \A i \in 1..b : DOMAIN cl[i] = {"clause"}
      /\ \A i \in 1..Len(cs) : "clause" \notin DOMAIN cs[i]
  <2>1. \A i \in 1..a : DOMAIN obs[i] = {"observe"}
    BY ListFacts DEF Observed
  <2>2. \A i \in 1..b : cl[i] \in [clause : Nat]
    BY SeqWithin
  <2>3. \A i \in 1..Len(cs) : "clause" \notin DOMAIN cs[i]
    <3>1. CASE ok
      <4>1. 1..2 = {1, 2}
        OBVIOUS
      <4>2. "clause" \notin DOMAIN cs[1] /\ "clause" \notin DOMAIN cs[2] /\ Len(cs) = 2
        BY <1>17, <3>1
      <4> QED BY <4>1, <4>2
    <3>2. CASE ~ok
      BY <1>4, <3>2
    <3> QED BY <3>1, <3>2
  <2> QED BY <2>1, <2>2, <2>3
<1> HIDE DEF post, R, a, b
<1>15. /\ \A i \in 1..a : DOMAIN post[i] = {"observe"}
       /\ \A i \in 1..b : DOMAIN post[a + i] = {"clause"}
       /\ \A i \in 1..Len(cs) : "clause" \notin DOMAIN post[a + b + i]
  BY <1>5, <1>6
<1>18. /\ \A i \in 1..a : "ensures" \notin DOMAIN post[i] /\ "negated" \notin DOMAIN post[i]
       /\ \A i \in 1..b : "ensures" \notin DOMAIN post[a + i] /\ "negated" \notin DOMAIN post[a + i]
  BY <1>15
<1>7. /\ \A i \in 1..b : a + i \in DOMAIN post
      /\ ok => a + b + 1 \in DOMAIN post /\ a + b + 2 \in DOMAIN post
  <2>1. PICK c : c = Len(cs)
    OBVIOUS
  <2>2. c \in Nat
    BY <1>4, <2>1
  <2>3. \A i \in 1..b : a + i \in 1..(a + b + c)
    BY ONLY <1>4, <2>2
  <2>4. c = 2 => a + b + 1 \in 1..(a + b + c) /\ a + b + 2 \in 1..(a + b + c)
    BY ONLY <1>4, <2>2
  <2> QED BY <1>4, <1>5, <2>1, <2>3, <2>4
<1>8. /\ \A i \in At(post, "clause") : \E j \in 1..b : i = a + j
      /\ \A j \in 1..b : a + j \in At(post, "clause")
  <2>1. \A i \in DOMAIN post : "clause" \in DOMAIN post[i] => \E j \in 1..b : i = a + j
    BY <1>5, <1>15
  <2>2. \A j \in 1..b : "clause" \in DOMAIN post[a + j]
    BY <1>15
  <2> QED BY <1>7, <2>1, <2>2 DEF At
<1>9. {post[i].clause : i \in At(post, "clause")} = PostClauses(fn.attrs, Len(fn.attrs))
  <2>1. PostClauses(fn.attrs, Len(fn.attrs)) = {cl[j].clause : j \in 1..b}
    <3>1. DOMAIN Numbers(cl) = 1..b /\ \A j \in 1..b : Numbers(cl)[j] = cl[j].clause
      BY DEF Numbers, b
    <3> QED BY <3>1 DEF InOrder, ToSet
  <2>2. \A j \in 1..b : post[a + j].clause = cl[j].clause
    BY <1>5
  <2> HIDE DEF b
  <2>3. {post[i].clause : i \in At(post, "clause")} = {post[a + j].clause : j \in 1..b}
    BY ONLY <1>8
  <2> QED BY <2>1, <2>2, <2>3
<1>10. \A i, j \in At(post, "clause") : i < j => post[i].clause < post[j].clause
  <2> SUFFICES ASSUME NEW i \in At(post, "clause"), NEW j \in At(post, "clause"), i < j
               PROVE  post[i].clause < post[j].clause
    OBVIOUS
  <2>1. PICK k \in 1..b, l \in 1..b : i = a + k /\ j = a + l
    BY <1>8
  <2>2. k < l
    BY <1>4, <2>1
  <2>3. Numbers(cl)[k] < Numbers(cl)[l]
    <3>1. k \in DOMAIN Numbers(cl) /\ l \in DOMAIN Numbers(cl)
      BY DEF Numbers, b
    <3> QED BY <2>2, <3>1 DEF InOrder
  <2>4. Numbers(cl)[k] = cl[k].clause /\ Numbers(cl)[l] = cl[l].clause
    BY DEF Numbers, b
  <2> QED BY <1>5, <2>1, <2>3, <2>4
<1>11. (\E n \in DOMAIN fn.attrs : fn.attrs[n].kind = "ok") <=> ok
  BY ListFacts DEF OkBefore, ok
<1>12. ASSUME ok PROVE CasesKept(post)
  <2>1. /\ post[a + b + 1] = cs[1] /\ post[a + b + 2] = cs[2]
        /\ \A i \in DOMAIN post : i \in 1..a \/ (\E j \in 1..b : i = a + j) \/ i = a + b + 1 \/ i = a + b + 2
    <3>1. Len(cs) = 2 /\ 1 \in 1..2 /\ 2 \in 1..2 /\ \A j \in 1..2 : j = 1 \/ j = 2
      BY <1>4, <1>12
    <3> QED BY <1>5, <3>1
  <2>2. /\ cs[1] = [case |-> "success", requires |-> spec.ok_requires, exists |-> spec.ok_exists,
                    ensures |-> spec.ok_ensures]
        /\ cs[2] = [case |-> "failure", negated |-> spec.ok_requires]
    BY <1>17, <1>12
  <2>7. /\ "ensures" \in DOMAIN cs[1] /\ "negated" \notin DOMAIN cs[1]
        /\ "negated" \in DOMAIN cs[2] /\ "ensures" \notin DOMAIN cs[2]
    BY <2>2
  <2>3. At(post, "ensures") = {a + b + 1}
    <3>1. \A i \in DOMAIN post : "ensures" \in DOMAIN post[i] => i = a + b + 1
      BY <1>18, <2>1, <2>7
    <3>2. "ensures" \in DOMAIN post[a + b + 1]
      BY <2>1, <2>7
    <3> QED BY <1>7, <1>12, <3>1, <3>2 DEF At
  <2>4. At(post, "negated") = {a + b + 2}
    <3>1. \A i \in DOMAIN post : "negated" \in DOMAIN post[i] => i = a + b + 2
      BY <1>18, <2>1, <2>7
    <3>2. "negated" \in DOMAIN post[a + b + 2]
      BY <2>1, <2>7
    <3> QED BY <1>7, <1>12, <3>1, <3>2 DEF At
  <2>5. /\ post[a + b + 1].case = "success" /\ post[a + b + 2].case = "failure"
        /\ post[a + b + 1].requires = spec.ok_requires /\ post[a + b + 1].ensures = spec.ok_ensures
        /\ post[a + b + 1].exists = spec.ok_exists /\ post[a + b + 2].negated = spec.ok_requires
    BY <2>1, <2>2
  <2>6. /\ InOrder(spec.ok_requires, ClauseNumbers({"requires"}, TRUE))
        /\ InOrder(spec.ok_ensures, ClauseNumbers({"ensures"}, TRUE))
    BY AllClauses
  <2> QED BY <2>3, <2>4, <2>5, <2>6 DEF CasesKept
<1>13. ASSUME ~ok PROVE At(post, "ensures") = {} /\ At(post, "negated") = {}
  <2>1. \A i \in DOMAIN post : i \in 1..a \/ \E j \in 1..b : i = a + j
    <3>1. 1..Len(cs) = {}
      BY <1>4, <1>13
    <3> QED BY <1>5, <3>1
  <2>2. \A i \in DOMAIN post : "ensures" \notin DOMAIN post[i] /\ "negated" \notin DOMAIN post[i]
    BY <1>18, <2>1
  <2> QED BY <2>2 DEF At
<1>14. PostClauses(fn.attrs, Len(fn.attrs)) =
         ClauseNumbers({"ensures", "observe"}, FALSE) \cup ClauseNumbers({"observe"}, TRUE)
  BY AllClauses DEF PostClauses
<1>16. PostKept(post)
  BY <1>9, <1>10, <1>11, <1>12, <1>13, <1>14 DEF PostKept
<1> QED BY <1>16 DEF post, cs

---------------------------------------------------------------------------
(* The stages of the specification: the lists grow with the attributes,    *)
(* are assembled, and reach the builder behind its observations.           *)
attribute_number == Len(fn.attrs)
Assembly(s) ==
  /\ s.preconditions \in Seq(Nat)
  /\ InOrder(s.preconditions, Clauses(fn.attrs, {"requires"}, FALSE, attribute_number))
  /\ InOrder(s.ok_requires, Clauses(fn.attrs, {"requires"}, TRUE, attribute_number))
  /\ InOrder(s.ok_ensures, Clauses(fn.attrs, {"ensures"}, TRUE, attribute_number))
  /\ \E cl \in Seq([clause : Nat]) :
       InOrder(Numbers(cl), PostClauses(fn.attrs, attribute_number)) /\ s.postconditions = cl \o Cases(fn.attrs, s)

Specialized(path) == \E k \in DOMAIN trait_specs : k \in determine_trait_attr_requirement_origin(path)
TraitsHandled ==
  \A n \in 1..spec.at : OfTrait(fn.attrs[n]) => ~in_closure /\ Specialized(fn.attrs[n].path)
TraitsKept ==
  \A n \in DOMAIN fn.attrs : OfTrait(fn.attrs[n]) =>
    LET path == <<fn.attrs[n].path[1], fn.attrs[n].path[2]>>
        s    == scopes[fn.did]
    IN  (\A k, l \in Declaring(path) : k = l) =>
          path \in DOMAIN s.names.attrs /\ s.cells[s.names.attrs[path]].overridden

SpecInv ==
  /\ spec.at \in 0..Len(fn.attrs) /\ DOMAIN spec = SpecFields /\ {"pre", "post"} \subseteq DOMAIN builder
  /\ parsed # "none" => fn.did # ""
  /\ spec.at # 0 \/ parsed \in {"push", "attach", "yes"} => AllScopes
  /\ parsed \in {"captures", "attributes"} => Collected(fn.attrs, spec, spec.at)
  /\ parsed \in {"captures", "attributes", "push"} => builder.pre = << >> /\ Observed(builder.post)
  /\ parsed = "push" => Assembly(spec)
  /\ parsed \in {"push", "attach"} => spec.at = Len(fn.attrs)
  /\ parsed \in {"attach", "yes"} =>
       InOrder(builder.pre, Clauses(fn.attrs, {"requires"}, FALSE, Len(fn.attrs))) /\ PostKept(builder.post)
  /\ parsed \in {"captures", "attributes", "push", "attach"} => TraitsHandled
  /\ parsed = "yes" => TraitsKept

SigInv == Given /\ ScopeInv /\ SpecInv

(* The facts of the program that the steps use.                            *)
LEMMA FnFacts ==
  ASSUME Given
  PROVE  /\ IsList(fn.attrs) /\ IsList(fn.captures) /\ Len(fn.attrs) \in Nat /\ DOMAIN fn.attrs = 1..Len(fn.attrs)
         /\ AllScopes /\ fn.did # "" => fn.did \in DOMAIN scopes
         /\ fn.did # "" => ToSet(generics_of(fn.did)) \subseteq DOMAIN ParamIndex
<1>1. IsList(fn.attrs) /\ IsList(fn.captures)
  BY ProgramsAssumption DEF Given, fn
<1>2. AllScopes /\ fn.did # "" => fn.did \in DOMAIN scopes
  BY ProgramsAssumption DEF Given, fn, AllScopes
<1>3. ASSUME fn.did # "" PROVE ToSet(generics_of(fn.did)) \subseteq DOMAIN ParamIndex
  <2>1. fn.did \in DOMAIN program.items
    BY <1>3, ProgramsAssumption DEF Given, fn
  <2>2. ASSUME NEW d \in DOMAIN program.items
        PROVE  Item(d).params \in Seq(DOMAIN ParamIndex)
    <3>1. IsList(Item(d).params) /\ ToSet(Item(d).params) \subseteq DOMAIN ParamIndex
      BY ProgramsAssumption DEF Given, Item
    <3>2. Item(d).params \in Seq(ToSet(Item(d).params))
      BY <3>1 DEF IsList
    <3> QED BY <3>1, <3>2, SeqWithin
  <2>3. HasParent(fn.did) => Item(fn.did).parent \in DOMAIN program.items
    BY <2>1, ProgramsAssumption DEF Given, Item, HasParent
  <2>4. generics_of(fn.did) \in Seq(DOMAIN ParamIndex)
    <3>1. Item(fn.did).params \in Seq(DOMAIN ParamIndex)
      BY <2>1, <2>2
    <3>2. HasParent(fn.did) => Item(Item(fn.did).parent).params \in Seq(DOMAIN ParamIndex)
      BY <2>2, <2>3
    <3>3. PICK P : P = DOMAIN ParamIndex
      OBVIOUS
    <3>4. \A u, v \in Seq(P) : u \o v \in Seq(P)
      OBVIOUS
    <3>5. (IF HasParent(fn.did) THEN Item(Item(fn.did).parent).params ELSE << >>) \in Seq(P)
      <4>1. << >> \in Seq(P)
        OBVIOUS
      <4> QED BY <3>2, <3>3, <4>1, Zenon
    <3> QED BY <3>1, <3>3, <3>4, <3>5 DEF generics_of
  <2> QED BY <2>4, SeqIsList
<1> QED BY <1>1, <1>2, <1>3, ListFacts

(* The steps that leave the specification alone.                           *)
LEMMA SpecAside ==
  ASSUME SpecInv, UNCHANGED <<program, specvars>>,
         scopes' = scopes \/ (spec.at = 0 /\ parsed \notin {"push", "attach", "yes"})
  PROVE  SpecInv'
<1>1. program' = program /\ spec' = spec /\ trait_specs' = trait_specs /\ builder' = builder /\ parsed' = parsed
  BY DEF specvars
<1>2. CASE scopes' = scopes
  <2>1. Assembly(spec)' <=> Assembly(spec)
    BY <1>1 DEF Assembly, attribute_number, fn
  <2>2. TraitsHandled' <=> TraitsHandled
    BY <1>1, <1>2 DEF TraitsHandled, Specialized, determine_trait_attr_requirement_origin, in_closure,
      generics_of, HasParent, Item, fn
  <2>3. TraitsKept' <=> TraitsKept
    BY <1>1, <1>2 DEF TraitsKept, Declaring, fn
  <2>4. PostKept(builder.post)' <=> PostKept(builder.post)
    BY <1>1 DEF PostKept, CasesKept, ClauseNumbers, fn
  <2>5. AllScopes' <=> AllScopes
    BY <1>1, <1>2 DEF AllScopes
  <2> QED BY <1>1, <2>1, <2>2, <2>3, <2>4, <2>5 DEF SpecInv, fn
<1>3. CASE spec.at = 0 /\ parsed \notin {"push", "attach", "yes"}
  <2>1. TraitsHandled'
    BY <1>1, <1>3 DEF TraitsHandled
  <2> QED BY <1>1, <1>3, <2>1 DEF SpecInv, fn
<1> QED BY <1>2, <1>3

LEMMA Stopped ==
  ASSUME SigInv, Fail, parsed # "none", UNCHANGED <<program, scopevars>>
  PROVE  SpecInv'
<1>1. /\ UNCHANGED <<spec, trait_specs, builder, program, scopes>> /\ parsed' = "error"
  BY DEF Fail, scopevars
<1>2. fn' = fn /\ (AllScopes' <=> AllScopes)
  BY <1>1 DEF fn, AllScopes
<1>3. /\ spec.at \in 0..Len(fn.attrs) /\ DOMAIN spec = SpecFields /\ {"pre", "post"} \subseteq DOMAIN builder
      /\ fn.did # "" /\ (spec.at # 0 => AllScopes)
  BY DEF SigInv, SpecInv
<1> QED BY <1>1, <1>2, <1>3 DEF SpecInv

(* An attribute is handled.                                                *)
LEMMA HandledStep ==
  ASSUME SigInv, InSpec("attributes"), spec.at < Len(fn.attrs),
         NEW s2, Handled(s2), s2.at = spec.at, DOMAIN s2 = SpecFields, Extended(fn.attrs, spec, s2, spec.at + 1),
         UNCHANGED <<program, builder, parsed, scopevars>>,
         DOMAIN trait_specs \subseteq DOMAIN trait_specs',
         OfTrait(Attr) => ~in_closure /\ \E k \in determine_trait_attr_requirement_origin(Attr.path) : k \in DOMAIN trait_specs'
  PROVE  SpecInv'
<1>1. IsList(fn.attrs) /\ Len(fn.attrs) \in Nat /\ spec.at \in Nat /\ spec.at + 1 \in 0..Len(fn.attrs)
  <2>1. IsList(fn.attrs) /\ Len(fn.attrs) \in Nat /\ spec.at \in 0..Len(fn.attrs)
    BY FnFacts DEF SigInv, SpecInv
  <2> QED BY <2>1
<1>2. PICK s3 : s3 = [s2 EXCEPT !.at = @ + 1]
  OBVIOUS
<1>3. spec' = s3
  BY <1>2 DEF Handled
<1>4. /\ s3.at = spec.at + 1 /\ DOMAIN s3 = SpecFields
      /\ s3.ok_mode = s2.ok_mode /\ s3.preconditions = s2.preconditions /\ s3.ok_requires = s2.ok_requires
      /\ s3.ok_ensures = s2.ok_ensures /\ s3.postconditions = s2.postconditions
  BY <1>2 DEF SpecFields
<1>5. Collected(fn.attrs, s3, spec.at + 1)
  <2>1. Extended(fn.attrs, spec, s3, spec.at + 1)
    BY <1>4 DEF Extended
  <2>2. Collected(fn.attrs, spec, spec.at)
    BY DEF SigInv, SpecInv, InSpec
  <2> QED BY <1>1, <2>1, <2>2, CollectStep
<1>6. parsed = "attributes" /\ AllScopes
  BY DEF InSpec
<1>7. program' = program /\ builder' = builder /\ parsed' = parsed /\ scopes' = scopes
  BY DEF scopevars
<1>8. TraitsHandled'
  <2>1. ASSUME NEW n \in 1..(spec.at + 1), OfTrait(fn.attrs[n])
        PROVE  ~in_closure /\ \E k \in determine_trait_attr_requirement_origin(fn.attrs[n].path) : k \in DOMAIN trait_specs'
    <3>1. CASE n = spec.at + 1
      BY <2>1, <3>1 DEF Attr
    <3>2. CASE n # spec.at + 1
      <4>1. n \in 1..spec.at
        BY <1>1, <3>2
      <4> QED BY <1>6, <2>1, <4>1 DEF SigInv, SpecInv, TraitsHandled, Specialized
    <3> QED BY <3>1, <3>2
  <2>2. spec'.at = spec.at + 1
    BY <1>3, <1>4
  <2>3. /\ fn' = fn /\ (in_closure' <=> in_closure)
        /\ \A path : determine_trait_attr_requirement_origin(path)' = determine_trait_attr_requirement_origin(path)
    BY <1>7 DEF fn, in_closure, determine_trait_attr_requirement_origin, generics_of, HasParent, Item
  <2> QED BY <2>1, <2>2, <2>3 DEF TraitsHandled, Specialized
<1>9. fn' = fn /\ AllScopes'
  BY <1>6, <1>7 DEF fn, AllScopes
<1>10. /\ {"pre", "post"} \subseteq DOMAIN builder /\ fn.did # ""
       /\ builder.pre = << >> /\ Observed(builder.post)
  BY <1>6 DEF SigInv, SpecInv
<1> QED BY <1>1, <1>3, <1>4, <1>5, <1>6, <1>7, <1>8, <1>9, <1>10 DEF SpecInv

SameLists(s, s2) ==
  /\ s2.at = s.at /\ DOMAIN s2 = SpecFields
  /\ s2.preconditions = s.preconditions /\ s2.ok_requires = s.ok_requires
  /\ s2.ok_ensures = s.ok_ensures /\ s2.postconditions = s.postconditions

LEMMA NoClause ==
  ASSUME NEW attrs, NEW s, NEW s2, NEW n, SameLists(s, s2), s2.ok_mode <=> (s.ok_mode \/ attrs[n].kind = "ok"),
         attrs[n].kind \notin {"ensures", "observe"},
         attrs[n].kind = "requires" => attrs[n].form \in {"linktime", "trait"}
  PROVE  Extended(attrs, s, s2, n)
<1>1. \A kinds \in {{"requires"}, {"ensures"}, {"observe"}, {"ensures", "observe"}}, after \in BOOLEAN :
        ~IsClause(attrs, kinds, after, n)
  BY DEF IsClause
<1> QED BY <1>1 DEF Extended, Extend, SameLists

LEMMA HandlingFacts ==
  ASSUME SigInv, NEW kinds, Handling(kinds)
  PROVE  /\ InSpec("attributes") /\ spec.at < Len(fn.attrs) /\ Attr.kind \in kinds
         /\ Attr = fn.attrs[spec.at + 1] /\ DOMAIN spec = SpecFields /\ parsed = "attributes"
BY DEF Handling, Attr, SigInv, SpecInv, InSpec

LEMMA BindersStep ==
  ASSUME SigInv, HandleBinders, UNCHANGED program
  PROVE  SpecInv'
<1>1. /\ InSpec("attributes") /\ spec.at < Len(fn.attrs) /\ Attr.kind \in {"ok", "params", "exists"}
      /\ Attr = fn.attrs[spec.at + 1] /\ DOMAIN spec = SpecFields
  BY HandlingFacts DEF HandleBinders
<1> DEFINE explicit == [i \in DOMAIN Attr.names |-> [name |-> Attr.names[i], explicit |-> TRUE, ty |-> 0]]
<1>2. PICK s2 : s2 = CASE Attr.kind = "ok"     -> [spec EXCEPT !.ok_mode = TRUE]
                       [] Attr.kind = "params" -> [spec EXCEPT !.params = @ \o explicit]
                       [] spec.ok_mode         -> [spec EXCEPT !.ok_exists = @ \o Attr.names]
                       [] OTHER                -> [spec EXCEPT !.existentials = @ \o Attr.names]
  OBVIOUS
<1>3. Handled(s2) /\ UNCHANGED <<proof_info, trait_specs, builder, parsed, scopevars, used>>
  BY <1>2 DEF HandleBinders
<1> HIDE DEF explicit
<1>4. SameLists(spec, s2) /\ s2.ok_mode = IF Attr.kind = "ok" THEN TRUE ELSE spec.ok_mode
  <2>1. CASE Attr.kind = "ok"
    BY <1>1, <1>2, <2>1 DEF SameLists, SpecFields
  <2>2. CASE Attr.kind = "params"
    BY <1>1, <1>2, <2>2 DEF SameLists, SpecFields
  <2>3. CASE Attr.kind = "exists" /\ spec.ok_mode
    BY <1>1, <1>2, <2>3 DEF SameLists, SpecFields
  <2>4. CASE Attr.kind = "exists" /\ ~spec.ok_mode
    BY <1>1, <1>2, <2>4 DEF SameLists, SpecFields
  <2> QED BY <1>1, <2>1, <2>2, <2>3, <2>4
<1>5. Extended(fn.attrs, spec, s2, spec.at + 1)
  <2>1. s2.ok_mode <=> (spec.ok_mode \/ fn.attrs[spec.at + 1].kind = "ok")
    BY <1>1, <1>4
  <2> QED BY <1>1, <1>4, <2>1, NoClause
<1>6. ~OfTrait(Attr)
  BY <1>1 DEF OfTrait
<1> QED BY <1>1, <1>3, <1>4, <1>5, <1>6, HandledStep DEF SameLists

LEMMA ArgsStep ==
  ASSUME SigInv, HandleArgs, UNCHANGED program
  PROVE  SpecInv'
<1>1. /\ InSpec("attributes") /\ spec.at < Len(fn.attrs) /\ Attr.kind = "args" /\ parsed = "attributes"
      /\ Attr = fn.attrs[spec.at + 1] /\ DOMAIN spec = SpecFields
  BY HandlingFacts DEF HandleArgs
<1>2. UNCHANGED <<scopevars, used>>
  BY DEF HandleArgs
<1>3. CASE Fail
  BY <1>1, <1>2, <1>3, Stopped
<1>4. CASE ~Fail
  <2>1. PICK s2 : s2 = [spec EXCEPT !.got_args = TRUE, !.args = @ \o Attr.names,
                                    !.params = Annotated(@, Attr.names)]
    OBVIOUS
  <2>2. Handled(s2) /\ UNCHANGED <<proof_info, trait_specs, builder, parsed>>
    BY <1>4, <2>1 DEF HandleArgs
  <2>3. SameLists(spec, s2) /\ s2.ok_mode = spec.ok_mode
    BY <1>1, <2>1 DEF SameLists, SpecFields
  <2>4. Extended(fn.attrs, spec, s2, spec.at + 1)
    BY <1>1, <2>3, NoClause
  <2>5. ~OfTrait(Attr)
    BY <1>1 DEF OfTrait
  <2> QED BY <1>1, <1>2, <2>2, <2>3, <2>4, <2>5, HandledStep DEF SameLists
<1> QED BY <1>3, <1>4

LEMMA TraitStep ==
  ASSUME SigInv, RequireTraitAttr, UNCHANGED program
  PROVE  SpecInv'
<1>1. /\ InSpec("attributes") /\ spec.at < Len(fn.attrs) /\ Attr.kind = "requires" /\ parsed = "attributes"
      /\ Attr = fn.attrs[spec.at + 1] /\ DOMAIN spec = SpecFields
  BY HandlingFacts DEF RequireTraitAttr
<1>2. UNCHANGED <<scopevars, used>> /\ Attr.form = "trait"
  BY DEF RequireTraitAttr
<1>3. CASE Fail
  BY <1>1, <1>2, <1>3, Stopped
<1>4. CASE ~Fail
  <2>1. ~in_closure
    BY <1>4 DEF RequireTraitAttr
  <2>2. PICK k \in determine_trait_attr_requirement_origin(Attr.path) :
          /\ DOMAIN trait_specs' = DOMAIN trait_specs \cup {k}
          /\ Handled(spec) /\ UNCHANGED <<proof_info, builder, parsed>>
    BY <1>4 DEF RequireTraitAttr
  <2>3. SameLists(spec, spec) /\ spec.ok_mode = spec.ok_mode
    BY <1>1 DEF SameLists
  <2>4. Extended(fn.attrs, spec, spec, spec.at + 1)
    BY <1>1, <1>2, <2>3, NoClause
  <2> QED BY <1>1, <1>2, <2>1, <2>2, <2>4, HandledStep
<1> QED BY <1>3, <1>4

(* Which list the attribute after the handled ones belongs to.             *)
LEMMA ClauseOf ==
  ASSUME SigInv, InSpec("attributes"), NEW kinds,
         Attr.kind = "requires" => Attr.form \notin {"linktime", "trait"}
  PROVE  /\ IsClause(fn.attrs, kinds, TRUE, spec.at + 1) <=> Attr.kind \in kinds /\ spec.ok_mode
         /\ IsClause(fn.attrs, kinds, FALSE, spec.at + 1) <=> Attr.kind \in kinds /\ ~spec.ok_mode
<1>1. spec.at \in 0..Len(fn.attrs) /\ IsList(fn.attrs)
  BY FnFacts DEF SigInv, SpecInv
<1>2. (spec.at + 1) - 1 = spec.at
  BY <1>1, ListFacts
<1>3. spec.ok_mode <=> OkBefore(fn.attrs, spec.at)
  BY DEF SigInv, SpecInv, InSpec, Collected
<1> QED BY <1>2, <1>3 DEF IsClause, Attr

LEMMA RequiresStep ==
  ASSUME SigInv, HandleRequires, UNCHANGED program
  PROVE  SpecInv'
<1>1. /\ InSpec("attributes") /\ spec.at < Len(fn.attrs) /\ Attr.kind = "requires" /\ parsed = "attributes"
      /\ Attr = fn.attrs[spec.at + 1] /\ DOMAIN spec = SpecFields
  BY HandlingFacts DEF HandleRequires
<1>2. UNCHANGED <<scopevars, used>> /\ Attr.form # "trait"
  BY DEF HandleRequires
<1>3. CASE Fail
  BY <1>1, <1>2, <1>3, Stopped
<1>4. ~OfTrait(Attr)
  BY <1>2 DEF OfTrait
<1>5. CASE ~Fail /\ Attr.form = "linktime"
  <2>1. Handled(spec) /\ UNCHANGED <<trait_specs, builder, parsed>>
    BY <1>5 DEF HandleRequires
  <2>2. Extended(fn.attrs, spec, spec, spec.at + 1)
    BY <1>1, <1>5, NoClause DEF SameLists
  <2> QED BY <1>1, <1>2, <1>4, <2>1, <2>2, HandledStep
<1>6. CASE ~Fail /\ Attr.form # "linktime"
  <2> DEFINE n == spec.at + 1
  <2>1. PICK s2 : s2 = IF spec.ok_mode THEN [spec EXCEPT !.ok_requires = Append(@, n)]
                       ELSE [spec EXCEPT !.preconditions = Append(@, n)]
    OBVIOUS
  <2>2. Handled(s2) /\ UNCHANGED <<trait_specs, builder, parsed>>
    BY <1>6, <2>1 DEF HandleRequires
  <2>3. /\ s2.at = spec.at /\ DOMAIN s2 = SpecFields /\ s2.ok_mode = spec.ok_mode
        /\ s2.ok_ensures = spec.ok_ensures /\ s2.postconditions = spec.postconditions
        /\ s2.ok_requires = IF spec.ok_mode THEN Append(spec.ok_requires, n) ELSE spec.ok_requires
        /\ s2.preconditions = IF spec.ok_mode THEN spec.preconditions ELSE Append(spec.preconditions, n)
    <3>1. CASE spec.ok_mode
      BY <1>1, <2>1, <3>1 DEF SpecFields
    <3>2. CASE ~spec.ok_mode
      BY <1>1, <2>1, <3>2 DEF SpecFields
    <3> QED BY <3>1, <3>2
  <2>4. /\ IsClause(fn.attrs, {"requires"}, TRUE, n) <=> spec.ok_mode
        /\ IsClause(fn.attrs, {"requires"}, FALSE, n) <=> ~spec.ok_mode
        /\ ~IsClause(fn.attrs, {"ensures"}, TRUE, n) /\ ~IsClause(fn.attrs, {"observe"}, TRUE, n)
        /\ ~IsClause(fn.attrs, {"ensures", "observe"}, FALSE, n)
    <3>1. Attr.form \notin {"linktime", "trait"} /\ Attr.kind = "requires"
      BY <1>1, <1>2, <1>6
    <3>2. ASSUME NEW kinds
          PROVE  /\ IsClause(fn.attrs, kinds, TRUE, n) <=> Attr.kind \in kinds /\ spec.ok_mode
                 /\ IsClause(fn.attrs, kinds, FALSE, n) <=> Attr.kind \in kinds /\ ~spec.ok_mode
      BY <1>1, <3>1, ClauseOf
    <3>3. /\ IsClause(fn.attrs, {"requires"}, TRUE, n) <=> Attr.kind \in {"requires"} /\ spec.ok_mode
          /\ IsClause(fn.attrs, {"requires"}, FALSE, n) <=> Attr.kind \in {"requires"} /\ ~spec.ok_mode
      BY <3>2
    <3>4. IsClause(fn.attrs, {"ensures"}, TRUE, n) <=> Attr.kind \in {"ensures"} /\ spec.ok_mode
      BY <3>2
    <3>5. IsClause(fn.attrs, {"observe"}, TRUE, n) <=> Attr.kind \in {"observe"} /\ spec.ok_mode
      BY <3>2
    <3>6. IsClause(fn.attrs, {"ensures", "observe"}, FALSE, n) <=> Attr.kind \in {"ensures", "observe"} /\ ~spec.ok_mode
      BY <3>2
    <3> HIDE DEF n
    <3> QED BY <3>1, <3>3, <3>4, <3>5, <3>6
  <2>5. Extended(fn.attrs, spec, s2, n)
    <3>1. fn.attrs[n].kind # "ok"
      BY <1>1
    <3> HIDE DEF n
    <3> QED BY <2>3, <2>4, <3>1 DEF Extended, Extend
  <2> QED BY <1>1, <1>2, <1>4, <2>2, <2>3, <2>5, HandledStep
<1> QED BY <1>3, <1>5, <1>6

LEMMA EnsuresStep ==
  ASSUME SigInv, HandleEnsures, UNCHANGED program
  PROVE  SpecInv'
<1>1. /\ InSpec("attributes") /\ spec.at < Len(fn.attrs) /\ Attr.kind \in {"ensures", "observe", "returns"}
      /\ parsed = "attributes" /\ Attr = fn.attrs[spec.at + 1] /\ DOMAIN spec = SpecFields
  BY HandlingFacts DEF HandleEnsures
<1>2. UNCHANGED <<scopevars, used>>
  BY DEF HandleEnsures
<1>3. CASE Fail
  BY <1>1, <1>2, <1>3, Stopped
<1>4. ~OfTrait(Attr)
  BY <1>1 DEF OfTrait
<1>5. CASE ~Fail
  <2> DEFINE n == spec.at + 1
             after == Attr.kind = "ensures" /\ spec.ok_mode
  <2>1. PICK s2 : s2 = CASE Attr.kind = "returns" -> [spec EXCEPT !.ret = n]
                         [] Attr.kind = "ensures" /\ spec.ok_mode -> [spec EXCEPT !.ok_ensures = Append(@, n)]
                         [] OTHER -> [spec EXCEPT !.postconditions = Append(@, [clause |-> n])]
    OBVIOUS
  <2>2. Handled(s2) /\ UNCHANGED <<proof_info, trait_specs, builder, parsed>>
    BY <1>5, <2>1 DEF HandleEnsures
  <2>3. /\ s2.at = spec.at /\ DOMAIN s2 = SpecFields /\ s2.ok_mode = spec.ok_mode
        /\ s2.preconditions = spec.preconditions /\ s2.ok_requires = spec.ok_requires
        /\ s2.ok_ensures = IF after THEN Append(spec.ok_ensures, n) ELSE spec.ok_ensures
        /\ s2.postconditions = IF Attr.kind = "returns" \/ after THEN spec.postconditions
                               ELSE Append(spec.postconditions, [clause |-> n])
    <3>1. CASE Attr.kind = "returns"
      BY <1>1, <2>1, <3>1 DEF SpecFields
    <3>2. CASE after
      BY <1>1, <2>1, <3>2 DEF SpecFields
    <3>3. CASE Attr.kind # "returns" /\ ~after
      BY <1>1, <2>1, <3>3 DEF SpecFields
    <3> QED BY <3>1, <3>2, <3>3
  <2>4. /\ ~IsClause(fn.attrs, {"requires"}, TRUE, n) /\ ~IsClause(fn.attrs, {"requires"}, FALSE, n)
        /\ IsClause(fn.attrs, {"ensures"}, TRUE, n) <=> after
        /\ (IsClause(fn.attrs, {"ensures", "observe"}, FALSE, n) \/ IsClause(fn.attrs, {"observe"}, TRUE, n))
             <=> ~(Attr.kind = "returns" \/ after)
    <3>1. Attr.kind \in {"ensures", "observe", "returns"}
      BY <1>1
    <3>2. ASSUME NEW kinds
          PROVE  /\ IsClause(fn.attrs, kinds, TRUE, n) <=> Attr.kind \in kinds /\ spec.ok_mode
                 /\ IsClause(fn.attrs, kinds, FALSE, n) <=> Attr.kind \in kinds /\ ~spec.ok_mode
      BY <1>1, ClauseOf
    <3>3. /\ IsClause(fn.attrs, {"requires"}, TRUE, n) <=> Attr.kind \in {"requires"} /\ spec.ok_mode
          /\ IsClause(fn.attrs, {"requires"}, FALSE, n) <=> Attr.kind \in {"requires"} /\ ~spec.ok_mode
      BY <3>2
    <3>4. IsClause(fn.attrs, {"ensures"}, TRUE, n) <=> Attr.kind \in {"ensures"} /\ spec.ok_mode
      BY <3>2
    <3>5. IsClause(fn.attrs, {"observe"}, TRUE, n) <=> Attr.kind \in {"observe"} /\ spec.ok_mode
      BY <3>2
    <3>6. IsClause(fn.attrs, {"ensures", "observe"}, FALSE, n) <=> Attr.kind \in {"ensures", "observe"} /\ ~spec.ok_mode
      BY <3>2
    <3> HIDE DEF n
    <3> QED BY <3>1, <3>3, <3>4, <3>5, <3>6
  <2>5. Extended(fn.attrs, spec, s2, n)
    <3>1. fn.attrs[n].kind # "ok"
      BY <1>1
    <3> HIDE DEF n, after
    <3> QED BY <2>3, <2>4, <3>1 DEF Extended, Extend
  <2> QED BY <1>1, <1>2, <1>4, <2>2, <2>3, <2>5, HandledStep
<1> QED BY <1>3, <1>5

LEMMA OtherStep ==
  ASSUME SigInv, HandleOther, UNCHANGED program
  PROVE  SpecInv'
<1>1. /\ InSpec("attributes") /\ spec.at < Len(fn.attrs) /\ parsed = "attributes"
      /\ Attr.kind \in {"tactics", "unsafe_elctx", "context", "verify", "unknown"}
      /\ Attr = fn.attrs[spec.at + 1] /\ DOMAIN spec = SpecFields
  BY HandlingFacts DEF HandleOther
<1>2. UNCHANGED <<scopevars, used>>
  BY DEF HandleOther
<1>3. CASE Fail
  BY <1>1, <1>2, <1>3, Stopped
<1>4. CASE ~Fail
  <2>1. Handled(spec) /\ UNCHANGED <<trait_specs, builder, parsed>>
    BY <1>4 DEF HandleOther
  <2>2. Extended(fn.attrs, spec, spec, spec.at + 1)
    BY <1>1, NoClause DEF SameLists
  <2>3. ~OfTrait(Attr)
    BY <1>1 DEF OfTrait
  <2> QED BY <1>1, <1>2, <2>1, <2>2, <2>3, HandledStep
<1> QED BY <1>3, <1>4

(* The builder keeps its conditions while it gets its names.               *)
Keeps(b, b2) == DOMAIN b2 = DOMAIN b /\ b2.pre = b.pre /\ b2.post = b.post

LEMMA BuilderNames ==
  ASSUME NEW b, {"pre", "post"} \subseteq DOMAIN b, NEW ps
  PROVE  /\ \A b2 \in add_params(b, ps) : Keeps(b, b2)
         /\ \A b2 \in add_existentials(b, ps) : Keeps(b, b2)
<1>1. \A b2 \in add_params(b, ps) : Keeps(b, b2)
  BY DEF add_params, Keeps
<1>2. \A b2 \in add_existentials(b, ps) : Keeps(b, b2)
  BY DEF add_existentials, Keeps
<1> QED BY <1>1, <1>2

LEMMA JoinObserved ==
  ASSUME NEW u, Observed(u), NEW v, Observed(v)
  PROVE  Observed(u \o v)
<1> DEFINE R == {x \in ToSet(u) \cup ToSet(v) : DOMAIN x = {"observe"}}
<1>1. u \in Seq(R) /\ v \in Seq(R)
  <2>1. \A s \in {u, v} : s \in Seq(ToSet(s)) /\ DOMAIN s = 1..Len(s) /\ Len(s) \in Nat
    BY ListFacts DEF Observed, IsList
  <2>2. \A s \in {u, v} : \A i \in 1..Len(s) : s[i] \in R
    BY <2>1 DEF Observed, ToSet
  <2> HIDE DEF R
  <2>3. \A s \in {u, v} : s \in [1..Len(s) -> R]
    BY <2>1, <2>2
  <2> QED BY <2>1, <2>3
<1> HIDE DEF R
<1>2. u \o v \in Seq(R)
  BY <1>1
<1>3. IsList(u \o v) /\ ToSet(u \o v) \subseteq R
  BY <1>2, SeqIsList
<1>4. \A i \in DOMAIN (u \o v) : (u \o v)[i] \in R
  BY <1>3 DEF ToSet
<1> QED BY <1>3, <1>4 DEF Observed, R

LEMMA ObservationsObserved ==
  ASSUME Given
  PROVE  Observed(Observations)
<1> DEFINE some == {i \in DOMAIN fn.captures : fn.captures[i].kind \in {"mut"}}
           muts == Captures({"mut"})
<1>1. IsFiniteSet(some)
  <2>1. IsFiniteSet(DOMAIN fn.captures)
    BY FnFacts, ListFacts
  <2> QED BY <2>1, FS_Subset
<1>2. PICK m \in Nat : DOMAIN muts = 1..m
  <2>1. Cardinality(some) \in Nat
    BY <1>1, FS_CardinalityType
  <2>2. DOMAIN muts = 1..Cardinality(some)
    BY DEF Captures, Chosen
  <2> QED BY <2>1, <2>2
<1> HIDE DEF muts, some
<1>3. CASE fn.closure = "FnMut"
  <2>1. PICK x : x = [observe |-> <<"ghost", "clos">>]
    OBVIOUS
  <2>2. Observations = <<x>> /\ DOMAIN x = {"observe"}
    BY <1>3, <2>1 DEF Observations
  <2>3. <<x>> \in Seq({x}) /\ DOMAIN <<x>> = {1} /\ <<x>>[1] = x
    OBVIOUS
  <2>4. IsList(<<x>>)
    BY <2>3, SeqIsList
  <2> QED BY <2>2, <2>3, <2>4 DEF Observed
<1>4. CASE fn.closure # "FnMut"
  <2>1. Observations = [i \in 1..m |-> [observe |-> Ghosts[i]]]
    BY <1>2, <1>4 DEF Observations, muts
  <2>2. PICK g : g = Ghosts
    OBVIOUS
  <2> DEFINE obs == [i \in 1..m |-> [observe |-> g[i]]]
  <2>3. obs \in Seq({obs[i] : i \in 1..m}) /\ DOMAIN obs = 1..m
    OBVIOUS
  <2>4. \A i \in 1..m : DOMAIN obs[i] = {"observe"}
    OBVIOUS
  <2> HIDE DEF obs
  <2>5. Observed(obs)
    BY <2>3, <2>4, SeqIsList DEF Observed
  <2> QED BY <2>1, <2>2, <2>5 DEF obs
<1> QED BY <1>3, <1>4

LEMMA CapturesStep ==
  ASSUME SigInv, ParseCaptures, UNCHANGED program
  PROVE  SpecInv'
<1>1. parsed = "captures" /\ UNCHANGED <<scopevars, used>>
  BY DEF ParseCaptures, InSpec
<1>2. CASE Fail
  BY <1>1, <1>2, Stopped
<1>3. CASE ~Fail
  <2> DEFINE all == Captures({"value", "shr", "mut"})
             mut == Captures({"mut"})
             ps == [i \in DOMAIN all |-> <<"capture", all[i].base, all[i].proj>>]
             xs == [i \in DOMAIN mut |-> <<"new", mut[i].base, mut[i].proj>>]
             b1 == add_params(builder, ps)
             b2 == UNION {add_existentials(b, xs) : b \in b1}
             b3 == UNION {add_params(b, Ghosts) : b \in b2}
  <2>1. /\ b3 # {} /\ parsed' = "attributes" /\ UNCHANGED <<spec, proof_info, trait_specs>>
        /\ builder' = [(CHOOSE b \in b3 : TRUE) EXCEPT !.post = @ \o Observations, !.args = <<"captures">>]
    BY <1>3 DEF ParseCaptures
  <2>2. {"pre", "post"} \subseteq DOMAIN builder /\ builder.pre = << >> /\ Observed(builder.post)
    BY <1>1 DEF SigInv, SpecInv
  <2> HIDE DEF all, mut, ps, xs
  <2>3. \A b \in b1 : Keeps(builder, b)
    BY <2>2, BuilderNames
  <2> HIDE DEF b1
  <2>4. \A b \in b2 : Keeps(builder, b)
    <3> SUFFICES ASSUME NEW b \in b1, NEW c \in add_existentials(b, xs) PROVE Keeps(builder, c)
      OBVIOUS
    <3>1. Keeps(builder, b) /\ {"pre", "post"} \subseteq DOMAIN b
      BY <2>2, <2>3 DEF Keeps
    <3>2. Keeps(b, c)
      BY <3>1, BuilderNames
    <3> QED BY <3>1, <3>2 DEF Keeps
  <2> HIDE DEF b2
  <2>5. \A b \in b3 : Keeps(builder, b)
    <3> SUFFICES ASSUME NEW b \in b2, NEW c \in add_params(b, Ghosts) PROVE Keeps(builder, c)
      OBVIOUS
    <3>1. Keeps(builder, b) /\ {"pre", "post"} \subseteq DOMAIN b
      BY <2>2, <2>4 DEF Keeps
    <3>2. Keeps(b, c)
      BY <3>1, BuilderNames
    <3> QED BY <3>1, <3>2 DEF Keeps
  <2> HIDE DEF b3
  <2>6. PICK b \in b3 : builder' = [b EXCEPT !.post = @ \o Observations, !.args = <<"captures">>]
    BY <2>1
  <2>7. Keeps(builder, b)
    BY <2>5
  <2>8. PICK c : c = [b EXCEPT !.post = @ \o Observations, !.args = <<"captures">>]
    OBVIOUS
  <2>9. c.pre = << >> /\ c.post = builder.post \o Observations /\ {"pre", "post"} \subseteq DOMAIN c
    BY <2>2, <2>7, <2>8 DEF Keeps
  <2>10. Observed(c.post)
    BY <2>2, <2>9, JoinObserved, ObservationsObserved DEF SigInv
  <2>11. builder' = c
    BY <2>6, <2>8
  <2>12. /\ spec' = spec /\ trait_specs' = trait_specs /\ fn' = fn /\ (AllScopes' <=> AllScopes)
         /\ scopes' = scopes /\ program' = program
    BY <1>1, <2>1 DEF scopevars, fn, AllScopes
  <2>13. TraitsHandled' <=> TraitsHandled
    BY <2>12 DEF TraitsHandled, Specialized, determine_trait_attr_requirement_origin, in_closure,
      generics_of, HasParent, Item
  <2>14. /\ spec.at \in 0..Len(fn.attrs) /\ DOMAIN spec = SpecFields /\ fn.did # ""
         /\ (spec.at # 0 => AllScopes) /\ Collected(fn.attrs, spec, spec.at) /\ TraitsHandled
    BY <1>1 DEF SigInv, SpecInv
  <2> QED BY <2>1, <2>9, <2>10, <2>11, <2>12, <2>13, <2>14 DEF SpecInv
<1> QED BY <1>2, <1>3

LEMMA DefaultStep ==
  ASSUME SigInv, add_default_spec, UNCHANGED program
  PROVE  SpecInv'
<1>1. parsed = "attributes" /\ AllScopes /\ spec.at = Len(fn.attrs) /\ UNCHANGED <<scopevars, used>>
  BY DEF add_default_spec, InSpec
<1>2. CASE Fail
  BY <1>1, <1>2, Stopped
<1>3. CASE ~Fail
  <2> DEFINE implicit == [i \in DOMAIN fn.arg_names |-> [name |-> fn.arg_names[i], explicit |-> FALSE, ty |-> 0]]
  <2>1. PICK s1 : s1 = IF spec.got_args THEN spec
                       ELSE [spec EXCEPT !.params = @ \o implicit, !.args = fn.arg_names, !.got_args = TRUE]
    OBVIOUS
  <2>2. PICK s2 : s2 = IF spec.ret # 0 THEN s1 ELSE [s1 EXCEPT !.existentials = Append(@, ret), !.ret = -1]
    OBVIOUS
  <2>3. PICK s3 : s3 = IF spec.ok_mode THEN assemble_fallible_spec(s2) ELSE s2
    OBVIOUS
  <2>4. spec' = s3 /\ parsed' = "push" /\ UNCHANGED <<proof_info, trait_specs, builder>>
    BY <1>3, <2>1, <2>2, <2>3 DEF add_default_spec
  <2>5. /\ DOMAIN spec = SpecFields /\ Collected(fn.attrs, spec, Len(fn.attrs)) /\ TraitsHandled /\ fn.did # ""
        /\ {"pre", "post"} \subseteq DOMAIN builder /\ builder.pre = << >> /\ Observed(builder.post)
        /\ spec.at \in 0..Len(fn.attrs)
    BY <1>1 DEF SigInv, SpecInv
  <2> HIDE DEF implicit
  <2>6. SameLists(spec, s1)
    <3>1. CASE spec.got_args
      BY <2>1, <2>5, <3>1 DEF SameLists
    <3>2. CASE ~spec.got_args
      BY <2>1, <2>5, <3>2 DEF SameLists, SpecFields
    <3> QED BY <3>1, <3>2
  <2>7. SameLists(spec, s2)
    <3>1. CASE spec.ret # 0
      BY <2>2, <2>6, <3>1
    <3>2. CASE spec.ret = 0
      BY <2>2, <2>6, <3>2 DEF SameLists, SpecFields
    <3> QED BY <3>1, <3>2
  <2>8. /\ s3.at = spec.at /\ DOMAIN s3 = SpecFields /\ s3.preconditions = spec.preconditions
        /\ s3.ok_requires = spec.ok_requires /\ s3.ok_ensures = spec.ok_ensures
        /\ s3.postconditions = spec.postconditions \o Cases(fn.attrs, s3)
    <3>1. CASE spec.ok_mode
      <4>1. s3 = [s2 EXCEPT !.postconditions =
              @ \o <<[case |-> "success", requires |-> s2.ok_requires, exists |-> s2.ok_exists, ensures |-> s2.ok_ensures],
                     [case |-> "failure", negated |-> s2.ok_requires]>>]
        BY <2>3, <3>1 DEF assemble_fallible_spec
      <4>2. /\ s3.at = s2.at /\ DOMAIN s3 = SpecFields /\ s3.preconditions = s2.preconditions
            /\ s3.ok_requires = s2.ok_requires /\ s3.ok_ensures = s2.ok_ensures /\ s3.ok_exists = s2.ok_exists
        BY <2>7, <4>1 DEF SameLists, SpecFields
      <4>3. s3.postconditions = s2.postconditions
              \o <<[case |-> "success", requires |-> s3.ok_requires, exists |-> s3.ok_exists, ensures |-> s3.ok_ensures],
                   [case |-> "failure", negated |-> s3.ok_requires]>>
        BY <2>7, <4>1, <4>2 DEF SameLists, SpecFields
      <4>4. OkBefore(fn.attrs, Len(fn.attrs))
        BY <2>5, <3>1 DEF Collected
      <4> QED BY <2>7, <4>2, <4>3, <4>4 DEF SameLists, Cases
    <3>2. CASE ~spec.ok_mode
      <4>1. s3 = s2 /\ ~OkBefore(fn.attrs, Len(fn.attrs))
        BY <2>3, <2>5, <3>2 DEF Collected
      <4>2. Cases(fn.attrs, s3) = << >>
        BY <4>1 DEF Cases
      <4>3. spec.postconditions \in Seq([clause : Nat])
        BY <2>5 DEF Collected
      <4>4. spec.postconditions \o << >> = spec.postconditions
        <5>1. PICK R : R = [clause : Nat]
          OBVIOUS
        <5>2. PICK p \in Seq(R) : p = spec.postconditions
          BY <4>3, <5>1
        <5>3. p \o << >> = p
          OBVIOUS
        <5> QED BY <5>2, <5>3
      <4> QED BY <2>7, <4>1, <4>2, <4>4 DEF SameLists
    <3> QED BY <3>1, <3>2
  <2>9. Assembly(s3)
    BY <2>5, <2>8 DEF Assembly, Collected, attribute_number
  <2>10. /\ fn' = fn /\ (AllScopes' <=> AllScopes) /\ scopes' = scopes /\ program' = program
         /\ builder' = builder /\ trait_specs' = trait_specs
    BY <1>1, <2>4 DEF scopevars, fn, AllScopes
  <2>11. TraitsHandled'
    <3>1. spec'.at = spec.at
      BY <2>4, <2>8
    <3>2. TraitsHandled' <=> TraitsHandled
      BY <2>10, <3>1 DEF TraitsHandled, Specialized, determine_trait_attr_requirement_origin, in_closure,
        generics_of, HasParent, Item
    <3> QED BY <2>5, <3>2
  <2>12. Assembly(spec)'
    BY <2>4, <2>9, <2>10 DEF Assembly, attribute_number
  <2> QED BY <1>1, <2>4, <2>5, <2>8, <2>10, <2>11, <2>12 DEF SpecInv
<1> QED BY <1>2, <1>3

LEMMA PushStep ==
  ASSUME SigInv, push_to_builder, UNCHANGED program
  PROVE  SpecInv'
<1>1. parsed = "push" /\ AllScopes /\ UNCHANGED <<scopevars, used>>
  BY DEF push_to_builder, InSpec
<1>2. CASE Fail
  BY <1>1, <1>2, Stopped
<1>3. CASE ~Fail
  <2> DEFINE ps == [i \in DOMAIN spec.params |-> spec.params[i].name]
             b1 == add_params(builder, ps)
             bs == UNION {add_existentials(b, spec.existentials) : b \in b1}
  <2>1. /\ bs # {} /\ parsed' = (IF in_closure THEN "yes" ELSE "attach")
        /\ builder' = [(CHOOSE b \in bs : TRUE) EXCEPT
                        !.args = @ \o spec.args, !.pre = @ \o spec.preconditions,
                        !.post = @ \o spec.postconditions, !.ret = spec.ret, !.has_spec = spec.got_args]
        /\ UNCHANGED <<spec, proof_info, trait_specs>>
    BY <1>3 DEF push_to_builder
  <2>2. /\ {"pre", "post"} \subseteq DOMAIN builder /\ builder.pre = << >> /\ Observed(builder.post)
        /\ Assembly(spec) /\ spec.at = Len(fn.attrs) /\ TraitsHandled /\ DOMAIN spec = SpecFields /\ fn.did # ""
        /\ spec.at \in 0..Len(fn.attrs)
    BY <1>1 DEF SigInv, SpecInv
  <2> HIDE DEF ps
  <2>3. \A b \in b1 : Keeps(builder, b)
    BY <2>2, BuilderNames
  <2> HIDE DEF b1
  <2>4. \A b \in bs : Keeps(builder, b)
    <3> SUFFICES ASSUME NEW b \in b1, NEW c \in add_existentials(b, spec.existentials) PROVE Keeps(builder, c)
      OBVIOUS
    <3>1. Keeps(builder, b) /\ {"pre", "post"} \subseteq DOMAIN b
      BY <2>2, <2>3 DEF Keeps
    <3>2. Keeps(b, c)
      BY <3>1, BuilderNames
    <3> QED BY <3>1, <3>2 DEF Keeps
  <2> HIDE DEF bs
  <2>5. PICK b \in bs : builder' = [b EXCEPT !.args = @ \o spec.args, !.pre = @ \o spec.preconditions,
                                            !.post = @ \o spec.postconditions, !.ret = spec.ret,
                                            !.has_spec = spec.got_args]
    BY <2>1
  <2>6. PICK c : c = [b EXCEPT !.args = @ \o spec.args, !.pre = @ \o spec.preconditions,
                               !.post = @ \o spec.postconditions, !.ret = spec.ret, !.has_spec = spec.got_args]
    OBVIOUS
  <2>7. Keeps(builder, b) /\ builder' = c
    BY <2>4, <2>5, <2>6
  <2>8. /\ c.pre = << >> \o spec.preconditions /\ c.post = builder.post \o spec.postconditions
        /\ {"pre", "post"} \subseteq DOMAIN c
    BY <2>2, <2>6, <2>7 DEF Keeps
  <2>9. InOrder(c.pre, Clauses(fn.attrs, {"requires"}, FALSE, Len(fn.attrs)))
    <3>1. spec.preconditions \in Seq(Nat)
      BY <2>2 DEF Assembly
    <3>2. c.pre = spec.preconditions
      BY <2>8, <3>1
    <3> QED BY <2>2, <3>2 DEF Assembly, attribute_number
  <2>10. PostKept(c.post)
    <3>1. PICK cl \in Seq([clause : Nat]) :
            InOrder(Numbers(cl), PostClauses(fn.attrs, Len(fn.attrs))) /\ spec.postconditions = cl \o Cases(fn.attrs, spec)
      BY <2>2 DEF Assembly, attribute_number
    <3>2. /\ InOrder(spec.ok_requires, Clauses(fn.attrs, {"requires"}, TRUE, Len(fn.attrs)))
          /\ InOrder(spec.ok_ensures, Clauses(fn.attrs, {"ensures"}, TRUE, Len(fn.attrs)))
          /\ IsList(fn.attrs)
      BY <2>2, FnFacts DEF Assembly, attribute_number, SigInv
    <3>3. PICK obs : obs = builder.post
      OBVIOUS
    <3>4. PostKept(obs \o (cl \o Cases(fn.attrs, spec)))
      BY <2>2, <3>1, <3>2, <3>3, Assembled
    <3> QED BY <2>8, <3>1, <3>3, <3>4
  <2>11. /\ spec' = spec /\ trait_specs' = trait_specs /\ fn' = fn /\ (AllScopes' <=> AllScopes)
         /\ scopes' = scopes /\ program' = program
    BY <1>1, <2>1 DEF scopevars, fn, AllScopes
  <2>12. PostKept(builder.post)'
    <3>1. PICK p : p = c.post
      OBVIOUS
    <3>2. PostKept(p)' <=> PostKept(p)
      BY <2>11 DEF PostKept, CasesKept, ClauseNumbers
    <3> QED BY <2>7, <2>10, <3>1, <3>2
  <2>13. TraitsHandled' <=> TraitsHandled
    BY <2>11 DEF TraitsHandled, Specialized, determine_trait_attr_requirement_origin, in_closure,
      generics_of, HasParent, Item
  <2>14. in_closure => TraitsKept'
    <3>1. \A n \in DOMAIN fn.attrs : n \in 1..spec.at
      BY <2>2, FnFacts DEF SigInv
    <3>2. in_closure => \A n \in DOMAIN fn.attrs : ~OfTrait(fn.attrs[n])
      BY <2>2, <3>1 DEF TraitsHandled
    <3> QED BY <2>11, <3>2 DEF TraitsKept
  <2> QED BY <1>1, <2>1, <2>2, <2>7, <2>8, <2>9, <2>11, <2>12, <2>13, <2>14 DEF SpecInv
<1> QED BY <1>2, <1>3

(* The attributes override those of the requirement that their name        *)
(* denotes: the one it was attached to declares it, and so does the one    *)
(* that the scope has the name for.                                        *)
LEMMA AttachStep ==
  ASSUME SigInv, attach_trait_attr_requirement, UNCHANGED program
  PROVE  SpecInv' /\ ScopeInv'
<1>1. /\ parsed = "attach" /\ AllScopes /\ parsed' = "yes"
      /\ UNCHANGED <<spec, proof_info, trait_specs, builder, used>>
      /\ UNCHANGED <<did, pass, todo, reqs, cells, names, status>>
      /\ scopes' = [scopes EXCEPT ![fn.did].cells =
                      [k \in DOMAIN @ |-> [@[k] EXCEPT !.overridden = k \in DOMAIN trait_specs]]]
  BY DEF attach_trait_attr_requirement, InSpec
<1>2. /\ fn.did # "" /\ spec.at = Len(fn.attrs) /\ TraitsHandled /\ DOMAIN spec = SpecFields
      /\ {"pre", "post"} \subseteq DOMAIN builder /\ spec.at \in 0..Len(fn.attrs)
      /\ InOrder(builder.pre, Clauses(fn.attrs, {"requires"}, FALSE, Len(fn.attrs))) /\ PostKept(builder.post)
  BY <1>1 DEF SigInv, SpecInv
<1>3. fn.did \in DOMAIN scopes
  BY <1>1, <1>2, FnFacts DEF SigInv
<1>4. PICK d, s : d = fn.did /\ s = scopes[fn.did]
  OBVIOUS
<1>5. Complete(s)
  BY <1>3, <1>4 DEF SigInv, ScopeInv
<1>6. PICK ss : ss = scopes'
  OBVIOUS
<1>7. PICK c : c = [k \in DOMAIN s.cells |-> [s.cells[k] EXCEPT !.overridden = k \in DOMAIN trait_specs]]
  OBVIOUS
<1>8. DOMAIN ss = DOMAIN scopes /\ (\A e \in DOMAIN ss : e # d => ss[e] = scopes[e]) /\ ss[d] = [s EXCEPT !.cells = c]
  BY <1>1, <1>3, <1>4, <1>6, <1>7
<1>9. ss[d].cells = c /\ ss[d].names = s.names /\ {"cells", "names"} \subseteq DOMAIN ss[d]
  BY <1>5, <1>8 DEF Complete
<1>10. /\ DOMAIN c = DOMAIN s.cells
       /\ \A k \in DOMAIN c : /\ DOMAIN c[k] = DOMAIN s.cells[k] /\ c[k].state = s.cells[k].state
                              /\ c[k].overridden = (k \in DOMAIN trait_specs)
  <2>1. DOMAIN c = DOMAIN s.cells
    BY <1>7
  <2>2. ASSUME NEW k \in DOMAIN c
        PROVE  /\ DOMAIN c[k] = DOMAIN s.cells[k] /\ c[k].state = s.cells[k].state
               /\ c[k].overridden = (k \in DOMAIN trait_specs)
    <3>1. {"state", "overridden"} \subseteq DOMAIN s.cells[k]
      BY <1>5, <2>1 DEF Complete, WholeCells
    <3>2. c[k] = [s.cells[k] EXCEPT !.overridden = k \in DOMAIN trait_specs]
      BY <1>7, <2>1
    <3> QED BY <3>1, <3>2
  <2> QED BY <2>1, <2>2
<1>11. Complete(ss[d])
  BY <1>5, <1>9, <1>10 DEF Complete, WholeCells, NamesHold
<1>12. ScopeInv'
  <2>1. \A e \in DOMAIN ss : Complete(ss[e])
    BY <1>8, <1>11 DEF SigInv, ScopeInv
  <2> QED BY <1>1, <1>6, <1>8, <2>1 DEF SigInv, ScopeInv, AllScopes
<1> DEFINE single(p, a) == \A k, l \in {q \in DOMAIN c : q[2][1] = <<p>> /\ a \in Attrs[q[1]]} : k = l
<1>13. ASSUME NEW n \in DOMAIN fn.attrs, OfTrait(fn.attrs[n]), NEW p, NEW a,
              p = fn.attrs[n].path[1], a = fn.attrs[n].path[2],
              single(p, a)
       PROVE  <<p, a>> \in DOMAIN s.names.attrs /\ c[s.names.attrs[<<p, a>>]].overridden
  <2>1. n \in 1..spec.at
    BY <1>2, FnFacts DEF SigInv
  <2>2. PICK k \in DOMAIN trait_specs : k \in determine_trait_attr_requirement_origin(fn.attrs[n].path)
    BY <1>2, <1>13, <2>1 DEF TraitsHandled, Specialized
  <2>3. /\ k \in DOMAIN s.cells /\ p \in ToSet(generics_of(d)) /\ k[2][1] = <<p>>
        /\ s.cells[k].state # "empty" /\ a \in Attrs[k[1]]
    BY <1>4, <1>13, <2>2 DEF determine_trait_attr_requirement_origin
  <2>4. p \in DOMAIN ParamIndex
    BY <1>2, <1>4, <2>3, FnFacts DEF SigInv
  <2>5. Plain(k) /\ k[2][1][1] = p
    BY <2>3, <2>4 DEF Plain
  <2>6. <<p, a>> \in DOMAIN s.names.attrs
    BY <1>5, <2>3, <2>5 DEF Complete, HasNames
  <2> DEFINE q == s.names.attrs[<<p, a>>]
  <2>7. q \in DOMAIN s.cells /\ q[2][1] = <<p>> /\ a \in Attrs[q[1]]
    <3>1. <<p, a>>[1] = p /\ <<p, a>>[2] = a
      OBVIOUS
    <3> QED BY <1>5, <2>6, <3>1 DEF Complete, NamesHold
  <2> HIDE DEF q
  <2>8. q = k
    BY <1>10, <1>13, <2>3, <2>7
  <2>9. c[q].overridden
    BY <1>10, <2>7, <2>8
  <2> QED BY <2>6, <2>9 DEF q
<1>14. fn' = fn /\ AllScopes' /\ program' = program
  BY <1>1, <1>6, <1>8 DEF fn, AllScopes
<1>15. TraitsKept'
  <2> SUFFICES ASSUME NEW n \in DOMAIN fn.attrs, OfTrait(fn.attrs[n]), NEW p, NEW a,
                      p = fn.attrs[n].path[1], a = fn.attrs[n].path[2],
                      \A k, l \in Declaring(<<p, a>>)' : k = l
               PROVE  <<p, a>> \in DOMAIN ss[d].names.attrs /\ ss[d].cells[ss[d].names.attrs[<<p, a>>]].overridden
    BY <1>4, <1>6, <1>14 DEF TraitsKept
  <2>1. Declaring(<<p, a>>)' = {q \in DOMAIN c : q[2][1] = <<p>> /\ a \in Attrs[q[1]]}
    <3>1. <<p, a>>[1] = p /\ <<p, a>>[2] = a
      OBVIOUS
    <3> QED BY <1>4, <1>6, <1>9, <1>14, <3>1 DEF Declaring
  <2>2. single(p, a)
    BY <2>1, Zenon
  <2> HIDE DEF single
  <2>3. <<p, a>> \in DOMAIN s.names.attrs /\ c[s.names.attrs[<<p, a>>]].overridden
    BY <1>13, <2>2
  <2> QED BY <1>9, <2>3
<1>16. PostKept(builder.post)'
  <2>1. PostKept(builder.post)' <=> PostKept(builder.post)
    BY <1>1, <1>14 DEF PostKept, CasesKept, ClauseNumbers
  <2> QED BY <1>2, <2>1
<1>17. SpecInv'
  BY <1>1, <1>2, <1>14, <1>15, <1>16 DEF SpecInv
<1> QED BY <1>12, <1>17

(* The bounds of an item and their orders.                                 *)
Proper(b) == b.tr \in DOMAIN program.items /\ (b.tr \in HasAssoc => OnParameter(b.args))

LEMMA OwnBoundsProper ==
  ASSUME program \in Programs, NEW e \in DOMAIN program.items
  PROVE  IsList(OwnBounds(e)) /\ \A b \in ToSet(OwnBounds(e)) : Proper(b)
<1>1. IsList(Item(e).bounds)
  BY ProgramsAssumption DEF Item
<1>2. PICK bs, self : bs = Item(e).bounds /\ self = SelfBound(e)
  OBVIOUS
<1>3. \A b \in ToSet(bs) : Proper(b)
  BY <1>2, AssocAssumption DEF Item, Proper
<1>4. ASSUME Item(e).kind = "trait" PROVE Proper(self)
  <2>1. self.tr = e /\ self.args = [i \in DOMAIN Item(e).params |-> <<Item(e).params[i]>>]
    BY <1>2 DEF SelfBound
  <2>2. ASSUME e \in HasAssoc PROVE OnParameter(self.args)
    <3>1. Item(e).params = <<"Self">> /\ ToSet(Item(e).params) \subseteq DOMAIN ParamIndex
      <4>1. Item(e).params = <<"Self">>
        BY <1>4, <2>2, AssocAssumption DEF Item
      <4>2. ToSet(Item(e).params) \subseteq DOMAIN ParamIndex
        BY ProgramsAssumption DEF Item
      <4> QED BY <4>1, <4>2
    <3>2. "Self" \in DOMAIN ParamIndex
      BY <3>1 DEF ToSet
    <3>3. self.args = <<<<"Self">>>>
      BY <2>1, <3>1
    <3> QED BY <3>2, <3>3 DEF OnParameter
  <2> QED BY <2>1, <2>2 DEF Proper
<1>5. PICK B : B = ToSet(bs) \cup {self}
  OBVIOUS
<1>6. bs \in Seq(B)
  <2>1. PICK Q : Q = ToSet(bs)
    OBVIOUS
  <2>2. bs \in Seq(Q) /\ Q \subseteq B
    BY <1>1, <1>2, <1>5, <2>1 DEF IsList
  <2> QED BY <2>2, SeqWithin
<1>7. PICK up : up = IF Item(e).kind = "trait" THEN <<self>> ELSE << >>
  OBVIOUS
<1>8. up \in Seq(B) /\ \A b \in ToSet(up) : Proper(b)
  <2>1. CASE Item(e).kind = "trait"
    <3>1. up = <<self>>
      BY <1>7, <2>1
    <3>2. up \in Seq(B) /\ ToSet(up) = {self}
      BY <1>5, <3>1 DEF ToSet
    <3> QED BY <1>4, <2>1, <3>2
  <2>2. CASE Item(e).kind # "trait"
    <3>1. up = << >>
      BY <1>7, <2>2
    <3>2. up \in Seq(B) /\ ToSet(up) = {}
      BY <3>1 DEF ToSet
    <3> QED BY <3>2
  <2> QED BY <2>1, <2>2
<1>9. OwnBounds(e) = up \o bs
  BY <1>2, <1>7 DEF OwnBounds
<1>10. up \o bs \in Seq(B) /\ ToSet(up \o bs) = ToSet(up) \cup ToSet(bs)
  BY <1>6, <1>8, Joined
<1> QED BY <1>3, <1>8, <1>9, <1>10, SeqIsList

LEMMA BoundsProper ==
  ASSUME program \in Programs, NEW d \in DOMAIN program.items
  PROVE  IsList(caller_bounds(d)) /\ \A b \in ToSet(caller_bounds(d)) : Proper(b)
<1>1. PICK own, up : own = OwnBounds(d) /\ up = IF HasParent(d) THEN OwnBounds(Item(d).parent) ELSE << >>
  OBVIOUS
<1>2. IsList(own) /\ \A b \in ToSet(own) : Proper(b)
  BY <1>1, OwnBoundsProper
<1>3. IsList(up) /\ \A b \in ToSet(up) : Proper(b)
  <2>1. CASE HasParent(d)
    <3>1. Item(d).parent \in DOMAIN program.items
      BY <2>1, ProgramsAssumption DEF HasParent, Item
    <3> QED BY <1>1, <2>1, <3>1, OwnBoundsProper
  <2>2. CASE ~HasParent(d)
    <3>1. up = << >>
      BY <1>1, <2>2
    <3> QED BY <3>1 DEF IsList, ToSet
  <2> QED BY <2>1, <2>2
<1>4. PICK B1, B2, B : B1 = ToSet(own) /\ B2 = ToSet(up) /\ B = B1 \cup B2
  OBVIOUS
<1>5. own \in Seq(B1) /\ up \in Seq(B2) /\ B1 \subseteq B /\ B2 \subseteq B
  BY <1>2, <1>3, <1>4 DEF IsList
<1>6. own \in Seq(B) /\ up \in Seq(B)
  BY <1>5, SeqWithin
<1>7. up \o own \in Seq(B) /\ ToSet(up \o own) = B
  BY <1>4, <1>6, Joined
<1>8. caller_bounds(d) = up \o own
  BY <1>1 DEF caller_bounds
<1> QED BY <1>2, <1>3, <1>4, <1>7, <1>8, SeqIsList

(* Each requirement is that of a bound, and no bound is lost.              *)
OrderOf(d, order) ==
  /\ \A r \in ToSet(order) :
       /\ \E b \in ToSet(caller_bounds(d)) : r.key = generate_args_inst_key(b)
       /\ r.constr # << >> => \E e \in Equalities(d) : <<e.tr, e.args>> = r.key /\ e.ty = r.constr
  /\ \A b \in ToSet(caller_bounds(d)) :
       b.tr \notin Builtin => \E r \in ToSet(order) : r.key = generate_args_inst_key(b)

LEMMA MetaOf ==
  ASSUME NEW d, NEW b
  PROVE  LET r == TraitReqMeta(d, b) IN
         /\ r.key = generate_args_inst_key(b)
         /\ r.constr # << >> => \E e \in Equalities(d) : <<e.tr, e.args>> = r.key /\ e.ty = r.constr
<1> DEFINE r == TraitReqMeta(d, b)
           eqs == get_trait_assoc_constraints(d, b)
<1>1. r.key = generate_args_inst_key(b) /\ r.constr = IF eqs = {} THEN << >> ELSE (CHOOSE e \in eqs : TRUE).ty
  BY DEF TraitReqMeta
<1>2. \A e \in eqs : e \in Equalities(d) /\ <<e.tr, e.args>> = generate_args_inst_key(b)
  BY DEF get_trait_assoc_constraints, generate_args_inst_key
<1> HIDE DEF r, eqs
<1>3. ASSUME r.constr # << >> PROVE \E e \in Equalities(d) : <<e.tr, e.args>> = r.key /\ e.ty = r.constr
  <2>1. PICK e \in eqs : r.constr = e.ty
    BY <1>1, <1>3
  <2> QED BY <1>1, <1>2, <2>1
<1> QED BY <1>1, <1>3 DEF r

LEMMA OrdersAreLists ==
  ASSUME NEW d \in DOMAIN program.items, program \in Programs, NEW order \in Requirements(d)
  PROVE  IsList(order) /\ OrderOf(d, order)
<1>1. PICK B : B = ToSet(caller_bounds(d))
  OBVIOUS
<1>2. caller_bounds(d) \in Seq(B)
  BY <1>1, BoundsProper DEF IsList
<1>3. PICK decl : decl = IF is_trait(d) THEN d ELSE trait_of_assoc(d)
  OBVIOUS
<1>4. PICK s \in get_nontrivial(d, decl) : order = [i \in DOMAIN s |-> TraitReqMeta(d, s[i])]
  BY <1>3 DEF Requirements
<1>5. s \in Seq(B) /\ \A b \in B : b.tr \notin Builtin => b \in ToSet(s)
  BY <1>1, <1>2, NontrivialLists
<1>6. PICK R : R = {TraitReqMeta(d, s[i]) : i \in DOMAIN s}
  OBVIOUS
<1>7. Len(s) \in Nat /\ DOMAIN s = 1..Len(s) /\ ToSet(s) \subseteq B
  BY <1>5, SeqIsList, ListFacts
<1>8. order \in [1..Len(s) -> R]
  BY <1>4, <1>6, <1>7
<1>9. order \in Seq(R)
  BY <1>7, <1>8
<1>10. IsList(order)
  BY <1>9, SeqIsList
<1>11. DOMAIN order = DOMAIN s /\ \A i \in DOMAIN s : order[i] = TraitReqMeta(d, s[i])
  BY <1>4
<1>12. ASSUME NEW r \in ToSet(order)
       PROVE  /\ \E b \in B : r.key = generate_args_inst_key(b)
              /\ r.constr # << >> => \E e \in Equalities(d) : <<e.tr, e.args>> = r.key /\ e.ty = r.constr
  <2>1. PICK i \in DOMAIN s : r = TraitReqMeta(d, s[i])
    BY <1>11 DEF ToSet
  <2>2. s[i] \in B
    BY <1>7 DEF ToSet
  <2> QED BY <2>1, <2>2, MetaOf
<1>13. ASSUME NEW b \in B, b.tr \notin Builtin PROVE \E r \in ToSet(order) : r.key = generate_args_inst_key(b)
  <2>1. PICK i \in DOMAIN s : s[i] = b
    BY <1>5, <1>13 DEF ToSet
  <2>2. order[i] \in ToSet(order) /\ order[i] = TraitReqMeta(d, b)
    BY <1>11, <2>1 DEF ToSet
  <2> QED BY <2>2, MetaOf
<1> QED BY <1>1, <1>10, <1>12, <1>13 DEF OrderOf

(* The inductive invariant.                                                *)
LEMMA SigInit == Init => SigInv
<1> SUFFICES ASSUME Init PROVE SigInv
  OBVIOUS
<1>1. Given
  <2>1. program \in Programs
    BY DEF Init
  <2>2. ASSUME NEW d \in DOMAIN program.items, NEW order \in orders[d] PROVE IsList(order)
    <3>1. orders[d] = Requirements(d)
      BY DEF Init, OrdersInit
    <3>2. order \in Requirements(d)
      BY <3>1
    <3> QED BY <2>1, <3>2, OrdersAreLists
  <2> QED BY <2>1, <2>2 DEF Given
<1>2. ScopeInv
  <2>1. DOMAIN scopes = {} /\ did = "" /\ pass = "none"
    BY DEF Init, ScopesInit
  <2> QED BY <2>1 DEF ScopeInv, Passes
<1>3. SpecInv
  <2>1. /\ spec = [at |-> 0, params |-> << >>, args |-> << >>, preconditions |-> << >>,
                   postconditions |-> << >>, existentials |-> << >>, ret |-> 0, got_args |-> FALSE,
                   ok_mode |-> FALSE, ok_exists |-> << >>, ok_requires |-> << >>, ok_ensures |-> << >>]
        /\ builder = [params |-> << >>, args |-> << >>, pre |-> << >>, post |-> << >>, existential |-> << >>,
                      ret |-> 0, has_spec |-> FALSE, coq_names |-> {}]
        /\ parsed = IF fn.did = "" THEN "none" ELSE IF in_closure THEN "captures" ELSE "attributes"
    BY DEF Init, SpecInit
  <2>2. Len(fn.attrs) \in Nat /\ DOMAIN fn.attrs = 1..Len(fn.attrs)
    BY <1>1, FnFacts
  <2>3. /\ spec.at = 0 /\ DOMAIN spec = SpecFields /\ ~spec.ok_mode /\ spec.preconditions = << >>
        /\ spec.postconditions = << >> /\ spec.ok_requires = << >> /\ spec.ok_ensures = << >>
        /\ {"pre", "post"} \subseteq DOMAIN builder /\ builder.pre = << >> /\ builder.post = << >>
    BY <2>1 DEF SpecFields
  <2>4. \A kinds, after : Clauses(fn.attrs, kinds, after, 0) = {}
    BY <2>2 DEF Clauses
  <2>5. InOrder(<< >>, {}) /\ DOMAIN Numbers(<< >>) = {}
    BY DEF InOrder, ToSet, Numbers
  <2>6. InOrder(Numbers(<< >>), PostClauses(fn.attrs, 0))
    BY <2>4, <2>5 DEF InOrder, ToSet, PostClauses
  <2>7. ~OkBefore(fn.attrs, 0)
    BY DEF OkBefore
  <2>8. << >> \in Seq(Nat) /\ << >> \in Seq([clause : Nat])
    OBVIOUS
  <2>9. Collected(fn.attrs, spec, 0)
    BY <2>3, <2>4, <2>5, <2>6, <2>7, <2>8 DEF Collected
  <2>10. Observed(<< >>)
    BY DEF Observed, IsList
  <2>11. TraitsHandled
    BY <2>3 DEF TraitsHandled
  <2>12. parsed \in {"none", "captures", "attributes"} /\ (parsed # "none" => fn.did # "")
    BY <2>1
  <2>13. spec.at \in 0..Len(fn.attrs)
    BY <2>2, <2>3
  <2>14. Collected(fn.attrs, spec, spec.at) /\ Observed(builder.post)
    BY <2>3, <2>9, <2>10
  <2> QED BY <2>3, <2>11, <2>12, <2>13, <2>14 DEF SpecInv
<1> QED BY <1>1, <1>2, <1>3 DEF SigInv

LEMMA SigStep == SigInv /\ [Next]_vars => SigInv'
<1> SUFFICES ASSUME SigInv, [Next]_vars PROVE SigInv'
  OBVIOUS
<1>1. UNCHANGED <<program, orders>>
  BY DEF Next, vars
<1>2. Given'
  BY <1>1 DEF SigInv, Given
<1>3. Given /\ ScopeInv /\ SpecInv
  BY DEF SigInv
<1>4. ASSUME UNCHANGED scopevars PROVE ScopeInv'
  <2>1. UNCHANGED <<did, pass, todo, reqs, cells, names, scopes, program>>
    BY <1>1, <1>4 DEF scopevars
  <2> QED BY <1>3, <2>1 DEF ScopeInv, AllScopes
<1>5. ASSUME UNCHANGED vars PROVE SigInv'
  <2>1. UNCHANGED scopevars /\ UNCHANGED specvars /\ scopes' = scopes
    BY <1>5 DEF vars, scopevars
  <2>2. SpecInv'
    BY <1>1, <1>3, <2>1, SpecAside
  <2> QED BY <1>2, <1>4, <2>1, <2>2 DEF SigInv
<1>6. ASSUME BuildScope, UNCHANGED <<program, orders, used, specvars>> PROVE SigInv'
  <2>1. ScopeInv'
    BY <1>1, <1>3, <1>6, BuildStep
  <2>2. ~AllScopes
    <3>1. pass # "none" \/ ~AllScopes
      BY <1>6 DEF BuildScope, NewFromGenerics, CollectRequirements, SortForever, PreRegister, fill_trait_use,
        ConstrainAssocTypes, finalize_trait_use, PrecomputeNames, PassDone, IntoGenericScope, Visit
    <3> QED BY <1>3, <3>1 DEF ScopeInv
  <2>3. spec.at = 0 /\ parsed \notin {"push", "attach", "yes"}
    BY <1>3, <2>2 DEF SpecInv
  <2>4. SpecInv'
    BY <1>3, <1>6, <2>3, SpecAside
  <2> QED BY <1>2, <2>1, <2>4 DEF SigInv
<1>7. ASSUME ParseSpec PROVE SigInv'
  <2>1. ASSUME attach_trait_attr_requirement PROVE SigInv'
    BY <1>1, <1>2, <2>1, AttachStep DEF SigInv
  <2>2. ASSUME ~attach_trait_attr_requirement PROVE SigInv'
    <3>1. UNCHANGED scopevars
      BY <1>7, <2>2 DEF ParseSpec, ParseCaptures, HandleBinders, HandleArgs, RequireTraitAttr, HandleRequires,
        HandleEnsures, HandleOther, add_default_spec, push_to_builder
    <3>2. SpecInv'
      BY <1>1, <1>7, <2>2, CapturesStep, BindersStep, ArgsStep, TraitStep, RequiresStep, EnsuresStep, OtherStep,
        DefaultStep, PushStep DEF ParseSpec
    <3> QED BY <1>2, <1>4, <3>1, <3>2 DEF SigInv
  <2> QED BY <2>1, <2>2
<1>8. ASSUME RegisterUse, UNCHANGED <<program, orders, specvars>> PROVE SigInv'
  <2>1. UNCHANGED <<did, pass, todo, reqs, cells, names, scopes>>
    BY <1>8 DEF RegisterUse
  <2>2. ScopeInv'
    BY <1>1, <1>3, <2>1 DEF ScopeInv, AllScopes
  <2>3. SpecInv'
    BY <1>1, <1>3, <1>8, <2>1, SpecAside
  <2> QED BY <1>2, <2>2, <2>3 DEF SigInv
<1> QED BY <1>5, <1>6, <1>7, <1>8 DEF Next

(* Every clause of the attributes of a function is in its finished         *)
(* specification once, in its order and in the case it belongs to, and a   *)
(* trait attribute that is specialized is the one that the other clauses   *)
(* see under its name: for every crate, whatever the traits, the           *)
(* requirements and their orders, and the attributes are                   *)
(* (VerboseFunctionSpecParser, scope.rs).                                  *)
THEOREM EveryClauseKept == Spec => []ClausesKept
<1>1. SigInv => ClausesKept
  <2> SUFFICES ASSUME SigInv, parsed = "yes"
               PROVE  /\ InOrder(builder.pre, ClauseNumbers({"requires"}, FALSE))
                      /\ PostKept(builder.post) /\ TraitsKept
    BY DEF ClausesKept, TraitsKept
  <2>1. IsList(fn.attrs)
    BY FnFacts DEF SigInv
  <2>2. ClauseNumbers({"requires"}, FALSE) = Clauses(fn.attrs, {"requires"}, FALSE, Len(fn.attrs))
    BY <2>1, AllClauses
  <2> QED BY <2>2 DEF SigInv, SpecInv
<1>2. SigInv /\ [Next]_vars => SigInv'
  BY SigStep
<1> QED BY SigInit, <1>1, <1>2, PTL DEF Spec

---------------------------------------------------------------------------
(* The associated types that equalities determine.  A cell is constrained  *)
(* only if an equality is for its key, and to a type that is no associated *)
(* type such an equality is for; what is resolved afterwards sees all the  *)
(* constraints.                                                            *)
Equated(d, k) == \E e \in Equalities(d) : <<e.tr, e.args>> = k
Undetermined(d, v) == \A e \in Equalities(d) : v # AssocLit(<<e.tr, e.args>>)
Constrained(d, cs) ==
  \A k \in DOMAIN cs : cs[k].constr # << >> => Equated(d, k) /\ (~Chained(d) => Undetermined(d, cs[k].constr))

FreeOf(cs, v) == \A k \in DOMAIN cs : cs[k].constr # << >> => v # AssocLit(k)
ListsFree(cs, rs) == \A i \in DOMAIN rs : \A v \in ToSet(rs[i].assoc) : FreeOf(cs, v)
Quantified(cs, ns) ==
  /\ \A k \in DOMAIN cs : FreeOf(cs, cs[k].constr) /\ ListsFree(cs, cs[k].reqs)
  /\ \A p \in DOMAIN ns.tys : FreeOf(cs, ns.tys[p])

CellFields == {"state", "self_use", "origin", "is_used_in_self_trait", "constr", "tys", "reqs", "overridden"}
FieldsIn(cs) == \A k \in DOMAIN cs : DOMAIN cs[k] = CellFields

QuantPass(p, d, rs, cs, ns) ==
  /\ OrderOf(d, rs) /\ FieldsIn(cs)
  /\ p \in {"preregister", "fill"} => \A k \in DOMAIN cs : cs[k].constr = << >>
  /\ p \in {"preregister", "fill", "constrain"} => \A k \in DOMAIN cs : cs[k].reqs = << >>
  /\ p # "name" => DOMAIN ns.tys = {}
  /\ p \in {"constrain", "finalize", "name"} => Constrained(d, cs)
  /\ p \in {"finalize", "name"} /\ ~Chained(d) => Quantified(cs, ns)

QuantInv ==
  /\ \A d \in DOMAIN program.items : \A order \in orders[d] : OrderOf(d, order)
  /\ pass = "collect" => DOMAIN names.tys = {}
  /\ pass \in Passes => QuantPass(pass, did, reqs, cells, names)
  /\ \A d \in DOMAIN scopes :
       FieldsIn(scopes[d].cells) /\ (~Chained(d) => Quantified(scopes[d].cells, scopes[d].names))

(* What is known of equalities, and the types that projections stand for.  *)
EqualityOf(e) ==
  /\ OnParameter(e.args) /\ e.ty # << >> /\ e.ty[1] # "assoc"
  /\ IsProj(e.ty) => e.ty \in {<<"proj", tr, x>> : tr \in HasAssoc, x \in DOMAIN ParamIndex}

LEMMA EqualFacts ==
  ASSUME program \in Programs, NEW d \in DOMAIN program.items
  PROVE  IsFiniteSet(Equalities(d)) /\ \A e \in Equalities(d) : EqualityOf(e)
<1>1. ASSUME NEW q \in DOMAIN program.items PROVE IsFiniteSet(Item(q).eqs) /\ \A e \in Item(q).eqs : EqualityOf(e)
  <2>1. IsFiniteSet(Item(q).eqs)
    BY AssocAssumption DEF Item
  <2>2. \A e \in Item(q).eqs : EqualityOf(e)
    BY AssocAssumption DEF Item, EqualityOf
  <2> QED BY <2>1, <2>2
<1>2. HasParent(d) => Item(d).parent \in DOMAIN program.items
  BY ProgramsAssumption DEF HasParent, Item
<1>3. PICK up : up = IF HasParent(d) THEN Item(Item(d).parent).eqs ELSE {}
  OBVIOUS
<1>4. IsFiniteSet(up) /\ \A e \in up : EqualityOf(e)
  BY <1>1, <1>2, <1>3, FS_EmptySet
<1>5. Equalities(d) = Item(d).eqs \cup up
  BY <1>3 DEF Equalities
<1> QED BY <1>1, <1>4, <1>5, FS_Union

LEMMA PairAndOne ==
  ASSUME NEW w, NEW tr, NEW x
  PROVE  <<w, tr>> \o <<x>> = <<w, tr, x>>
<1>1. PICK S : S = {x, w, tr}
  OBVIOUS
<1>2. PICK u, v, l : u = <<w, tr>> /\ v = <<x>> /\ l = u \o v
  OBVIOUS
<1>3. u \in Seq(S) /\ v \in Seq(S) /\ Len(u) = 2 /\ Len(v) = 1 /\ u[1] = w /\ u[2] = tr /\ v[1] = x
  BY <1>1, <1>2
<1>4. l \in Seq(S) /\ Len(l) = 3
  BY <1>2, <1>3
<1>5. l[1] = u[1] /\ l[2] = u[2] /\ l[3] = v[1]
  BY <1>2, <1>3
<1>6. l = [i \in 1..3 |-> l[i]]
  BY <1>4
<1>7. l = <<w, tr, x>>
  BY <1>3, <1>5, <1>6
<1> QED BY <1>2, <1>7

LEMMA LiteralOf ==
  ASSUME NEW tr, NEW x
  PROVE  AssocLit(<<tr, <<<<x>>>>>>) = <<"assoc", tr, x>>
<1>1. PICK S, q : S = {x} /\ q = <<<<x>>>>
  OBVIOUS
<1>2. q \in Seq(Seq(S)) /\ Len(q) = 1 /\ q[1] = <<x>>
  BY <1>1
<1>3. PICK f : f = CHOOSE h : Flattens(q, h)
  OBVIOUS
<1>4. FlattenSeq(q) = f[1]
  BY ONLY <1>2, <1>3 DEF FlattenSeq, Flattens
<1>5. \E h : Flattens(q, h)
  BY <1>2, FlattenExists
<1>6. Flattens(q, f)
  BY <1>3, <1>5
<1>7. f[1] = <<x>>
  BY ONLY <1>2, <1>6 DEF Flattens
<1>8. AssocLit(<<tr, q>>) = <<"assoc", tr>> \o FlattenSeq(q)
  <2>1. <<tr, q>>[1] = tr /\ <<tr, q>>[2] = q
    OBVIOUS
  <2> QED BY ONLY <2>1 DEF AssocLit
<1>9. AssocLit(<<tr, q>>) = <<"assoc", tr, x>>
  BY <1>4, <1>7, <1>8, PairAndOne
<1> QED BY <1>1, <1>9

LEMMA Normalized ==
  ASSUME NEW ty, NEW env, IsFiniteSet(Equalities(env))
  PROVE  /\ normalize(ty, env) = ty \/ \E e \in Equalities(env) : normalize(ty, env) = e.ty
         /\ (\A e \in Equalities(env) : ~(IsProj(ty) /\ <<e.tr, e.args>> = ProjKey(ty))) => normalize(ty, env) = ty
<1> DEFINE E == Equalities(env)
           C == Cardinality(E)
           Kinds == {ty} \cup {e.ty : e \in E}
           eqs(t) == {e \in E : IsProj(t) /\ <<e.tr, e.args>> = ProjKey(t)}
           next(t) == IF eqs(t) = {} THEN t ELSE (CHOOSE e \in eqs(t) : TRUE).ty
           Sat(f) == f = [n \in 0..C |-> IF n = 0 THEN ty ELSE next(f[n - 1])]
           along == CHOOSE f : Sat(f)
           step == [t \in Kinds |-> next(t)]
<1>1. normalize(ty, env) = along[C]
  BY DEF normalize
<1>2. C \in Nat
  BY FS_CardinalityType
<1>3. \A t \in Kinds : next(t) \in Kinds
  OBVIOUS
<1>4. eqs(ty) = {} => next(ty) = ty
  OBVIOUS
<1>5. ty \in Kinds
  OBVIOUS
<1> HIDE DEF next, C, Kinds
<1>6. \E f : Sat(f)
  <2> HIDE DEF step
  <2>1. PICK f : Iterates(C, step, ty, f)
    BY <1>2, IterationExists
  <2>2. \A n \in 0..C : f[n] = IF n = 0 THEN ty ELSE step[f[n - 1]]
    BY <2>1 DEF Iterates
  <2> DEFINE T == {n \in 0..C : f[n] \in Kinds}
  <2>3. 0 \in T
    BY <1>2, <1>5, <2>2
  <2>4. ASSUME NEW n \in 0..(C - 1), n \in T PROVE n + 1 \in T
    <3>1. n + 1 \in 0..C /\ n + 1 # 0 /\ (n + 1) - 1 = n
      BY <1>2
    <3>2. f[n + 1] = step[f[n]] /\ f[n] \in Kinds
      BY <2>2, <2>4, <3>1
    <3>3. f[n + 1] \in Kinds
      BY <1>3, <3>2 DEF step
    <3> QED BY <3>1, <3>3
  <2>5. \A n \in 0..C : n \in T
    <3> HIDE DEF T
    <3> QED BY <1>2, <2>3, <2>4, RangeInduction
  <2>6. ASSUME NEW n \in 0..C PROVE f[n] = IF n = 0 THEN ty ELSE next(f[n - 1])
    <3>1. CASE n = 0
      BY <2>2, <3>1
    <3>2. CASE n # 0
      <4>1. n - 1 \in 0..C
        BY <1>2, <3>2
      <4>2. f[n - 1] \in Kinds
        BY <2>5, <4>1
      <4> QED BY <2>2, <3>2, <4>2 DEF step
    <3> QED BY <3>1, <3>2
  <2>7. f = [n \in 0..C |-> f[n]]
    BY <2>1 DEF Iterates
  <2>8. Sat(f)
    BY <2>6, <2>7
  <2> HIDE DEF Sat
  <2> QED BY <2>8
<1>7. Sat(along)
  <2> HIDE DEF Sat
  <2> QED BY <1>6
<1> HIDE DEF along
<1> DEFINE T == {n \in 0..C : along[n] \in Kinds /\ (eqs(ty) = {} => along[n] = ty)}
<1> HIDE DEF eqs
<1>8. 0 \in T
  BY <1>2, <1>5, <1>7
<1>9. ASSUME NEW n \in 0..(C - 1), n \in T PROVE n + 1 \in T
  <2>1. n + 1 \in 0..C /\ n + 1 # 0 /\ (n + 1) - 1 = n
    BY <1>2
  <2>2. along[n + 1] = next(along[n])
    BY <1>7, <2>1
  <2> QED BY <1>3, <1>4, <1>9, <2>1, <2>2
<1>10. \A n \in 0..C : n \in T
  <2> HIDE DEF T
  <2> QED BY <1>2, <1>8, <1>9, RangeInduction
<1>11. along[C] \in Kinds /\ (eqs(ty) = {} => along[C] = ty)
  BY <1>2, <1>10
<1> QED BY <1>1, <1>11 DEF Kinds, eqs

(* A type is no associated type that is determined.                        *)
LEMMA ConstrainedKeys ==
  ASSUME program \in Programs, NEW d \in DOMAIN program.items, NEW cs, Constrained(d, cs),
         NEW k \in DOMAIN cs, cs[k].constr # << >>
  PROVE  /\ Equated(d, k)
         /\ \E tr : \E x \in DOMAIN ParamIndex : k = <<tr, <<<<x>>>>>> /\ AssocLit(k) = <<"assoc", tr, x>>
<1>1. PICK e \in Equalities(d) : <<e.tr, e.args>> = k
  BY DEF Constrained, Equated
<1>2. PICK x \in DOMAIN ParamIndex : e.args = <<<<x>>>>
  BY <1>1, EqualFacts DEF EqualityOf, OnParameter
<1>3. PICK tr : tr = e.tr
  OBVIOUS
<1>4. k = <<tr, <<<<x>>>>>>
  BY <1>1, <1>2, <1>3
<1>5. AssocLit(k) = <<"assoc", tr, x>>
  BY <1>4, LiteralOf
<1> QED BY <1>1, <1>4, <1>5 DEF Equated

LEMMA TypeFree ==
  ASSUME program \in Programs, NEW d \in DOMAIN program.items, NEW cs, Constrained(d, cs),
         NEW v, v = << >> \/ v[1] # "assoc"
  PROVE  FreeOf(cs, v)
<1> SUFFICES ASSUME NEW k \in DOMAIN cs, cs[k].constr # << >> PROVE v # AssocLit(k)
  BY DEF FreeOf
<1>1. PICK tr : \E x \in DOMAIN ParamIndex : k = <<tr, <<<<x>>>>>> /\ AssocLit(k) = <<"assoc", tr, x>>
  BY ConstrainedKeys
<1>2. PICK x : AssocLit(k) = <<"assoc", tr, x>>
  BY <1>1
<1>3. <<"assoc", tr, x>>[1] = "assoc" /\ <<"assoc", tr, x>> # << >>
  OBVIOUS
<1> QED BY <1>2, <1>3

LEMMA LiteralFree ==
  ASSUME program \in Programs, NEW d \in DOMAIN program.items, NEW cs, Constrained(d, cs),
         NEW key, NEW tr, NEW x, key = <<tr, <<<<x>>>>>>, cs[key].constr = << >>
  PROVE  FreeOf(cs, AssocLit(key))
<1> SUFFICES ASSUME NEW k \in DOMAIN cs, cs[k].constr # << >>, AssocLit(key) = AssocLit(k) PROVE FALSE
  BY DEF FreeOf
<1>1. PICK q : \E y \in DOMAIN ParamIndex : k = <<q, <<<<y>>>>>> /\ AssocLit(k) = <<"assoc", q, y>>
  BY ConstrainedKeys
<1>2. PICK y : k = <<q, <<<<y>>>>>> /\ AssocLit(k) = <<"assoc", q, y>>
  BY <1>1
<1>3. <<"assoc", tr, x>> = <<"assoc", q, y>>
  BY <1>2, LiteralOf
<1>4. tr = q /\ x = y
  BY <1>3
<1> QED BY <1>2, <1>4

LEMMA UseFree ==
  ASSUME program \in Programs, NEW d \in DOMAIN program.items, NEW cs, Constrained(d, cs),
         NEW key \in DOMAIN cs, NEW tr, NEW x, key = <<tr, <<<<x>>>>>>, FreeOf(cs, cs[key].constr)
  PROVE  FreeOf(cs, make_assoc_type_use(cs[key], key))
<1>1. CASE cs[key].constr # << >>
  BY <1>1 DEF make_assoc_type_use
<1>2. CASE cs[key].constr = << >>
  BY <1>2, LiteralFree DEF make_assoc_type_use
<1> QED BY <1>1, <1>2

(* What is resolved once all constraints are there.                        *)
KeysIn(d, cs) ==
  \A b \in ToSet(caller_bounds(d)) : b.tr \notin Builtin => generate_args_inst_key(b) \in DOMAIN cs

LEMMA ResolvedFree ==
  ASSUME program \in Programs, NEW d \in DOMAIN program.items, NEW cs, Constrained(d, cs), KeysIn(d, cs),
         \A k \in DOMAIN cs : FreeOf(cs, cs[k].constr),
         NEW req, NEW inst, NEW v \in ToSet(resolve_trait_requirement(req, inst, d, cs).assoc)
  PROVE  FreeOf(cs, v)
<1> DEFINE key == SubstKey(req.key, inst)
           assoc == IF ~InEnv(key, d) THEN <<"Int">> ELSE translate_type(Proj(key), d, cs)
<1>1. key[1] \in HasAssoc /\ v = assoc
  <2>1. resolve_trait_requirement(req, inst, d, cs).assoc =
          IF key[1] \in HasAssoc /\ req.constr = << >> THEN <<assoc>> ELSE << >>
    BY DEF resolve_trait_requirement
  <2> HIDE DEF key, assoc
  <2>2. ToSet(<<assoc>>) = {assoc} /\ ToSet(<< >>) = {}
    BY DEF ToSet
  <2> QED BY <2>1, <2>2
<1> HIDE DEF key
<1>2. CASE ~InEnv(key, d)
  <2>1. v = <<"Int">>
    BY <1>1, <1>2
  <2> QED BY <2>1, TypeFree
<1>3. CASE InEnv(key, d)
  <2>1. PICK b \in ToSet(caller_bounds(d)) : generate_args_inst_key(b) = key
    BY <1>3, BoundsProper, ListFacts DEF InEnv
  <2>2. key = <<b.tr, b.args>> /\ b.tr = key[1]
    BY <2>1 DEF generate_args_inst_key
  <2>3. b.tr \in HasAssoc /\ b.tr \notin Builtin
    BY <1>1, <2>2, AssocAssumption
  <2>4. PICK x \in DOMAIN ParamIndex : b.args = <<<<x>>>>
    BY <2>3, BoundsProper DEF Proper, OnParameter
  <2>5. PICK tr : tr = b.tr
    OBVIOUS
  <2>6. key = <<tr, <<<<x>>>>>> /\ key \in DOMAIN cs
    BY <2>1, <2>2, <2>3, <2>4, <2>5 DEF KeysIn
  <2>7. Proj(key) = <<"proj", tr, x>>
    <3>1. key[1] = tr /\ key[2] = <<<<x>>>> /\ key[2][1] = <<x>>
      BY <2>6
    <3>2. <<"proj", tr>> \o <<x>> = <<"proj", tr, x>>
      BY PairAndOne
    <3> QED BY <3>1, <3>2 DEF Proj
  <2>8. PICK ty : ty = <<"proj", tr, x>>
    OBVIOUS
  <2>9. IsProj(ty) /\ ProjKey(ty) = key
    BY <2>6, <2>8 DEF IsProj, ProjKey
  <2>10. PICK n : n = normalize(ty, d)
    OBVIOUS
  <2>11. n = ty \/ \E e \in Equalities(d) : n = e.ty
    BY <2>10, EqualFacts, Normalized
  <2>12. v = IF ~IsProj(n) THEN n ELSE make_assoc_type_use(cs[key], key)
    BY <1>1, <1>3, <2>7, <2>8, <2>9, <2>10 DEF translate_type
  <2>13. CASE IsProj(n)
    BY <2>6, <2>12, <2>13, UseFree
  <2>14. CASE ~IsProj(n)
    <3>1. PICK e \in Equalities(d) : v = e.ty
      BY <2>9, <2>11, <2>12, <2>14
    <3>2. v[1] # "assoc"
      BY <3>1, EqualFacts DEF EqualityOf
    <3> QED BY <3>2, TypeFree
  <2> QED BY <2>13, <2>14
<1> QED BY <1>2, <1>3

LEMMA ResolvedLists ==
  ASSUME program \in Programs, NEW d \in DOMAIN program.items, NEW cs, Constrained(d, cs), KeysIn(d, cs),
         \A k \in DOMAIN cs : FreeOf(cs, cs[k].constr),
         NEW e, NEW rs, IsList(rs), NEW inst
  PROVE  ListsFree(cs, resolve_trait_requirements(e, rs, inst, FALSE, d, cs))
<1> DEFINE at(direct) == {i \in DOMAIN rs : ~Skipped(e, rs[i], inst, FALSE) /\ (rs[i].origin = "Direct") = direct}
           passed(direct) == Chosen(rs, at(direct))
           part(direct) == [i \in DOMAIN passed(direct) |-> resolve_trait_requirement(passed(direct)[i], inst, d, cs)]
           Free(r) == \A v \in ToSet(r.assoc) : FreeOf(cs, v)
<1>1. resolve_trait_requirements(e, rs, inst, FALSE, d, cs) = part(FALSE) \o part(TRUE)
  BY DEF resolve_trait_requirements
<1>2. ASSUME NEW direct PROVE \E B : part(direct) \in Seq(B) /\ \A r \in B : Free(r)
  <2>1. at(direct) \subseteq DOMAIN rs /\ IsFiniteSet(DOMAIN rs)
    BY ListFacts
  <2>2. IsFiniteSet(at(direct))
    <3> HIDE DEF at
    <3> QED BY <2>1, FS_Subset
  <2>3. PICK n : n = Cardinality(at(direct))
    OBVIOUS
  <2>4. n \in Nat
    <3> HIDE DEF at
    <3> QED BY <2>2, <2>3, FS_CardinalityType
  <2>5. DOMAIN passed(direct) = 1..n
    <3> HIDE DEF at
    <3> QED BY <2>3 DEF Chosen
  <2> HIDE DEF passed
  <2>6. PICK l : l = part(direct)
    OBVIOUS
  <2>7. DOMAIN l = 1..n /\ \A i \in 1..n : l[i] = resolve_trait_requirement(passed(direct)[i], inst, d, cs)
    BY <2>5, <2>6
  <2>8. \A i \in 1..n : Free(l[i])
    BY <2>7, ResolvedFree
  <2> HIDE DEF part, Free
  <2>9. PICK B : B = {l[i] : i \in 1..n}
    OBVIOUS
  <2>10. l = [i \in 1..n |-> l[i]]
    BY <2>6, <2>7 DEF part
  <2>11. l \in [1..n -> B]
    BY <2>9, <2>10
  <2>12. l \in Seq(B)
    BY <2>4, <2>11
  <2> QED BY <2>6, <2>8, <2>9, <2>12
<1>3. PICK B1 : part(FALSE) \in Seq(B1) /\ \A r \in B1 : Free(r)
  BY <1>2
<1>4. PICK B2 : part(TRUE) \in Seq(B2) /\ \A r \in B2 : Free(r)
  BY <1>2
<1>5. PICK l1, l2 : l1 = part(FALSE) /\ l2 = part(TRUE)
  OBVIOUS
<1> HIDE DEF part, Free
<1>6. PICK B : B = B1 \cup B2
  OBVIOUS
<1>7. l1 \in Seq(B) /\ l2 \in Seq(B)
  BY <1>3, <1>4, <1>5, <1>6, SeqWithin
<1>8. PICK l : l = l1 \o l2
  OBVIOUS
<1>9. l \in Seq(B)
  BY <1>7, <1>8, Joined
<1>10. \A i \in DOMAIN l : l[i] \in B
  BY <1>9, SeqIsList, ListFacts
<1>11. \A i \in DOMAIN l : Free(l[i])
  BY <1>3, <1>4, <1>6, <1>10
<1>12. resolve_trait_requirements(e, rs, inst, FALSE, d, cs) = l
  BY <1>1, <1>5, <1>8
<1> QED BY <1>11, <1>12 DEF ListsFree, Free

(* The last constraint is found before anything is resolved.               *)
LEMMA KeysThere ==
  ASSUME NEW d, NEW rs, OrderOf(d, rs), NEW cs, \A r \in ToSet(rs) : r.key \in DOMAIN cs
  PROVE  KeysIn(d, cs)
BY DEF OrderOf, KeysIn

LEMMA UndeterminedFree ==
  ASSUME NEW d, NEW cs, Constrained(d, cs), NEW v, Undetermined(d, v)
  PROVE  FreeOf(cs, v)
BY DEF Constrained, Equated, Undetermined, FreeOf

LEMMA TypeUndetermined ==
  ASSUME program \in Programs, NEW d \in DOMAIN program.items, NEW v, v[1] # "assoc"
  PROVE  Undetermined(d, v)
<1> SUFFICES ASSUME NEW e \in Equalities(d) PROVE v # AssocLit(<<e.tr, e.args>>)
  BY DEF Undetermined
<1>1. PICK x \in DOMAIN ParamIndex : e.args = <<<<x>>>>
  BY EqualFacts DEF EqualityOf, OnParameter
<1>2. PICK tr : tr = e.tr
  OBVIOUS
<1>3. AssocLit(<<e.tr, e.args>>) = <<"assoc", tr, x>>
  BY <1>1, <1>2, LiteralOf
<1>4. <<"assoc", tr, x>>[1] = "assoc"
  OBVIOUS
<1> QED BY <1>3, <1>4

(* A constraint is translated to a type that no equality is for.           *)
LEMMA ConstraintOf ==
  ASSUME program \in Programs, NEW d \in DOMAIN program.items, ~Chained(d), NEW cs, Constrained(d, cs),
         NEW e \in Equalities(d), ~ReadsEmpty(e.ty, d, cs)
  PROVE  Undetermined(d, translate_type(e.ty, d, cs))
<1>1. EqualityOf(e) /\ IsFiniteSet(Equalities(d))
  BY EqualFacts
<1>2. PICK ty, v : ty = e.ty /\ v = translate_type(e.ty, d, cs)
  OBVIOUS
<1>3. CASE ~IsProj(ty)
  <2>1. v = ty
    BY <1>2, <1>3 DEF translate_type
  <2> QED BY <1>1, <1>2, <2>1, TypeUndetermined DEF EqualityOf
<1>4. CASE IsProj(ty)
  <2>1. \A f \in Equalities(d) : ~(IsProj(ty) /\ <<f.tr, f.args>> = ProjKey(ty))
    BY <1>2, <1>4 DEF Chained
  <2>2. normalize(ty, d) = ty
    BY <1>1, <2>1, Normalized
  <2>3. PICK key : key = ProjKey(ty)
    OBVIOUS
  <2>4. v = make_assoc_type_use(cs[key], key)
    BY <1>2, <1>4, <2>2, <2>3 DEF translate_type
  <2>5. key \in DOMAIN cs
    BY <1>2, <1>4, <2>2, <2>3 DEF ReadsEmpty
  <2>6. cs[key].constr = << >>
    BY <1>4, <2>1, <2>3, <2>5 DEF Constrained, Equated
  <2>7. v = AssocLit(key)
    BY <2>4, <2>6 DEF make_assoc_type_use
  <2>8. PICK tr, x : ty = <<"proj", tr, x>>
    BY <1>1, <1>2, <1>4 DEF EqualityOf
  <2>9. key = <<tr, <<<<x>>>>>>
    BY <2>3, <2>8 DEF ProjKey
  <2>10. v = <<"assoc", tr, x>>
    BY <2>7, <2>9, LiteralOf
  <2>11. ASSUME NEW f \in Equalities(d), v = AssocLit(<<f.tr, f.args>>) PROVE FALSE
    <3>1. PICK y \in DOMAIN ParamIndex : f.args = <<<<y>>>>
      BY EqualFacts DEF EqualityOf, OnParameter
    <3>2. PICK q : q = f.tr
      OBVIOUS
    <3>3. v = <<"assoc", q, y>>
      BY <2>11, <3>1, <3>2, LiteralOf
    <3>4. tr = q /\ x = y
      BY <2>10, <3>3
    <3>5. <<f.tr, f.args>> = key
      BY <2>9, <3>1, <3>2, <3>4
    <3> QED BY <1>4, <2>1, <2>3, <3>5
  <2> QED BY <1>2, <2>11 DEF Undetermined
<1> QED BY <1>2, <1>3, <1>4

(* From the constraints to what is resolved.                               *)
LEMMA ConstraintsSeen ==
  ASSUME program \in Programs, NEW d \in DOMAIN program.items, ~Chained(d),
         NEW rs, NEW cs, NEW ns, QuantPass("constrain", d, rs, cs, ns)
  PROVE  Quantified(cs, ns)
<1>1. /\ Constrained(d, cs) /\ DOMAIN ns.tys = {} /\ \A k \in DOMAIN cs : cs[k].reqs = << >>
  BY DEF QuantPass
<1>2. ASSUME NEW k \in DOMAIN cs PROVE FreeOf(cs, cs[k].constr)
  <2>1. CASE cs[k].constr = << >>
    BY <1>1, <2>1, TypeFree
  <2>2. CASE cs[k].constr # << >>
    <3>1. Undetermined(d, cs[k].constr)
      BY <1>1, <2>2 DEF Constrained
    <3> QED BY <1>1, <3>1, UndeterminedFree
  <2> QED BY <2>1, <2>2
<1>3. ListsFree(cs, << >>)
  BY DEF ListsFree
<1> QED BY <1>1, <1>2, <1>3 DEF Quantified

(* The constraints decide what is quantified.                              *)
SameConstraints(cs, cs2) == DOMAIN cs2 = DOMAIN cs /\ \A k \in DOMAIN cs : cs2[k].constr = cs[k].constr

LEMMA FreeSame ==
  ASSUME NEW cs, NEW cs2, SameConstraints(cs, cs2)
  PROVE  /\ \A v : FreeOf(cs2, v) <=> FreeOf(cs, v)
         /\ \A rs : ListsFree(cs2, rs) <=> ListsFree(cs, rs)
         /\ \A d : Constrained(d, cs) => Constrained(d, cs2)
<1>1. \A v : FreeOf(cs2, v) <=> FreeOf(cs, v)
  BY DEF FreeOf, SameConstraints
<1>2. \A rs : ListsFree(cs2, rs) <=> ListsFree(cs, rs)
  BY <1>1 DEF ListsFree
<1>3. \A d : Constrained(d, cs) => Constrained(d, cs2)
  BY DEF Constrained, SameConstraints
<1> QED BY <1>1, <1>2, <1>3

LEMMA QuantifiedSame ==
  ASSUME NEW cs, NEW cs2, SameConstraints(cs, cs2), NEW ns, Quantified(cs, ns),
         \A k \in DOMAIN cs : cs2[k].reqs = cs[k].reqs \/ ListsFree(cs, cs2[k].reqs)
  PROVE  Quantified(cs2, ns)
<1>1. ASSUME NEW k \in DOMAIN cs2 PROVE FreeOf(cs2, cs2[k].constr) /\ ListsFree(cs2, cs2[k].reqs)
  <2>1. k \in DOMAIN cs /\ cs2[k].constr = cs[k].constr
    BY DEF SameConstraints
  <2>2. FreeOf(cs, cs[k].constr) /\ ListsFree(cs, cs[k].reqs)
    BY <2>1 DEF Quantified
  <2>3. ListsFree(cs, cs2[k].reqs)
    BY <2>1, <2>2
  <2> QED BY <2>1, <2>2, <2>3, FreeSame
<1>2. \A p \in DOMAIN ns.tys : FreeOf(cs2, ns.tys[p])
  BY FreeSame DEF Quantified
<1> QED BY <1>1, <1>2 DEF Quantified

(* Each pass.                                                              *)
LEMMA QuantPreregister ==
  ASSUME NEW d, NEW rs, NEW cs, NEW ns, QuantPass("preregister", d, rs, cs, ns),
         NEW key, NEW self, NEW cs2, DOMAIN cs2 = DOMAIN cs \cup {key},
         \A k \in DOMAIN cs2 : cs2[k] = IF k = key THEN [Empty EXCEPT !.self_use = self] ELSE cs[k]
  PROVE  QuantPass("preregister", d, rs, cs2, ns)
<1>1. PICK c : c = [Empty EXCEPT !.self_use = self]
  OBVIOUS
<1>2. DOMAIN c = CellFields /\ c.constr = << >> /\ c.reqs = << >>
  BY <1>1 DEF Empty, CellFields
<1>3. OrderOf(d, rs) /\ FieldsIn(cs) /\ DOMAIN ns.tys = {} /\ \A k \in DOMAIN cs : cs[k].constr = << >> /\ cs[k].reqs = << >>
  BY DEF QuantPass
<1>4. \A k \in DOMAIN cs2 : cs2[k] = c \/ (k \in DOMAIN cs /\ cs2[k] = cs[k])
  BY <1>1
<1>5. FieldsIn(cs2) /\ \A k \in DOMAIN cs2 : cs2[k].constr = << >> /\ cs2[k].reqs = << >>
  BY <1>2, <1>3, <1>4 DEF FieldsIn
<1> QED BY <1>3, <1>5 DEF QuantPass

LEMMA QuantFill ==
  ASSUME NEW d, NEW rs, NEW cs, NEW ns, QuantPass("fill", d, rs, cs, ns),
         NEW key, NEW origin, NEW inself, NEW cs2,
         cs2 = [cs EXCEPT ![key] = [@ EXCEPT !.state = "filled", !.origin = origin,
                                             !.is_used_in_self_trait = inself, !.constr = << >>]]
  PROVE  QuantPass("fill", d, rs, cs2, ns)
<1>1. OrderOf(d, rs) /\ FieldsIn(cs) /\ DOMAIN ns.tys = {} /\ \A k \in DOMAIN cs : cs[k].constr = << >> /\ cs[k].reqs = << >>
  BY DEF QuantPass
<1>2. DOMAIN cs2 = DOMAIN cs /\ \A k \in DOMAIN cs : k # key => cs2[k] = cs[k]
  OBVIOUS
<1>3. ASSUME key \in DOMAIN cs PROVE DOMAIN cs2[key] = CellFields /\ cs2[key].constr = << >> /\ cs2[key].reqs = << >>
  <2>1. PICK c, c2 : c = cs[key] /\ c2 = cs2[key]
    OBVIOUS
  <2>2. c2 = [c EXCEPT !.state = "filled", !.origin = origin, !.is_used_in_self_trait = inself, !.constr = << >>]
    BY <1>3, <2>1
  <2>3. DOMAIN c = CellFields /\ c.reqs = << >>
    BY <1>1, <1>3, <2>1 DEF FieldsIn
  <2>4. DOMAIN c2 = CellFields /\ c2.constr = << >> /\ c2.reqs = << >>
    BY <2>2, <2>3 DEF CellFields
  <2> QED BY <2>1, <2>4
<1>4. FieldsIn(cs2) /\ \A k \in DOMAIN cs2 : cs2[k].constr = << >> /\ cs2[k].reqs = << >>
  BY <1>1, <1>2, <1>3 DEF FieldsIn
<1> QED BY <1>1, <1>4 DEF QuantPass

LEMMA QuantConstrain ==
  ASSUME program \in Programs, NEW d \in DOMAIN program.items, NEW rs, NEW cs, NEW ns,
         QuantPass("constrain", d, rs, cs, ns), NEW r \in ToSet(rs),
         r.constr = << >> \/ ~ReadsEmpty(r.constr, d, cs),
         NEW v, v = IF r.constr = << >> THEN << >> ELSE translate_type(r.constr, d, cs),
         NEW cs2, cs2 = [cs EXCEPT ![r.key].constr = v]
  PROVE  QuantPass("constrain", d, rs, cs2, ns)
<1>1. /\ OrderOf(d, rs) /\ FieldsIn(cs) /\ DOMAIN ns.tys = {} /\ Constrained(d, cs)
      /\ \A k \in DOMAIN cs : cs[k].reqs = << >>
  BY DEF QuantPass
<1>2. PICK key : key = r.key
  OBVIOUS
<1>3. DOMAIN cs2 = DOMAIN cs /\ \A k \in DOMAIN cs : k # key => cs2[k] = cs[k]
  BY <1>2
<1>4. ASSUME key \in DOMAIN cs PROVE DOMAIN cs2[key] = CellFields /\ cs2[key].constr = v /\ cs2[key].reqs = << >>
  <2>1. PICK c, c2 : c = cs[key] /\ c2 = cs2[key]
    OBVIOUS
  <2>2. c2 = [c EXCEPT !.constr = v]
    BY <1>2, <1>4, <2>1
  <2>3. DOMAIN c = CellFields /\ c.reqs = << >>
    BY <1>1, <1>4, <2>1 DEF FieldsIn
  <2>4. DOMAIN c2 = CellFields /\ c2.constr = v /\ c2.reqs = << >>
    BY <2>2, <2>3 DEF CellFields
  <2> QED BY <2>1, <2>4
<1>5. v # << >> => Equated(d, key) /\ (~Chained(d) => Undetermined(d, v))
  <2> SUFFICES ASSUME v # << >> PROVE Equated(d, key) /\ (~Chained(d) => Undetermined(d, v))
    OBVIOUS
  <2>1. r.constr # << >> /\ v = translate_type(r.constr, d, cs) /\ ~ReadsEmpty(r.constr, d, cs)
    OBVIOUS
  <2>2. PICK e \in Equalities(d) : <<e.tr, e.args>> = key /\ e.ty = r.constr
    BY <1>1, <1>2, <2>1 DEF OrderOf
  <2>3. PICK t : t = e.ty
    OBVIOUS
  <2>4. v = translate_type(t, d, cs) /\ ~ReadsEmpty(t, d, cs)
    BY <2>1, <2>2, <2>3
  <2>5. ~Chained(d) => Undetermined(d, v)
    BY <1>1, <2>3, <2>4, ConstraintOf
  <2> QED BY <2>2, <2>5 DEF Equated
<1>6. FieldsIn(cs2) /\ \A k \in DOMAIN cs2 : cs2[k].reqs = << >>
  BY <1>1, <1>3, <1>4 DEF FieldsIn
<1>7. Constrained(d, cs2)
  BY <1>1, <1>3, <1>4, <1>5 DEF Constrained
<1> QED BY <1>1, <1>6, <1>7 DEF QuantPass

LEMMA QuantFinalize ==
  ASSUME program \in Programs, NEW d \in DOMAIN program.items, NEW rs, NEW cs, NEW ns,
         QuantPass("finalize", d, rs, cs, ns), \A r \in ToSet(rs) : r.key \in DOMAIN cs,
         NEW key, NEW tys, NEW e, NEW order, IsList(order), NEW inst,
         NEW new, new = resolve_trait_requirements(e, order, inst, FALSE, d, cs),
         NEW cs2, cs2 = [cs EXCEPT ![key] = [@ EXCEPT !.state = "final", !.tys = tys, !.reqs = new]]
  PROVE  QuantPass("finalize", d, rs, cs2, ns)
<1>1. /\ OrderOf(d, rs) /\ FieldsIn(cs) /\ DOMAIN ns.tys = {} /\ Constrained(d, cs)
      /\ ~Chained(d) => Quantified(cs, ns)
  BY DEF QuantPass
<1>2. DOMAIN cs2 = DOMAIN cs /\ \A k \in DOMAIN cs : k # key => cs2[k] = cs[k]
  OBVIOUS
<1>3. ASSUME key \in DOMAIN cs
      PROVE  DOMAIN cs2[key] = CellFields /\ cs2[key].constr = cs[key].constr /\ cs2[key].reqs = new
  <2>1. PICK c, c2 : c = cs[key] /\ c2 = cs2[key]
    OBVIOUS
  <2>2. c2 = [c EXCEPT !.state = "final", !.tys = tys, !.reqs = new]
    BY <1>3, <2>1
  <2>3. DOMAIN c = CellFields
    BY <1>1, <1>3, <2>1 DEF FieldsIn
  <2>4. DOMAIN c2 = CellFields /\ c2.constr = c.constr /\ c2.reqs = new
    BY <2>2, <2>3 DEF CellFields
  <2> QED BY <2>1, <2>4
<1>4. FieldsIn(cs2) /\ SameConstraints(cs, cs2)
  BY <1>1, <1>2, <1>3 DEF FieldsIn, SameConstraints
<1>5. Constrained(d, cs2)
  BY <1>1, <1>4, FreeSame
<1>6. ASSUME ~Chained(d) PROVE Quantified(cs2, ns)
  <2>1. \A k \in DOMAIN cs : FreeOf(cs, cs[k].constr)
    BY <1>1, <1>6 DEF Quantified
  <2>2. KeysIn(d, cs)
    BY <1>1, KeysThere
  <2>3. ListsFree(cs, new)
    BY <1>1, <2>1, <2>2, ResolvedLists
  <2>4. \A k \in DOMAIN cs : cs2[k].reqs = cs[k].reqs \/ ListsFree(cs, cs2[k].reqs)
    BY <1>2, <1>3, <2>3
  <2> QED BY <1>1, <1>4, <1>6, <2>4, QuantifiedSame
<1> QED BY <1>1, <1>4, <1>5, <1>6 DEF QuantPass

LEMMA QuantName ==
  ASSUME program \in Programs, NEW d \in DOMAIN program.items, NEW rs, NEW cs, NEW ns,
         QuantPass("name", d, rs, cs, ns), NEW r \in ToSet(rs), r.key \in DOMAIN cs,
         NEW u, u = make_assoc_type_use(cs[r.key], r.key), NEW ns2,
         \/ ns2.tys = ns.tys
         \/ /\ r.key[1] \in HasAssoc
            /\ \E item : /\ DOMAIN ns2.tys = DOMAIN ns.tys \cup {item} /\ ns2.tys[item] = u
                        /\ \A p \in DOMAIN ns.tys : p # item => ns2.tys[p] = ns.tys[p]
  PROVE  QuantPass("name", d, rs, cs, ns2)
<1>1. /\ OrderOf(d, rs) /\ FieldsIn(cs) /\ Constrained(d, cs)
      /\ ~Chained(d) => Quantified(cs, ns)
  BY DEF QuantPass
<1>2. ASSUME ~Chained(d) PROVE Quantified(cs, ns2)
  <2>1. Quantified(cs, ns)
    BY <1>1, <1>2
  <2>2. CASE ns2.tys = ns.tys
    BY <2>1, <2>2 DEF Quantified
  <2>3. CASE ns2.tys # ns.tys
    <3>1. PICK key : key = r.key
      OBVIOUS
    <3>2. PICK item : /\ DOMAIN ns2.tys = DOMAIN ns.tys \cup {item} /\ ns2.tys[item] = u
                      /\ \A p \in DOMAIN ns.tys : p # item => ns2.tys[p] = ns.tys[p]
      BY <2>3
    <3>3. key[1] \in HasAssoc /\ key \in DOMAIN cs
      BY <2>3, <3>1
    <3>4. PICK b \in ToSet(caller_bounds(d)) : key = <<b.tr, b.args>>
      BY <1>1, <3>1 DEF OrderOf, generate_args_inst_key
    <3>5. b.tr \in HasAssoc
      BY <3>3, <3>4
    <3>6. PICK x \in DOMAIN ParamIndex : b.args = <<<<x>>>>
      BY <3>5, BoundsProper DEF Proper, OnParameter
    <3>7. PICK tr : tr = b.tr
      OBVIOUS
    <3>8. key = <<tr, <<<<x>>>>>>
      BY <3>4, <3>6, <3>7
    <3>9. FreeOf(cs, cs[key].constr)
      BY <2>1, <3>3 DEF Quantified
    <3>10. u = make_assoc_type_use(cs[key], key)
      BY <3>1
    <3>11. FreeOf(cs, u)
      BY <1>1, <3>3, <3>8, <3>9, <3>10, UseFree
    <3>12. \A p \in DOMAIN ns2.tys : ns2.tys[p] = u \/ (p \in DOMAIN ns.tys /\ ns2.tys[p] = ns.tys[p])
      BY <3>2
    <3> QED BY <2>1, <3>11, <3>12 DEF Quantified
  <2> QED BY <2>2, <2>3
<1>3. "name" \notin {"preregister", "fill", "constrain"}
  OBVIOUS
<1> QED BY <1>1, <1>2, <1>3 DEF QuantPass

(* The program never changes, and so neither does what is said of it.      *)
LEMMA SameProgram ==
  ASSUME UNCHANGED program
  PROVE  /\ \A d, rs : OrderOf(d, rs)' <=> OrderOf(d, rs)
         /\ \A d, cs : Constrained(d, cs)' <=> Constrained(d, cs)
         /\ \A d : Chained(d)' <=> Chained(d)
<1>1. ASSUME NEW d PROVE caller_bounds(d)' = caller_bounds(d) /\ Equalities(d)' = Equalities(d)
  BY DEF caller_bounds, Equalities, HasParent, Item, OwnBounds, SelfBound
<1>2. ASSUME NEW d PROVE Chained(d)' <=> Chained(d)
  BY <1>1 DEF Chained
<1>3. ASSUME NEW d, NEW rs PROVE OrderOf(d, rs)' <=> OrderOf(d, rs)
  BY <1>1 DEF OrderOf
<1>4. ASSUME NEW d, NEW k PROVE Equated(d, k)' <=> Equated(d, k)
  BY <1>1 DEF Equated
<1>5. ASSUME NEW d, NEW v PROVE Undetermined(d, v)' <=> Undetermined(d, v)
  BY <1>1 DEF Undetermined
<1>6. ASSUME NEW d, NEW cs PROVE Constrained(d, cs)' <=> Constrained(d, cs)
  BY <1>2, <1>4, <1>5 DEF Constrained
<1> QED BY <1>2, <1>3, <1>6

ScopesQuantified(ss) ==
  \A d \in DOMAIN ss : FieldsIn(ss[d].cells) /\ (~Chained(d) => Quantified(ss[d].cells, ss[d].names))

(* What holds of the passes, in one form for all steps.                    *)
LEMMA QuantKept ==
  ASSUME QuantInv, UNCHANGED <<program, orders>>,
         NEW p, NEW d, NEW rs, NEW cs, NEW ns, NEW ss,
         p = pass', d = did', rs = reqs', cs = cells', ns = names', ss = scopes',
         p = "collect" => DOMAIN ns.tys = {},
         p \in Passes => QuantPass(p, d, rs, cs, ns),
         ScopesQuantified(ss)
  PROVE  QuantInv'
<1>1. \A e \in DOMAIN program.items : \A order \in orders[e] : OrderOf(e, order)
  BY DEF QuantInv
<1>2. (\A e \in DOMAIN program.items : \A order \in orders[e] : OrderOf(e, order))'
  BY <1>1, SameProgram
<1>3. QuantPass(p, d, rs, cs, ns)' <=> QuantPass(p, d, rs, cs, ns)
  BY SameProgram DEF QuantPass
<1>4. p \in Passes => QuantPass(p, d, rs, cs, ns)'
  BY <1>3
<1>5. (pass \in Passes => QuantPass(pass, did, reqs, cells, names))'
  BY <1>4
<1>6. ScopesQuantified(ss)'
  BY SameProgram DEF ScopesQuantified
<1>7. ScopesQuantified(scopes)'
  BY <1>6
<1> QED BY <1>2, <1>5, <1>7 DEF QuantInv, ScopesQuantified, Passes

LEMMA QuantBuild ==
  ASSUME SigInv, QuantInv, BuildScope, UNCHANGED <<program, orders>>
  PROVE  QuantInv'
<1>1. program \in Programs /\ \A d \in DOMAIN program.items : \A order \in orders[d] : IsList(order) /\ OrderOf(d, order)
  BY DEF SigInv, Given, QuantInv
<1>2. pass # "none" => did \in DOMAIN program.items
  BY <1>1, ProgramsAssumption DEF SigInv, ScopeInv
<1>3. ScopesQuantified(scopes) /\ (pass \in Passes => QuantPass(pass, did, reqs, cells, names))
  BY DEF QuantInv, ScopesQuantified
<1>4. ASSUME NEW p, Visit(p), p \in Passes
      PROVE  /\ pass = p /\ did \in DOMAIN program.items /\ QuantPass(p, did, reqs, cells, names)
             /\ Head(todo) \in ToSet(reqs)
             /\ \A r \in ToSet(reqs) : r.key \in DOMAIN cells \/ p = "preregister"
  <2>1. pass = p /\ todo # << >> /\ p # "none"
    BY <1>4 DEF Visit, Passes
  <2>2. InPass(p, todo, reqs, cells, names)
    BY <1>4, <2>1 DEF SigInv, ScopeInv
  <2>3. Head(todo) \in ToSet(reqs)
    BY <2>1, <2>2, Popped DEF InPass, Lists
  <2>4. \A r \in ToSet(reqs) : r.key \in DOMAIN cells \/ p = "preregister"
    BY <2>2 DEF InPass, Visited
  <2> QED BY <1>2, <1>3, <1>4, <2>1, <2>3, <2>4
<1>5. ASSUME NEW p, NEW cs2, pass = p, p \in Passes, UNCHANGED <<pass, did, reqs, names, scopes>>, cs2 = cells',
             QuantPass(p, did, reqs, cs2, names)
      PROVE  QuantInv'
  BY <1>3, <1>5, QuantKept DEF Passes
<1>6. ASSUME UNCHANGED <<pass, did, reqs, cells, names, scopes>> PROVE QuantInv'
  BY <1>3, <1>6, QuantKept DEF QuantInv
<1>7. ASSUME NewFromGenerics PROVE QuantInv'
  <2>1. pass' = "collect" /\ UNCHANGED scopes /\ DOMAIN names'.tys = {}
    BY <1>7 DEF NewFromGenerics
  <2>2. "collect" \notin Passes
    BY DEF Passes
  <2> QED BY <1>3, <2>1, <2>2, QuantKept
<1>8. ASSUME CollectRequirements PROVE QuantInv'
  <2>1. /\ pass = "collect" /\ pass' = "preregister" /\ UNCHANGED <<did, cells, names, scopes>>
        /\ reqs' \in orders[did]
    BY <1>8 DEF CollectRequirements, get_trait_requirements_with_origin
  <2>2. PICK rs : rs = reqs'
    OBVIOUS
  <2>3. OrderOf(did, rs)
    BY <1>1, <1>2, <2>1, <2>2
  <2>4. DOMAIN cells = {} /\ DOMAIN names.tys = {}
    BY <2>1 DEF SigInv, ScopeInv, QuantInv
  <2>5. QuantPass("preregister", did, rs, cells, names)
    BY <2>3, <2>4 DEF QuantPass, FieldsIn
  <2> QED BY <1>3, <2>1, <2>2, <2>5, QuantKept
<1>9. ASSUME SortForever PROVE QuantInv'
  BY <1>6, <1>9 DEF SortForever
<1> DEFINE r == Head(todo)
<1>10. ASSUME PreRegister PROVE QuantInv'
  <2>1. Visit("preregister") /\ UNCHANGED <<did, pass, reqs, names, scopes>>
    BY <1>10 DEF PreRegister
  <2>2. PICK cs2, key, self : cs2 = cells' /\ key = r.key /\ self = r.is_self_in_trait_decl
    OBVIOUS
  <2>3. /\ DOMAIN cs2 = DOMAIN cells \cup {key}
        /\ \A k \in DOMAIN cs2 : cs2[k] = IF k = key THEN [Empty EXCEPT !.self_use = self] ELSE cells[k]
    BY <1>10, <2>2 DEF PreRegister
  <2>4. pass = "preregister" /\ "preregister" \in Passes /\ QuantPass("preregister", did, reqs, cells, names)
    BY <1>4, <2>1 DEF Passes
  <2>5. QuantPass("preregister", did, reqs, cs2, names)
    BY <2>3, <2>4, QuantPreregister
  <2> QED BY <1>5, <2>1, <2>2, <2>4, <2>5
<1>11. ASSUME fill_trait_use PROVE QuantInv'
  <2>1. Visit("fill") /\ UNCHANGED <<did, pass, reqs, names, scopes>>
    BY <1>11 DEF fill_trait_use
  <2>2. pass = "fill" /\ "fill" \in Passes /\ QuantPass("fill", did, reqs, cells, names)
    BY <1>4, <2>1 DEF Passes
  <2>3. CASE cells' = cells
    BY <1>6, <2>1, <2>3
  <2>4. CASE cells' # cells
    <3>1. PICK cs2 : cs2 = cells'
      OBVIOUS
    <3>2. cs2 = [cells EXCEPT ![r.key] =
                   [@ EXCEPT !.state = "filled", !.origin = r.origin,
                             !.is_used_in_self_trait = r.is_used_in_self_trait, !.constr = << >>]]
      BY <1>11, <2>4, <3>1 DEF fill_trait_use
    <3>3. QuantPass("fill", did, reqs, cs2, names)
      BY <2>2, <3>2, QuantFill
    <3> QED BY <1>5, <2>1, <2>2, <3>1, <3>3
  <2> QED BY <2>3, <2>4
<1>12. ASSUME ConstrainAssocTypes PROVE QuantInv'
  <2>1. Visit("constrain") /\ UNCHANGED <<did, pass, reqs, names, scopes>>
    BY <1>12 DEF ConstrainAssocTypes
  <2>2. /\ pass = "constrain" /\ "constrain" \in Passes /\ QuantPass("constrain", did, reqs, cells, names)
        /\ did \in DOMAIN program.items /\ r \in ToSet(reqs)
    BY <1>4, <2>1 DEF Passes
  <2>3. CASE cells' = cells
    BY <1>6, <2>1, <2>3
  <2>4. CASE cells' # cells
    <3>1. PICK cs2, v : cs2 = cells' /\ v = IF r.constr = << >> THEN << >> ELSE translate_type(r.constr, did, cells)
      OBVIOUS
    <3>2. ~(r.constr # << >> /\ ReadsEmpty(r.constr, did, cells)) /\ cs2 = [cells EXCEPT ![r.key].constr = v]
      BY <1>12, <2>4, <3>1 DEF ConstrainAssocTypes
    <3>3. PICK q : q = r
      OBVIOUS
    <3>4. /\ q \in ToSet(reqs) /\ (q.constr = << >> \/ ~ReadsEmpty(q.constr, did, cells))
          /\ v = IF q.constr = << >> THEN << >> ELSE translate_type(q.constr, did, cells)
          /\ cs2 = [cells EXCEPT ![q.key].constr = v]
      BY <2>2, <3>1, <3>2, <3>3
    <3>5. QuantPass("constrain", did, reqs, cs2, names)
      BY <1>1, <2>2, <3>4, QuantConstrain
    <3> QED BY <1>5, <2>1, <2>2, <3>1, <3>5
  <2> QED BY <2>3, <2>4
<1>13. ASSUME finalize_trait_use PROVE QuantInv'
  <2>1. Visit("finalize") /\ UNCHANGED <<did, pass, reqs, names, scopes>>
    BY <1>13 DEF finalize_trait_use
  <2>2. /\ pass = "finalize" /\ "finalize" \in Passes /\ QuantPass("finalize", did, reqs, cells, names)
        /\ did \in DOMAIN program.items /\ r \in ToSet(reqs) /\ \A q \in ToSet(reqs) : q.key \in DOMAIN cells
    BY <1>4, <2>1 DEF Passes
  <2>3. CASE cells' = cells
    BY <1>6, <2>1, <2>3
  <2>4. CASE cells' # cells
    <3>1. PICK cs2, inst : cs2 = cells' /\ inst = InstOf(r.key[1], r.key[2])
      OBVIOUS
    <3>2. PICK order \in orders[r.key[1]] :
            cs2 = [cells EXCEPT ![r.key] =
                     [@ EXCEPT !.state = "final", !.tys = r.key[2],
                               !.reqs = resolve_trait_requirements(r.key[1], order, inst, FALSE, did, cells)]]
      BY <1>13, <2>4, <3>1 DEF finalize_trait_use, get_trait_requirements_with_origin
    <3>3. PICK b \in ToSet(caller_bounds(did)) : r.key = <<b.tr, b.args>>
      BY <2>2 DEF QuantPass, OrderOf, generate_args_inst_key
    <3>4. r.key[1] \in DOMAIN program.items
      BY <1>1, <2>2, <3>3, BoundsProper DEF Proper
    <3>5. IsList(order)
      BY <1>1, <3>2, <3>4
    <3>6. PICK new : new = resolve_trait_requirements(r.key[1], order, inst, FALSE, did, cells)
      OBVIOUS
    <3>7. cs2 = [cells EXCEPT ![r.key] = [@ EXCEPT !.state = "final", !.tys = r.key[2], !.reqs = new]]
      BY <3>2, <3>6
    <3>8. QuantPass("finalize", did, reqs, cs2, names)
      BY <1>1, <2>2, <3>5, <3>6, <3>7, QuantFinalize
    <3> QED BY <1>5, <2>1, <2>2, <3>1, <3>8
  <2> QED BY <2>3, <2>4
<1>14. ASSUME PrecomputeNames PROVE QuantInv'
  <2>1. Visit("name") /\ UNCHANGED <<did, pass, reqs, cells, scopes>>
    BY <1>14 DEF PrecomputeNames
  <2>2. /\ pass = "name" /\ "name" \in Passes /\ QuantPass("name", did, reqs, cells, names)
        /\ did \in DOMAIN program.items /\ r \in ToSet(reqs) /\ r.key \in DOMAIN cells
    BY <1>4, <2>1 DEF Passes
  <2>3. PICK ns2 : ns2 = names'
    OBVIOUS
  <2>4. PICK q, w : q = r /\ w = make_assoc_type_use(cells[r.key], r.key)
    OBVIOUS
  <2>5. \/ ns2.tys = names.tys
        \/ /\ q.key[1] \in HasAssoc
           /\ \E item : /\ DOMAIN ns2.tys = DOMAIN names.tys \cup {item} /\ ns2.tys[item] = w
                       /\ \A p \in DOMAIN names.tys : p # item => ns2.tys[p] = names.tys[p]
    <3>1. CASE ns2.tys = names.tys
      BY <3>1
    <3>2. CASE ns2.tys # names.tys
      <4>1. /\ r.key[1] \in HasAssoc
            /\ names'.tys = [p \in DOMAIN names.tys \cup {<<r.key[2][1][1], "Item">>} |->
                               IF p = <<r.key[2][1][1], "Item">> THEN make_assoc_type_use(cells[r.key], r.key)
                               ELSE names.tys[p]]
        BY <1>14, <2>3, <3>2 DEF PrecomputeNames
      <4>2. PICK item : item = <<r.key[2][1][1], "Item">>
        OBVIOUS
      <4>3. /\ DOMAIN names'.tys = DOMAIN names.tys \cup {item}
            /\ names'.tys[item] = make_assoc_type_use(cells[r.key], r.key)
            /\ \A p \in DOMAIN names.tys : p # item => names'.tys[p] = names.tys[p]
        BY ONLY <4>1, <4>2
      <4> QED BY <2>3, <2>4, <4>1, <4>3
    <3> QED BY <3>1, <3>2
  <2>6. QuantPass("name", did, reqs, cells, ns2)
    <3>1. q \in ToSet(reqs) /\ q.key \in DOMAIN cells /\ w = make_assoc_type_use(cells[q.key], q.key)
      BY <2>2, <2>4
    <3> HIDE DEF r
    <3> QED BY <1>1, <2>2, <2>5, <3>1, QuantName
  <2> QED BY <1>3, <2>1, <2>2, <2>3, <2>6, QuantKept
<1>15. ASSUME PassDone PROVE QuantInv'
  <2>1. /\ pass \in Passes \ {"name"} /\ UNCHANGED <<did, reqs, cells, names, scopes>>
        /\ pass' = CASE pass = "preregister" -> "fill" [] pass = "fill" -> "constrain"
                     [] pass = "constrain" -> "finalize" [] pass = "finalize" -> "name"
    BY <1>15 DEF PassDone, NextPass, Passes
  <2>2. QuantPass(pass, did, reqs, cells, names) /\ did \in DOMAIN program.items
    BY <1>2, <1>3, <2>1 DEF Passes
  <2>3. PICK p : p = pass'
    OBVIOUS
  <2>4. QuantPass(p, did, reqs, cells, names) /\ p \in Passes
    <3>1. CASE pass = "preregister"
      <4>1. p = "fill"
        BY <2>1, <2>3, <3>1
      <4> QED BY <2>2, <3>1, <4>1 DEF QuantPass, Passes
    <3>2. CASE pass = "fill"
      <4>1. p = "constrain"
        BY <2>1, <2>3, <3>2
      <4> QED BY <2>2, <3>2, <4>1 DEF QuantPass, Passes, Constrained
    <3>3. CASE pass = "constrain"
      <4>1. p = "finalize"
        BY <2>1, <2>3, <3>3
      <4>2. ~Chained(did) => Quantified(cells, names)
        BY <1>1, <2>2, <3>3, ConstraintsSeen
      <4> QED BY <2>2, <3>3, <4>1, <4>2 DEF QuantPass, Passes
    <3>4. CASE pass = "finalize"
      <4>1. p = "name"
        BY <2>1, <2>3, <3>4
      <4> QED BY <2>2, <3>4, <4>1 DEF QuantPass, Passes
    <3> QED BY <2>1, <3>1, <3>2, <3>3, <3>4 DEF Passes
  <2>5. p # "collect"
    BY <2>4 DEF Passes
  <2> QED BY <1>3, <2>1, <2>3, <2>4, <2>5, QuantKept
<1>16. ASSUME IntoGenericScope PROVE QuantInv'
  <2>1. CASE SharedKey
    BY <1>6, <1>16, <2>1 DEF IntoGenericScope
  <2>2. CASE ~SharedKey
    <3>1. /\ pass = "name" /\ pass' = "none" /\ UNCHANGED <<reqs, cells, names>>
          /\ DOMAIN scopes' = DOMAIN scopes \cup {did}
          /\ \A d \in DOMAIN scopes' : scopes'[d] = IF d = did THEN GenericScope(did, reqs, cells, names) ELSE scopes[d]
      BY <1>16, <2>2 DEF IntoGenericScope
    <3>2. PICK ss, s : ss = scopes' /\ s = GenericScope(did, reqs, cells, names)
      OBVIOUS
    <3>3. s.cells = cells /\ s.names = names
      BY <3>2 DEF GenericScope
    <3>4. QuantPass("name", did, reqs, cells, names)
      BY <1>3, <3>1 DEF Passes
    <3>5. FieldsIn(s.cells) /\ (~Chained(did) => Quantified(s.cells, s.names))
      BY <3>3, <3>4 DEF QuantPass
    <3>6. DOMAIN ss = DOMAIN scopes \cup {did} /\ \A d \in DOMAIN ss : ss[d] = IF d = did THEN s ELSE scopes[d]
      BY <3>1, <3>2
    <3>7. ScopesQuantified(ss)
      BY <1>3, <3>5, <3>6 DEF ScopesQuantified
    <3>8. pass' \notin Passes \cup {"collect"}
      BY <3>1 DEF Passes
    <3> QED BY <3>2, <3>7, <3>8, QuantKept
  <2> QED BY <2>1, <2>2
<1> QED BY <1>7, <1>8, <1>9, <1>10, <1>11, <1>12, <1>13, <1>14, <1>15, <1>16 DEF BuildScope

(* The overrides are no constraints.                                       *)
LEMMA QuantAttach ==
  ASSUME SigInv, QuantInv, attach_trait_attr_requirement, UNCHANGED <<program, orders>>
  PROVE  QuantInv'
<1>1. /\ parsed = "attach" /\ AllScopes
      /\ UNCHANGED <<did, pass, todo, reqs, cells, names, status>>
      /\ scopes' = [scopes EXCEPT ![fn.did].cells =
                      [k \in DOMAIN @ |-> [@[k] EXCEPT !.overridden = k \in DOMAIN trait_specs]]]
  BY DEF attach_trait_attr_requirement, InSpec
<1>2. fn.did # ""
  BY <1>1 DEF SigInv, SpecInv
<1>3. fn.did \in DOMAIN scopes
  BY <1>1, <1>2, FnFacts DEF SigInv
<1>4. PICK d, s : d = fn.did /\ s = scopes[fn.did]
  OBVIOUS
<1>5. Complete(s) /\ FieldsIn(s.cells) /\ (~Chained(d) => Quantified(s.cells, s.names))
  BY <1>3, <1>4 DEF SigInv, ScopeInv, QuantInv
<1>6. PICK ss : ss = scopes'
  OBVIOUS
<1>7. PICK c : c = [k \in DOMAIN s.cells |-> [s.cells[k] EXCEPT !.overridden = k \in DOMAIN trait_specs]]
  OBVIOUS
<1>8. DOMAIN ss = DOMAIN scopes /\ (\A e \in DOMAIN ss : e # d => ss[e] = scopes[e]) /\ ss[d] = [s EXCEPT !.cells = c]
  BY <1>1, <1>3, <1>4, <1>6, <1>7
<1>9. ss[d].cells = c /\ ss[d].names = s.names
  BY <1>5, <1>8 DEF Complete
<1>10. ASSUME NEW k \in DOMAIN s.cells
       PROVE  DOMAIN c[k] = CellFields /\ c[k].constr = s.cells[k].constr /\ c[k].reqs = s.cells[k].reqs
  <2>1. DOMAIN s.cells[k] = CellFields
    BY <1>5 DEF FieldsIn
  <2>2. PICK u, w, o : u = s.cells[k] /\ w = c[k] /\ o = (k \in DOMAIN trait_specs)
    OBVIOUS
  <2>3. w = [u EXCEPT !.overridden = o]
    BY <1>7, <2>2
  <2>4. DOMAIN w = CellFields /\ w.constr = u.constr /\ w.reqs = u.reqs
    BY <2>1, <2>2, <2>3 DEF CellFields
  <2> QED BY <2>2, <2>4
<1>11. DOMAIN c = DOMAIN s.cells
  BY <1>7
<1>12. FieldsIn(c) /\ SameConstraints(s.cells, c)
  BY <1>10, <1>11 DEF FieldsIn, SameConstraints
<1>13. ~Chained(d) => Quantified(c, s.names)
  <2>1. PICK cs, ns : cs = s.cells /\ ns = s.names
    OBVIOUS
  <2>2. SameConstraints(cs, c) /\ \A k \in DOMAIN cs : c[k].reqs = cs[k].reqs
    BY <1>10, <1>12, <2>1
  <2>3. Quantified(cs, ns) => Quantified(c, ns)
    BY <2>2, QuantifiedSame
  <2> QED BY <1>5, <2>1, <2>3
<1>14. ScopesQuantified(ss)
  BY <1>8, <1>9, <1>12, <1>13 DEF ScopesQuantified, QuantInv
<1>15. (pass \in Passes => QuantPass(pass, did, reqs, cells, names)) /\ (pass = "collect" => DOMAIN names.tys = {})
  BY DEF QuantInv
<1> QED BY <1>1, <1>6, <1>14, <1>15, QuantKept

LEMMA QuantInit == Init => QuantInv
<1> SUFFICES ASSUME Init PROVE QuantInv
  OBVIOUS
<1>1. ASSUME NEW d \in DOMAIN program.items, NEW order \in orders[d] PROVE OrderOf(d, order)
  <2>1. orders[d] = Requirements(d) /\ program \in Programs
    BY DEF Init, OrdersInit
  <2>2. order \in Requirements(d)
    BY <2>1
  <2> QED BY <2>1, <2>2, OrdersAreLists
<1>2. pass = "none" /\ DOMAIN scopes = {}
  BY DEF Init, ScopesInit
<1> QED BY <1>1, <1>2 DEF QuantInv, Passes

LEMMA QuantStep == SigInv /\ QuantInv /\ [Next]_vars => QuantInv'
<1> SUFFICES ASSUME SigInv, QuantInv, [Next]_vars PROVE QuantInv'
  OBVIOUS
<1>1. UNCHANGED <<program, orders>>
  BY DEF Next, vars
<1>2. ASSUME UNCHANGED <<did, pass, todo, reqs, cells, names, scopes>> PROVE QuantInv'
  <2>1. /\ ScopesQuantified(scopes) /\ (pass \in Passes => QuantPass(pass, did, reqs, cells, names))
        /\ (pass = "collect" => DOMAIN names.tys = {})
    BY DEF QuantInv, ScopesQuantified
  <2> QED BY <1>1, <1>2, <2>1, QuantKept
<1>3. ASSUME UNCHANGED vars PROVE QuantInv'
  BY <1>2, <1>3 DEF vars, scopevars
<1>4. ASSUME BuildScope PROVE QuantInv'
  BY <1>1, <1>4, QuantBuild
<1>5. ASSUME ParseSpec PROVE QuantInv'
  <2>1. CASE attach_trait_attr_requirement
    BY <1>1, <2>1, QuantAttach
  <2>2. CASE ~attach_trait_attr_requirement
    <3>1. UNCHANGED scopevars
      BY <1>5, <2>2 DEF ParseSpec, ParseCaptures, HandleBinders, HandleArgs, RequireTraitAttr, HandleRequires,
        HandleEnsures, HandleOther, add_default_spec, push_to_builder
    <3> QED BY <1>2, <3>1 DEF scopevars
  <2> QED BY <2>1, <2>2
<1>6. ASSUME RegisterUse PROVE QuantInv'
  BY <1>2, <1>6 DEF RegisterUse
<1> QED BY <1>3, <1>4, <1>5, <1>6 DEF Next

(* An associated type that an equality determines is quantified nowhere:   *)
(* no finished scope names it as a parameter, neither among what the       *)
(* requirements of its requirements pass, nor in another constraint, nor   *)
(* behind a name of the attributes - in whatever order the requirements    *)
(* come, if no equality is to be followed into another one (scope.rs).     *)
THEOREM ConstraintsAreQuantified == Spec => []ConstraintsQuantified
<1>1. QuantInv => ConstraintsQuantified
  <2> SUFFICES ASSUME QuantInv PROVE ConstraintsQuantified
    OBVIOUS
  <2> DEFINE fixed(cs)  == {AssocLit(k) : k \in {q \in DOMAIN cs : cs[q].constr # << >>}}
             listed(cs) == UNION {UNION {ToSet(cs[k].reqs[i].assoc) : i \in DOMAIN cs[k].reqs} : k \in DOMAIN cs}
  <2>1. ASSUME NEW cs, NEW ns, Quantified(cs, ns)
        PROVE  fixed(cs) \cap (listed(cs) \cup {cs[k].constr : k \in DOMAIN cs}
                                 \cup {ns.tys[p] : p \in DOMAIN ns.tys}) = {}
    <3> SUFFICES ASSUME NEW q \in DOMAIN cs, cs[q].constr # << >>
                 PROVE  AssocLit(q) \notin listed(cs) \cup {cs[k].constr : k \in DOMAIN cs}
                                             \cup {ns.tys[p] : p \in DOMAIN ns.tys}
      OBVIOUS
    <3>1. \A k \in DOMAIN cs : AssocLit(q) # cs[k].constr
      BY <2>1 DEF Quantified, FreeOf
    <3>2. \A k \in DOMAIN cs : \A i \in DOMAIN cs[k].reqs : AssocLit(q) \notin ToSet(cs[k].reqs[i].assoc)
      BY <2>1 DEF Quantified, ListsFree, FreeOf
    <3>3. \A p \in DOMAIN ns.tys : AssocLit(q) # ns.tys[p]
      BY <2>1 DEF Quantified, FreeOf
    <3>4. AssocLit(q) \notin listed(cs)
      BY <3>2
    <3> HIDE DEF listed
    <3> QED BY <3>1, <3>3, <3>4
  <2>2. ASSUME NEW d \in DOMAIN scopes, ~Chained(d)
        PROVE  fixed(scopes[d].cells) \cap
                 (listed(scopes[d].cells) \cup {scopes[d].cells[k].constr : k \in DOMAIN scopes[d].cells}
                    \cup {scopes[d].names.tys[p] : p \in DOMAIN scopes[d].names.tys}) = {}
    <3>1. Quantified(scopes[d].cells, scopes[d].names)
      BY <2>2 DEF QuantInv
    <3> HIDE DEF fixed, listed
    <3> QED BY <2>1, <3>1
  <2> QED BY <2>2 DEF ConstraintsQuantified
<1>2. SigInv /\ QuantInv /\ [Next]_vars => QuantInv'
  BY QuantStep
<1> QED BY SigInit, SigStep, QuantInit, <1>1, <1>2, PTL DEF Spec
===========================================================================
