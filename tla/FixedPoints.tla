----------------------------- MODULE FixedPoints -----------------------------
(* Facts about the recursive functions of the models: induction over the     *)
(* natural numbers stated with sets, so that it can be used without operator *)
(* parameters, and what iterating a function over the subsets of a finite    *)
(* set computes: its least fixed point above the set it starts from.         *)
EXTENDS Integers, SequencesExt, DefOrder, FiniteSetTheorems, WellFoundedInduction, TLAPS

---------------------------------------------------------------------------
(* Every nonempty set of natural numbers has a least element.                *)
LEMMA LeastNumber ==
  ASSUME NEW T, T \subseteq Nat, T # {}
  PROVE  \E n \in T : \A m \in T : n <= m
<1> DEFINE R == {ss \in Nat \X Nat : ss[1] < ss[2]}
<1>1. IsWellFoundedOn(R, Nat)
  BY NatLessThanWellFounded, Zenon DEF OpToRel
<1>2. PICK n \in T : \A m \in T : ~(<<m, n>> \in R)
  <2> HIDE DEF R
  <2> QED BY <1>1, WFMin
<1>3. \A m \in T : ~(m < n)
  BY <1>2
<1>4. \A m \in T : n <= m
  <2> HIDE DEF R
  <2> TAKE m \in T
  <2>1. m \in Nat /\ n \in Nat OBVIOUS
  <2> QED BY <2>1, <1>3
<1> QED
  BY <1>4

(* A set that holds 0 and, up to a bound, with each number its successor,    *)
(* holds every number up to the bound.                                       *)
LEMMA RangeInduction ==
  ASSUME NEW N \in Nat, NEW T, 0 \in T, \A n \in 0..(N - 1) : n \in T => n + 1 \in T
  PROVE  \A n \in 0..N : n \in T
<1> DEFINE M == {n \in 0..N : n \notin T}
<1> SUFFICES ASSUME M # {} PROVE FALSE
  OBVIOUS
<1>1. M \subseteq Nat
  OBVIOUS
<1>2. PICK n \in M : \A m \in M : n <= m
  <2> HIDE DEF M
  <2> QED BY <1>1, LeastNumber
<1>3. n \in 0..N /\ n # 0 /\ n \notin T
  OBVIOUS
<1>4. n - 1 \in 0..(N - 1) /\ n - 1 \notin M
  BY <1>2, <1>3
<1>5. n - 1 \in T
  BY <1>4
<1> QED
  BY <1>3, <1>4, <1>5

LEMMA SetInduction ==
  ASSUME NEW T, 0 \in T, \A n \in Nat : n \in T => n + 1 \in T
  PROVE  \A n \in Nat : n \in T
<1> SUFFICES ASSUME NEW N \in Nat PROVE N \in T
  OBVIOUS
<1>1. \A n \in 0..N : n \in T
  <2>1. \A n \in 0..(N - 1) : n \in T => n + 1 \in T
    OBVIOUS
  <2> QED BY <2>1, RangeInduction
<1> QED
  BY <1>1

---------------------------------------------------------------------------
(* A function over the subsets of D that only adds elements.                 *)
Inflationary(D, step) ==
  /\ step \in [SUBSET D -> SUBSET D]
  /\ \A S \in SUBSET D : S \subseteq step[S]

(* C is closed under step: no subset of it is led out of it.                 *)
ClosedUnder(step, C) == \A S \in SUBSET C : step[S] \subseteq C

(* R is the least set above `start` that step leaves alone.                  *)
LeastFixedPoint(D, step, start, R) ==
  /\ R \in SUBSET D /\ start \subseteq R
  /\ step[R] = R
  /\ \A C \in SUBSET D : start \subseteq C /\ ClosedUnder(step, C) => R \subseteq C

(* The two forms of recursion that compute it: iterating n times, and        *)
(* iterating until nothing is added.                                         *)
Iterates(N, step, start, f) == f = [n \in 0..N |-> IF n = 0 THEN start ELSE step[f[n - 1]]]
Saturates(D, step, f) == f = [S \in SUBSET D |-> IF step[S] = S THEN S ELSE f[step[S]]]

LEMMA IterationExists ==
  ASSUME NEW step, NEW start, NEW N \in Nat
  PROVE  \E f : Iterates(N, step, start, f)
<1> DEFINE Upto(k, f) == f = [n \in 0..k |-> IF n = 0 THEN start ELSE step[f[n - 1]]]
           T == {k \in Nat : \E f : Upto(k, f)}
<1>1. 0 \in T
  <2> DEFINE f == [n \in 0..0 |-> start]
  <2>1. \A n \in 0..0 : n = 0
    OBVIOUS
  <2>2. f = [n \in 0..0 |-> IF n = 0 THEN start ELSE step[f[n - 1]]]
    BY <2>1
  <2>3. Upto(0, f)
    BY <2>2
  <2> QED BY <2>3
<1>2. ASSUME NEW k \in Nat, k \in T PROVE k + 1 \in T
  <2>1. PICK f : Upto(k, f)
    BY <1>2
  <2> DEFINE g == [n \in 0..(k + 1) |-> IF n = k + 1 THEN step[f[k]] ELSE f[n]]
  <2>2. \A n \in 0..(k + 1) : g[n] = IF n = 0 THEN start ELSE step[g[n - 1]]
    <3> TAKE n \in 0..(k + 1)
    <3>1. CASE n = k + 1
      BY <3>1
    <3>2. CASE n # k + 1
      <4>1. n \in 0..k /\ (n # 0 => n - 1 \in 0..k /\ n - 1 # k + 1 /\ n - 1 \in 0..(k + 1))
        BY <3>2
      <4>2. g[n] = f[n] /\ (n # 0 => g[n - 1] = f[n - 1])
        BY <3>2, <4>1
      <4>3. f[n] = IF n = 0 THEN start ELSE step[f[n - 1]]
        BY <2>1, <4>1
      <4> QED BY <4>2, <4>3
    <3> QED BY <3>1, <3>2
  <2>3. Upto(k + 1, g)
    <3> DEFINE h == [n \in 0..(k + 1) |-> IF n = 0 THEN start ELSE step[g[n - 1]]]
    <3>1. DOMAIN g = DOMAIN h /\ \A n \in 0..(k + 1) : g[n] = h[n]
      <4> HIDE DEF g
      <4>1. \A n \in 0..(k + 1) : h[n] = IF n = 0 THEN start ELSE step[g[n - 1]]
        OBVIOUS
      <4>2. DOMAIN h = 0..(k + 1)
        OBVIOUS
      <4>3. DOMAIN g = 0..(k + 1)
        BY DEF g
      <4> QED BY <4>1, <4>2, <4>3, <2>2
    <3>2. g = h
      BY <3>1
    <3> QED BY <3>2
  <2>4. k + 1 \in Nat
    OBVIOUS
  <2> HIDE DEF Upto, g
  <2> QED BY <2>3, <2>4
<1>3. N \in T
  <2> HIDE DEF T
  <2> QED BY <1>1, <1>2, SetInduction
<1> QED
  BY <1>3 DEF Iterates

(* Iterating as often as D has elements ends in the least fixed point.       *)
LEMMA IterationFixed ==
  ASSUME NEW D, IsFiniteSet(D), NEW step, Inflationary(D, step), NEW start \in SUBSET D,
         NEW f, Iterates(Cardinality(D), step, start, f)
  PROVE  LeastFixedPoint(D, step, start, f[Cardinality(D)])
<1> DEFINE N == Cardinality(D)
<1>1. N \in Nat
  BY FS_CardinalityType
<1>2. f[0] = start /\ \A n \in 0..(N - 1) : f[n + 1] = step[f[n]]
  <2> USE DEF Iterates
  <2>1. 0 \in 0..N
    BY <1>1
  <2>2. f[0] = start
    BY <2>1
  <2>3. ASSUME NEW n \in 0..(N - 1) PROVE f[n + 1] = step[f[n]]
    <3>1. n + 1 \in 0..N /\ n + 1 # 0 /\ (n + 1) - 1 = n
      BY <1>1
    <3> QED BY <3>1
  <2> QED BY <2>2, <2>3
<1> DEFINE Good(S, n) == S \in SUBSET D /\ start \subseteq S /\ (n <= Cardinality(S) \/ step[S] = S)
           T == {n \in 0..N : Good(f[n], n)}
<1>3. \A n \in 0..N : n \in T
  <2>1. 0 \in T
    <3>1. Cardinality(start) \in Nat
      BY FS_Subset, FS_CardinalityType
    <3> QED BY <1>1, <1>2, <3>1
  <2>2. ASSUME NEW n \in 0..(N - 1), n \in T PROVE n + 1 \in T
    <3>1. Good(f[n], n)
      BY <2>2
    <3>2. f[n + 1] = step[f[n]] /\ f[n] \subseteq step[f[n]] /\ step[f[n]] \in SUBSET D
      BY <1>2, <3>1 DEF Inflationary
    <3>3. n + 1 \in 0..N
      BY <1>1
    <3>4. CASE step[f[n]] = f[n]
      <4>1. Good(f[n + 1], n + 1)
        BY <3>1, <3>2, <3>4
      <4> QED BY <3>3, <4>1
    <3>5. CASE step[f[n]] # f[n]
      <4>1. n <= Cardinality(f[n]) /\ IsFiniteSet(step[f[n]])
        BY <3>1, <3>2, <3>5, FS_Subset
      <4>2. /\ Cardinality(f[n]) \in Nat /\ Cardinality(step[f[n]]) \in Nat
            /\ Cardinality(f[n]) <= Cardinality(step[f[n]])
            /\ Cardinality(f[n]) # Cardinality(step[f[n]])
        BY <3>1, <3>2, <3>5, <4>1, FS_Subset, FS_CardinalityType
      <4>3. n + 1 <= Cardinality(step[f[n]])
        BY <4>1, <4>2
      <4>4. Good(f[n + 1], n + 1)
        BY <3>1, <3>2, <4>3
      <4> QED BY <3>3, <4>4
    <3> QED BY <3>4, <3>5
  <2> HIDE DEF T, N
  <2> QED BY <1>1, <2>1, <2>2, RangeInduction
<1>4. Good(f[N], N)
  <2>1. N \in 0..N
    BY <1>1
  <2> QED BY <1>3, <2>1
<1>5. step[f[N]] = f[N]
  <2>1. CASE N <= Cardinality(f[N])
    <3>1. Cardinality(f[N]) = N
      BY <1>1, <1>4, <2>1, FS_Subset, FS_CardinalityType
    <3>2. f[N] = D
      BY <1>4, <3>1, FS_Subset
    <3>3. step[D] \in SUBSET D /\ D \subseteq step[D]
      BY DEF Inflationary
    <3> QED BY <3>2, <3>3
  <2> QED BY <1>4, <2>1
<1>6. ASSUME NEW C \in SUBSET D, start \subseteq C, ClosedUnder(step, C)
      PROVE  f[N] \subseteq C
  <2> DEFINE U == {n \in 0..N : f[n] \in SUBSET C}
  <2>1. 0 \in U
    BY <1>1, <1>2, <1>6
  <2>2. ASSUME NEW n \in 0..(N - 1), n \in U PROVE n + 1 \in U
    <3>1. n + 1 \in 0..N
      BY <1>1
    <3>2. f[n + 1] \in SUBSET C
      BY <1>2, <1>6, <2>2 DEF ClosedUnder
    <3> QED BY <3>1, <3>2
  <2>3. \A n \in 0..N : n \in U
    <3> HIDE DEF U, N
    <3> QED BY <1>1, <2>1, <2>2, RangeInduction
  <2> QED BY <1>1, <2>3
<1> QED
  BY <1>4, <1>5, <1>6 DEF LeastFixedPoint

(* Iterating until nothing is added does so, too.                            *)
LEMMA SaturationExists ==
  ASSUME NEW D, IsFiniteSet(D), NEW step, Inflationary(D, step)
  PROVE  \E cl : Saturates(D, step, cl)
<1> DEFINE gap(S) == Cardinality(D \ S)
           Near(k) == {S \in SUBSET D : gap(S) <= k}
           Sat(k, cl) == cl = [S \in Near(k) |-> IF step[S] = S THEN S ELSE cl[step[S]]]
           T == {k \in Nat : \E cl : Sat(k, cl)}
<1>1. \A S \in SUBSET D : IsFiniteSet(D \ S) /\ gap(S) \in Nat
  BY FS_Difference, FS_CardinalityType
<1>2. \A S \in SUBSET D : step[S] # S => gap(step[S]) < gap(S)
  <2> TAKE S \in SUBSET D
  <2> HAVE step[S] # S
  <2>1. step[S] \in SUBSET D /\ S \subseteq step[S]
    BY DEF Inflationary
  <2>2. D \ step[S] \in SUBSET (D \ S) /\ D \ step[S] # D \ S
    BY <2>1
  <2>3. gap(step[S]) <= gap(S) /\ gap(step[S]) # gap(S)
    BY <1>1, <2>2, FS_Subset
  <2> HIDE DEF gap
  <2>4. gap(S) \in Nat /\ gap(step[S]) \in Nat
    BY <1>1, <2>1
  <2>5. gap(step[S]) < gap(S)
    BY <2>3, <2>4
  <2> QED BY <2>1, <2>5
<1>3. 0 \in T
  <2> DEFINE cl == [S \in Near(0) |-> S]
  <2>1. ASSUME NEW S \in Near(0) PROVE step[S] = S
    <3> HIDE DEF gap
    <3>1. gap(S) = 0
      <4>1. S \in SUBSET D /\ gap(S) <= 0
        OBVIOUS
      <4>2. gap(S) \in Nat
        BY <1>1, <4>1
      <4> QED BY <4>1, <4>2
    <3>2. step[S] \in SUBSET D
      BY DEF Inflationary
    <3>3. step[S] # S => FALSE
      <4> HAVE step[S] # S
      <4>1. gap(step[S]) < 0
        BY <1>2, <3>1
      <4>2. gap(step[S]) \in Nat
        BY <1>1, <3>2
      <4> QED BY <4>1, <4>2
    <3> QED BY <3>3
  <2>2. cl = [S \in Near(0) |-> IF step[S] = S THEN S ELSE cl[step[S]]]
    <3> HIDE DEF Near
    <3> QED BY <2>1
  <2>3. Sat(0, cl)
    BY <2>2
  <2> HIDE DEF Sat, cl
  <2> QED BY <2>3
<1>4. ASSUME NEW k \in Nat, k \in T PROVE k + 1 \in T
  <2>1. PICK cl : Sat(k, cl)
    BY <1>4
  <2> DEFINE g == [S \in Near(k + 1) |-> IF step[S] = S THEN S ELSE cl[step[S]]]
  <2>2. \A S \in Near(k) : g[S] = cl[S]
    <3> TAKE S \in Near(k)
    <3>1. S \in Near(k + 1)
      <4> HIDE DEF gap
      <4>1. S \in SUBSET D /\ gap(S) <= k
        OBVIOUS
      <4>2. gap(S) \in Nat
        BY <1>1, <4>1
      <4>3. gap(S) <= k + 1
        BY <4>1, <4>2
      <4> QED BY <4>1, <4>3
    <3>2. cl[S] = IF step[S] = S THEN S ELSE cl[step[S]]
      <4> HIDE DEF Near
      <4> QED BY <2>1
    <3> HIDE DEF Near
    <3> QED BY <3>1, <3>2
  <2>3. \A S \in Near(k + 1) : step[S] # S => g[step[S]] = cl[step[S]]
    <3> TAKE S \in Near(k + 1)
    <3> HAVE step[S] # S
    <3>1. step[S] \in Near(k)
      <4>1. step[S] \in SUBSET D
        BY DEF Inflationary
      <4> HIDE DEF gap
      <4>2. S \in SUBSET D /\ gap(S) <= k + 1 /\ gap(step[S]) < gap(S)
        BY <1>2
      <4>3. gap(S) \in Nat /\ gap(step[S]) \in Nat
        BY <1>1, <4>1, <4>2
      <4>4. gap(step[S]) <= k
        BY <4>2, <4>3
      <4> QED BY <4>1, <4>4
    <3> HIDE DEF Near, g
    <3> QED BY <2>2, <3>1
  <2>4. g = [S \in Near(k + 1) |-> IF step[S] = S THEN S ELSE g[step[S]]]
    <3> DEFINE h == [S \in Near(k + 1) |-> IF step[S] = S THEN S ELSE g[step[S]]]
    <3> HIDE DEF Near
    <3>1. \A S \in Near(k + 1) : g[S] = IF step[S] = S THEN S ELSE cl[step[S]]
      OBVIOUS
    <3>2. DOMAIN g = Near(k + 1)
      OBVIOUS
    <3>3. g = [S \in Near(k + 1) |-> g[S]]
      BY <3>2
    <3> HIDE DEF g
    <3>4. \A S \in Near(k + 1) : h[S] = g[S]
      BY <2>3, <3>1
    <3>5. h = [S \in Near(k + 1) |-> h[S]]
      OBVIOUS
    <3> HIDE DEF h
    <3>6. g = h
      BY <3>3, <3>4, <3>5
    <3> QED BY <3>6 DEF h
  <2>5. Sat(k + 1, g)
    <3> HIDE DEF g, Near
    <3> QED BY <2>4
  <2>6. k + 1 \in Nat
    OBVIOUS
  <2> HIDE DEF Sat, g
  <2> QED BY <2>5, <2>6
<1>5. Cardinality(D) \in T
  <2>1. Cardinality(D) \in Nat
    BY FS_CardinalityType
  <2> HIDE DEF T
  <2> QED BY <1>3, <1>4, <2>1, SetInduction
<1>6. Near(Cardinality(D)) = SUBSET D
  <2>1. \A S \in SUBSET D : Cardinality(D \ S) <= Cardinality(D)
    <3> TAKE S \in SUBSET D
    <3>1. D \ S \in SUBSET D
      OBVIOUS
    <3> QED BY <3>1, FS_Subset
  <2> QED BY <2>1
<1>7. PICK cl : Sat(Cardinality(D), cl)
  BY <1>5
<1>8. cl = [S \in SUBSET D |-> IF step[S] = S THEN S ELSE cl[step[S]]]
  <2> HIDE DEF Near
  <2> QED BY <1>6, <1>7
<1> QED
  BY <1>8 DEF Saturates

LEMMA SaturationFixed ==
  ASSUME NEW D, IsFiniteSet(D), NEW step, Inflationary(D, step),
         NEW cl, Saturates(D, step, cl), NEW start \in SUBSET D
  PROVE  LeastFixedPoint(D, step, start, cl[start])
<1> DEFINE gap(S) == Cardinality(D \ S)
           Near(k) == {S \in SUBSET D : gap(S) <= k}
           Least(S) == LeastFixedPoint(D, step, S, cl[S])
           T == {k \in Nat : \A S \in Near(k) : Least(S)}
<1>1. \A S \in SUBSET D : IsFiniteSet(D \ S) /\ gap(S) \in Nat
  BY FS_Difference, FS_CardinalityType
<1>2. ASSUME NEW S \in SUBSET D, step[S] = S PROVE Least(S)
  <2>1. cl[S] = S
    BY <1>2 DEF Saturates
  <2> QED BY <1>2, <2>1 DEF LeastFixedPoint
<1>3. ASSUME NEW S \in SUBSET D, step[S] # S, Least(step[S]) PROVE Least(S)
  <2>1. cl[S] = cl[step[S]]
    BY <1>3 DEF Saturates
  <2>2. S \subseteq step[S] /\ step[S] \in SUBSET D
    BY DEF Inflationary
  <2>3. \A C \in SUBSET D : S \subseteq C /\ ClosedUnder(step, C) => step[S] \subseteq C
    BY DEF ClosedUnder
  <2> HIDE DEF T, Near
  <2> QED BY <1>3, <2>1, <2>2, <2>3 DEF LeastFixedPoint
<1>4. ASSUME NEW S \in SUBSET D, step[S] # S
      PROVE  step[S] \in SUBSET D /\ gap(step[S]) < gap(S)
  <2>1. step[S] \in SUBSET D /\ S \subseteq step[S]
    BY DEF Inflationary
  <2>2. D \ step[S] \in SUBSET (D \ S) /\ D \ step[S] # D \ S
    BY <1>4, <2>1
  <2>3. gap(step[S]) <= gap(S) /\ gap(step[S]) # gap(S)
    BY <1>1, <2>2, FS_Subset
  <2> HIDE DEF gap
  <2>4. gap(S) \in Nat /\ gap(step[S]) \in Nat
    BY <1>1, <2>1
  <2>5. gap(step[S]) < gap(S)
    BY <2>3, <2>4
  <2> QED BY <2>1, <2>5
<1>5. 0 \in T
  <2>1. ASSUME NEW S \in Near(0) PROVE step[S] = S
    <3> HIDE DEF gap
    <3>1. gap(S) = 0
      <4>1. S \in SUBSET D /\ gap(S) <= 0
        OBVIOUS
      <4>2. gap(S) \in Nat
        BY <1>1, <4>1
      <4> QED BY <4>1, <4>2
    <3>2. step[S] # S => FALSE
      <4> HAVE step[S] # S
      <4>1. gap(step[S]) < 0 /\ step[S] \in SUBSET D
        BY <1>4, <3>1
      <4>2. gap(step[S]) \in Nat
        BY <1>1, <4>1
      <4> QED BY <4>1, <4>2
    <3> QED BY <3>2
  <2> HIDE DEF Least
  <2>2. \A S \in Near(0) : Least(S)
    BY <1>2, <2>1
  <2> QED BY <2>2
<1>6. ASSUME NEW k \in Nat, k \in T PROVE k + 1 \in T
  <2>1. ASSUME NEW S \in Near(k + 1) PROVE Least(S)
    <3>1. CASE step[S] = S
      BY <1>2, <3>1
    <3>2. CASE step[S] # S
      <4>1. step[S] \in Near(k)
        <5> HIDE DEF gap
        <5>1. S \in SUBSET D /\ gap(S) <= k + 1
          OBVIOUS
        <5>2. step[S] \in SUBSET D /\ gap(step[S]) < gap(S)
          BY <1>4, <3>2
        <5>3. gap(S) \in Nat /\ gap(step[S]) \in Nat
          BY <1>1, <5>1, <5>2
        <5>4. gap(step[S]) <= k
          BY <5>1, <5>2, <5>3
        <5> QED BY <5>2, <5>4
      <4>2. Least(step[S])
        <5> HIDE DEF Least, Near
        <5> QED BY <1>6, <4>1
      <4> HIDE DEF Least
      <4> QED BY <1>3, <3>2, <4>2
    <3> QED BY <3>1, <3>2
  <2> HIDE DEF Least, Near
  <2> QED BY <2>1
<1>7. Cardinality(D \ start) \in T
  <2> HIDE DEF T
  <2> QED BY <1>1, <1>5, <1>6, SetInduction
<1>8. start \in Near(Cardinality(D \ start))
  BY <1>1
<1> HIDE DEF Near, Least
<1>9. Least(start)
  BY <1>7, <1>8
<1> QED
  BY <1>9 DEF Least

---------------------------------------------------------------------------
(* Induction over the subsets of a finite set.                               *)
LEMMA SubsetInduction ==
  ASSUME NEW D, IsFiniteSet(D), NEW T, {} \in T,
         \A S \in SUBSET D : S # {} /\ (\A x \in S : S \ {x} \in T) => S \in T
  PROVE  \A S \in SUBSET D : S \in T
<1> DEFINE U == {k \in Nat : \A S \in SUBSET D : Cardinality(S) = k => S \in T}
<1>1. \A S \in SUBSET D : IsFiniteSet(S) /\ Cardinality(S) \in Nat
  BY FS_Subset, FS_CardinalityType
<1>2. 0 \in U
  <2>1. ASSUME NEW S \in SUBSET D, Cardinality(S) = 0 PROVE S \in T
    <3>1. S = {}
      BY <1>1, <2>1, FS_EmptySet
    <3> QED BY <3>1
  <2> QED BY <2>1
<1>3. ASSUME NEW k \in Nat, k \in U PROVE k + 1 \in U
  <2>1. ASSUME NEW S \in SUBSET D, Cardinality(S) = k + 1 PROVE S \in T
    <3>1. S # {}
      <4> SUFFICES ASSUME S = {} PROVE FALSE
        OBVIOUS
      <4>1. Cardinality(S) = 0
        BY FS_EmptySet
      <4> QED BY <2>1, <4>1
    <3>2. ASSUME NEW x \in S PROVE S \ {x} \in T
      <4>1. S \ {x} \in SUBSET D
        OBVIOUS
      <4>2. IsFiniteSet(S)
        BY <1>1
      <4>3. Cardinality(S \ {x}) = Cardinality(S) - 1
        BY <4>2, FS_RemoveElement
      <4>4. Cardinality(S \ {x}) = k
        BY <2>1, <4>3
      <4> QED BY <1>3, <4>1, <4>4
    <3> QED BY <3>1, <3>2
  <2>2. k + 1 \in Nat
    OBVIOUS
  <2> QED BY <2>1, <2>2
<1>4. \A k \in Nat : k \in U
  <2> HIDE DEF U
  <2> QED BY <1>2, <1>3, SetInduction
<1> QED
  BY <1>1, <1>4

(* A finite set has an element that none of it exceeds, in an order R.       *)
LEMMA MaximalElement ==
  ASSUME NEW D, IsFiniteSet(D), NEW R,
         \A x \in D : <<x, x>> \notin R,
         \A x, y, z \in D : <<x, y>> \in R /\ <<y, z>> \in R => <<x, z>> \in R
  PROVE  \A S \in SUBSET D : S # {} => \E x \in S : \A y \in S : <<x, y>> \notin R
<1> DEFINE Top(S, x) == \A y \in S : <<x, y>> \notin R
           T == {S \in SUBSET D : S # {} => \E x \in S : Top(S, x)}
<1>1. {} \in T
  OBVIOUS
<1>2. ASSUME NEW S \in SUBSET D, S # {}, \A x \in S : S \ {x} \in T PROVE S \in T
  <2>1. PICK x \in S : TRUE
    BY <1>2
  <2>2. CASE S = {x}
    <3>1. Top(S, x)
      BY <2>2
    <3> QED BY <3>1
  <2>3. CASE S # {x}
    <3>1. S \ {x} # {} /\ S \ {x} \in T
      BY <1>2, <2>1, <2>3
    <3>2. PICK z \in S \ {x} : Top(S \ {x}, z)
      BY <3>1
    <3>3. CASE <<z, x>> \in R
      <4>1. \A y \in S : <<x, y>> \notin R
        BY <3>2, <3>3
      <4> QED BY <4>1
    <3>4. CASE <<z, x>> \notin R
      <4>1. \A y \in S : <<z, y>> \notin R
        BY <3>2, <3>4
      <4> QED BY <4>1
    <3> QED BY <3>3, <3>4
  <2> QED BY <2>2, <2>3
<1>3. \A S \in SUBSET D : S \in T
  <2> HIDE DEF T
  <2> QED BY <1>1, <1>2, SubsetInduction
<1> QED
  BY <1>3

(* A fold over a finite set, one element after the other as `pick` chooses   *)
(* them, is defined, and stays in every set V that each step stays in.       *)
Folded(D, pick, step, base, g) ==
  g = [S \in SUBSET D |-> IF S = {} THEN base ELSE step[pick[S]][g[S \ {pick[S]}]]]

LEMMA SetFold ==
  ASSUME NEW D, IsFiniteSet(D), NEW V, NEW base \in V, NEW step \in [D -> [V -> V]],
         NEW pick, \A S \in SUBSET D : S # {} => pick[S] \in S
  PROVE  \E g \in [SUBSET D -> V] : Folded(D, pick, step, base, g)
<1> DEFINE size(S) == Cardinality(S)
           Small(k) == {S \in SUBSET D : size(S) <= k}
           Fold(k, g) == g = [S \in Small(k) |-> IF S = {} THEN base ELSE step[pick[S]][g[S \ {pick[S]}]]]
           T == {k \in Nat : \E g : Fold(k, g)}
<1>1. \A S \in SUBSET D : size(S) \in Nat /\ (size(S) = 0 <=> S = {})
  BY FS_Subset, FS_CardinalityType, FS_EmptySet
<1>2. ASSUME NEW S \in SUBSET D, S # {}
      PROVE  S \ {pick[S]} \in SUBSET D /\ size(S \ {pick[S]}) = size(S) - 1
  <2>1. pick[S] \in S /\ IsFiniteSet(S)
    BY <1>2, FS_Subset
  <2> QED BY <2>1, FS_RemoveElement
<1>3. 0 \in T
  <2> DEFINE g == [S \in Small(0) |-> base]
  <2>1. ASSUME NEW S \in Small(0) PROVE S = {}
    <3> HIDE DEF size
    <3>1. S \in SUBSET D /\ size(S) <= 0
      OBVIOUS
    <3>2. size(S) \in Nat
      BY <1>1, <3>1
    <3>3. size(S) = 0
      BY <3>1, <3>2
    <3> QED BY <1>1, <3>1, <3>3
  <2>2. g = [S \in Small(0) |-> IF S = {} THEN base ELSE step[pick[S]][g[S \ {pick[S]}]]]
    <3> HIDE DEF Small
    <3> QED BY <2>1
  <2>3. Fold(0, g)
    BY <2>2
  <2> HIDE DEF Fold, g
  <2> QED BY <2>3
<1>4. ASSUME NEW k \in Nat, k \in T PROVE k + 1 \in T
  <2>1. PICK f : Fold(k, f)
    BY <1>4
  <2> DEFINE g == [S \in Small(k + 1) |-> IF S = {} THEN base ELSE step[pick[S]][f[S \ {pick[S]}]]]
  <2>2. \A S \in Small(k) : g[S] = f[S]
    <3> TAKE S \in Small(k)
    <3>1. S \in Small(k + 1)
      <4> HIDE DEF size
      <4>1. S \in SUBSET D /\ size(S) <= k
        OBVIOUS
      <4>2. size(S) \in Nat
        BY <1>1, <4>1
      <4>3. size(S) <= k + 1
        BY <4>1, <4>2
      <4> QED BY <4>1, <4>3
    <3>2. f[S] = IF S = {} THEN base ELSE step[pick[S]][f[S \ {pick[S]}]]
      <4> HIDE DEF Small
      <4> QED BY <2>1
    <3> HIDE DEF Small
    <3> QED BY <3>1, <3>2
  <2>3. \A S \in Small(k + 1) : S # {} => g[S \ {pick[S]}] = f[S \ {pick[S]}]
    <3> TAKE S \in Small(k + 1)
    <3> HAVE S # {}
    <3>1. S \ {pick[S]} \in Small(k)
      <4> HIDE DEF size
      <4>1. S \in SUBSET D /\ size(S) <= k + 1
        OBVIOUS
      <4>2. S \ {pick[S]} \in SUBSET D /\ size(S \ {pick[S]}) = size(S) - 1 /\ size(S) \in Nat
        BY <1>1, <1>2, <4>1
      <4>3. size(S \ {pick[S]}) <= k
        BY <4>1, <4>2
      <4> QED BY <4>2, <4>3
    <3> HIDE DEF Small, g
    <3> QED BY <2>2, <3>1
  <2>4. g = [S \in Small(k + 1) |-> IF S = {} THEN base ELSE step[pick[S]][g[S \ {pick[S]}]]]
    <3> DEFINE h == [S \in Small(k + 1) |-> IF S = {} THEN base ELSE step[pick[S]][g[S \ {pick[S]}]]]
    <3> HIDE DEF Small
    <3>1. \A S \in Small(k + 1) : g[S] = IF S = {} THEN base ELSE step[pick[S]][f[S \ {pick[S]}]]
      OBVIOUS
    <3>2. g = [S \in Small(k + 1) |-> g[S]]
      OBVIOUS
    <3> HIDE DEF g
    <3>3. \A S \in Small(k + 1) : h[S] = g[S]
      BY <2>3, <3>1
    <3>4. h = [S \in Small(k + 1) |-> h[S]]
      OBVIOUS
    <3> HIDE DEF h
    <3>5. g = h
      BY <3>2, <3>3, <3>4
    <3> QED BY <3>5 DEF h
  <2>5. Fold(k + 1, g)
    <3> HIDE DEF g, Small
    <3> QED BY <2>4
  <2>6. k + 1 \in Nat
    OBVIOUS
  <2> HIDE DEF Fold, g
  <2> QED BY <2>5, <2>6
<1>5. size(D) \in T
  <2>1. size(D) \in Nat
    BY <1>1
  <2> HIDE DEF T, size
  <2> QED BY <1>3, <1>4, <2>1, SetInduction
<1>6. Small(size(D)) = SUBSET D
  BY FS_Subset
<1>7. PICK g : Fold(size(D), g)
  BY <1>5
<1>8. g = [S \in SUBSET D |-> IF S = {} THEN base ELSE step[pick[S]][g[S \ {pick[S]}]]]
  <2> HIDE DEF Small, size
  <2> QED BY <1>6, <1>7
<1>9. g \in [SUBSET D -> V]
  <2> DEFINE W == {S \in SUBSET D : g[S] \in V}
  <2>1. {} \in W
    BY <1>8
  <2>2. ASSUME NEW S \in SUBSET D, S # {}, \A x \in S : S \ {x} \in W PROVE S \in W
    <3>1. pick[S] \in D /\ g[S \ {pick[S]}] \in V
      BY <2>2
    <3>2. g[S] = step[pick[S]][g[S \ {pick[S]}]]
      BY <1>8, <2>2
    <3>3. step[pick[S]] \in [V -> V]
      BY <3>1
    <3>4. g[S] \in V
      BY <3>1, <3>2, <3>3
    <3> QED BY <3>4
  <2>3. \A S \in SUBSET D : S \in W
    <3> HIDE DEF W
    <3> QED BY <2>1, <2>2, SubsetInduction
  <2>4. g = [S \in SUBSET D |-> g[S]]
    BY <1>8
  <2> QED BY <2>3, <2>4
<1> QED
  BY <1>8, <1>9 DEF Folded

(* A fold given by its equations stays in V if each of its steps does.       *)
LEMMA FoldStays ==
  ASSUME NEW D, IsFiniteSet(D), NEW V, NEW iter, iter[{}] \in V, NEW pick,
         \A S \in SUBSET D : S # {} =>
           pick[S] \in S /\ (iter[S \ {pick[S]}] \in V => iter[S] \in V)
  PROVE  iter[D] \in V
<1> DEFINE W == {S \in SUBSET D : iter[S] \in V}
<1>1. {} \in W
  OBVIOUS
<1>2. ASSUME NEW S \in SUBSET D, S # {}, \A x \in S : S \ {x} \in W PROVE S \in W
  BY <1>2
<1>3. \A S \in SUBSET D : S \in W
  <2> HIDE DEF W
  <2> QED BY <1>1, <1>2, SubsetInduction
<1> QED
  BY <1>3

(* The element a fold over a sequence takes is there.                         *)
LEMMA MaxIn ==
  ASSUME NEW D, D \subseteq Nat, IsFiniteSet(D)
  PROVE  \A S \in SUBSET D : S # {} => Max(S) \in S
<1> DEFINE R == {e \in D \X D : e[1] < e[2]}
<1>1. \A x, y \in D : <<x, y>> \in R <=> x < y
  OBVIOUS
<1>2. /\ \A x \in D : <<x, x>> \notin R
      /\ \A x, y, z \in D : <<x, y>> \in R /\ <<y, z>> \in R => <<x, z>> \in R
  <2> HIDE DEF R
  <2>1. \A x \in D : x \in Nat
    OBVIOUS
  <2> QED BY <1>1, <2>1
<1>3. \A S \in SUBSET D : S # {} => \E x \in S : \A y \in S : <<x, y>> \notin R
  <2> HIDE DEF R
  <2> QED BY <1>2, MaximalElement
<1>4. ASSUME NEW S \in SUBSET D, S # {} PROVE \E x \in S : \A y \in S : x >= y
  <2>1. PICK x \in S : \A y \in S : <<x, y>> \notin R
    BY <1>3, <1>4
  <2> HIDE DEF R
  <2>2. ASSUME NEW y \in S PROVE x >= y
    <3>1. ~(x < y) /\ x \in Nat /\ y \in Nat
      BY <1>1, <2>1
    <3> QED BY <3>1
  <2> QED BY <2>2
<1> QED
  BY <1>4 DEF Max

---------------------------------------------------------------------------
(* Joining sequences one after the other: the result has their elements.     *)
Flattens(seqs, f) ==
  f = [i \in 1..Len(seqs) |-> IF i = 1 THEN seqs[i] ELSE f[i - 1] \o seqs[i]]

LEMMA FlattenExists ==
  ASSUME NEW S, NEW seqs \in Seq(Seq(S)), Len(seqs) # 0
  PROVE  \E f : Flattens(seqs, f)
<1> DEFINE N == Len(seqs) - 1
           step == [p \in (1..Len(seqs)) \X Seq(S) |-> <<p[1] + 1, p[2] \o seqs[p[1] + 1]>>]
           start == <<1, seqs[1]>>
<1>1. N \in Nat /\ 1 \in 1..Len(seqs) /\ \A i \in 1..Len(seqs) : seqs[i] \in Seq(S)
  OBVIOUS
<1>2. PICK g : Iterates(N, step, start, g)
  <2> HIDE DEF step, start, N
  <2> QED BY <1>1, IterationExists
<1>3. \A n \in 0..N : g[n] = IF n = 0 THEN start ELSE step[g[n - 1]]
  <2> HIDE DEF step, start, N
  <2> QED BY <1>2 DEF Iterates
<1>a. g[0] = start
  <2>1. 0 \in 0..N
    BY <1>1
  <2> HIDE DEF step, start, N
  <2> QED BY <2>1, <1>3
<1> DEFINE T == {n \in 0..N : /\ \E q \in Seq(S) : g[n] = <<n + 1, q>>
                              /\ n # 0 => g[n][2] = g[n - 1][2] \o seqs[n + 1]}
<1>4. 0 \in T
  <2>1. g[0] = <<0 + 1, seqs[1]>> /\ seqs[1] \in Seq(S)
    BY <1>1, <1>a
  <2> QED BY <1>1, <2>1
<1>5. ASSUME NEW n \in 0..(N - 1), n \in T PROVE n + 1 \in T
  <2>1. n + 1 \in 0..N /\ n + 1 # 0 /\ (n + 1) - 1 = n /\ n + 1 \in 1..Len(seqs) /\ n + 2 \in 1..Len(seqs)
    BY <1>1
  <2>2. g[n + 1] = step[g[n]]
    <3> HIDE DEF step, start, T
    <3> QED BY <1>3, <2>1
  <2>3. PICK q \in Seq(S) : g[n] = <<n + 1, q>>
    BY <1>5
  <2>4. g[n] \in (1..Len(seqs)) \X Seq(S) /\ g[n][1] = n + 1 /\ g[n][2] = q
    BY <2>1, <2>3
  <2>5. g[n + 1] = <<(n + 1) + 1, q \o seqs[(n + 1) + 1]>>
    BY <2>2, <2>4
  <2>6. seqs[(n + 1) + 1] \in Seq(S)
    BY <1>1, <2>1
  <2>7. q \o seqs[(n + 1) + 1] \in Seq(S)
    BY <2>3, <2>6
  <2>8. g[n + 1][2] = g[n][2] \o seqs[(n + 1) + 1]
    <3> DEFINE w == q \o seqs[(n + 1) + 1]
    <3> HIDE DEF w
    <3>1. g[n + 1] = <<(n + 1) + 1, w>>
      BY <2>5 DEF w
    <3> DEFINE p == g[n + 1]
    <3>2. p = <<(n + 1) + 1, w>>
      BY <3>1
    <3> HIDE DEF p
    <3>3. p[2] = w
      BY <3>2
    <3>4. g[n][2] = q
      BY <2>4
    <3> QED BY <3>3, <3>4 DEF w, p
  <2> QED BY <2>1, <2>5, <2>7, <2>8
<1>6. \A n \in 0..N : n \in T
  <2> HIDE DEF T, N
  <2> QED BY <1>1, <1>4, <1>5, RangeInduction
<1> DEFINE f == [i \in 1..Len(seqs) |-> g[i - 1][2]]
<1>7. ASSUME NEW i \in 1..Len(seqs)
      PROVE  f[i] = IF i = 1 THEN seqs[i] ELSE f[i - 1] \o seqs[i]
  <2>1. i - 1 \in 0..N /\ (i # 1 => i - 1 \in 1..Len(seqs) /\ (i - 1) - 1 \in 0..N)
    BY <1>1
  <2>2. CASE i = 1
    <3>1. f[i] = g[0][2]
      BY <2>2
    <3> QED BY <1>a, <2>2, <3>1
  <2>3. CASE i # 1
    <3>1. i - 1 \in T /\ i - 1 # 0 /\ (i - 1) + 1 = i
      <4> HIDE DEF T
      <4> QED BY <1>6, <2>1, <2>3
    <3>2. g[i - 1][2] = g[(i - 1) - 1][2] \o seqs[i]
      BY <3>1
    <3> QED BY <2>1, <2>3, <3>2
  <2> QED BY <2>2, <2>3
<1>8. f = [i \in 1..Len(seqs) |-> IF i = 1 THEN seqs[i] ELSE f[i - 1] \o seqs[i]]
  <2> DEFINE h == [i \in 1..Len(seqs) |-> IF i = 1 THEN seqs[i] ELSE f[i - 1] \o seqs[i]]
  <2>1. DOMAIN f = 1..Len(seqs) /\ DOMAIN h = 1..Len(seqs)
    OBVIOUS
  <2>2. \A i \in 1..Len(seqs) : h[i] = f[i]
    <3> HIDE DEF f
    <3> QED BY <1>7
  <2>3. f = [i \in 1..Len(seqs) |-> f[i]] /\ h = [i \in 1..Len(seqs) |-> h[i]]
    OBVIOUS
  <2> HIDE DEF f, h
  <2>4. f = h
    BY <2>2, <2>3
  <2> QED BY <2>4 DEF h
<1> HIDE DEF f
<1> QED
  BY <1>8 DEF Flattens

LEMMA JoinedAt ==
  ASSUME NEW S, NEW s \in Seq(S), NEW t \in Seq(S)
  PROVE  s \o t = [i \in 1..(Len(s) + Len(t)) |-> IF i <= Len(s) THEN s[i] ELSE t[i - Len(s)]]
<1>1. s \o t \in Seq(S) /\ Len(s \o t) = Len(s) + Len(t)
  OBVIOUS
<1>2. \A i \in 1..(Len(s) + Len(t)) : (s \o t)[i] = IF i <= Len(s) THEN s[i] ELSE t[i - Len(s)]
  OBVIOUS
<1>3. \A u \in Seq(S) : u = [i \in 1..Len(u) |-> u[i]]
  OBVIOUS
<1> QED
  BY <1>1, <1>2, <1>3

LEMMA JoinedElements ==
  ASSUME NEW S, NEW s \in Seq(S), NEW t \in Seq(S)
  PROVE  ToSet(s \o t) = ToSet(s) \cup ToSet(t)
<1>1. s \o t \in Seq(S) /\ Len(s \o t) = Len(s) + Len(t) /\ Len(s) \in Nat /\ Len(t) \in Nat
  OBVIOUS
<1>2. /\ \A i \in 1..Len(s) : (s \o t)[i] = s[i]
      /\ \A i \in 1..Len(t) : (s \o t)[i + Len(s)] = t[i]
  OBVIOUS
<1>3. ASSUME NEW i \in 1..Len(s \o t) PROVE (s \o t)[i] \in ToSet(s) \cup ToSet(t)
  <2>1. CASE i \in 1..Len(s)
    BY <1>2, <2>1 DEF ToSet
  <2>2. CASE i \notin 1..Len(s)
    <3>1. i - Len(s) \in 1..Len(t) /\ (i - Len(s)) + Len(s) = i
      BY <1>1, <2>2
    <3>2. (s \o t)[i] = t[i - Len(s)]
      BY <1>2, <3>1
    <3> QED BY <3>1, <3>2 DEF ToSet
  <2> QED BY <2>1, <2>2
<1>4. ASSUME NEW x \in ToSet(s) PROVE x \in ToSet(s \o t)
  <2>1. PICK i \in 1..Len(s) : x = s[i]
    BY DEF ToSet
  <2>2. i \in 1..Len(s \o t)
    BY <1>1
  <2> QED BY <1>1, <1>2, <2>1, <2>2 DEF ToSet
<1>5. ASSUME NEW x \in ToSet(t) PROVE x \in ToSet(s \o t)
  <2>1. PICK i \in 1..Len(t) : x = t[i]
    BY DEF ToSet
  <2>2. i + Len(s) \in DOMAIN (s \o t)
    BY <1>1
  <2>3. (s \o t)[i + Len(s)] = x
    BY <1>2, <2>1
  <2> DEFINE st == s \o t
  <2> HIDE DEF st
  <2>4. \E k \in DOMAIN st : st[k] = x
    BY <2>2, <2>3 DEF st
  <2>5. x \in ToSet(st)
    BY <2>4 DEF ToSet
  <2> QED BY <2>5 DEF st
<1>6. ToSet(s \o t) \subseteq ToSet(s) \cup ToSet(t)
  BY <1>1, <1>3 DEF ToSet
<1> QED
  BY <1>4, <1>5, <1>6

LEMMA FlattenElements ==
  ASSUME NEW S, NEW seqs \in Seq(Seq(S))
  PROVE  /\ FlattenSeq(seqs) \in Seq(S)
         /\ ToSet(FlattenSeq(seqs)) = UNION {ToSet(seqs[i]) : i \in 1..Len(seqs)}
<1>1. CASE Len(seqs) = 0
  <2>1. seqs = <<>>
    BY <1>1
  <2>2. FlattenSeq(seqs) = <<>>
    BY <1>1, <2>1 DEF FlattenSeq
  <2>3. <<>> \in Seq(S) /\ ToSet(<<>>) = {} /\ 1..Len(seqs) = {}
    BY <1>1 DEF ToSet
  <2> QED BY <2>2, <2>3
<1>2. CASE Len(seqs) # 0
  <2> DEFINE f == CHOOSE f : Flattens(seqs, f)
             N == Len(seqs) - 1
             Below(n) == UNION {ToSet(seqs[i]) : i \in 1..n}
             T == {n \in 0..N : f[n + 1] \in Seq(S) /\ ToSet(f[n + 1]) = Below(n + 1)}
  <2>1. FlattenSeq(seqs) = f[Len(seqs)]
    BY <1>2 DEF FlattenSeq, Flattens
  <2>2. Flattens(seqs, f)
    BY <1>2, FlattenExists
  <2>3. \A i \in 1..Len(seqs) : f[i] = IF i = 1 THEN seqs[i] ELSE f[i - 1] \o seqs[i]
    <3> HIDE DEF f
    <3> QED BY <2>2 DEF Flattens
  <2> HIDE DEF f
  <2>4. N \in Nat /\ \A i \in 1..Len(seqs) : seqs[i] \in Seq(S)
    BY <1>2
  <2>5. 0 \in T
    <3>1. f[1] = seqs[1] /\ seqs[1] \in Seq(S) /\ 1..1 = {1}
      BY <1>2, <2>3, <2>4
    <3>2. ToSet(f[1]) = Below(1)
      BY <3>1
    <3> QED BY <2>4, <3>1, <3>2
  <2>6. ASSUME NEW n \in 0..(N - 1), n \in T PROVE n + 1 \in T
    <3>1. /\ n + 1 \in 0..N /\ n + 1 \in 1..Len(seqs) /\ (n + 1) + 1 \in 1..Len(seqs)
          /\ (n + 1) + 1 # 1 /\ ((n + 1) + 1) - 1 = n + 1
          /\ 1..((n + 1) + 1) = (1..(n + 1)) \cup {(n + 1) + 1}
      BY <2>4
    <3>2. f[n + 1] \in Seq(S) /\ ToSet(f[n + 1]) = Below(n + 1) /\ seqs[(n + 1) + 1] \in Seq(S)
      BY <2>4, <2>6, <3>1
    <3>3. f[(n + 1) + 1] = f[n + 1] \o seqs[(n + 1) + 1]
      BY <2>3, <3>1
    <3>4. Below((n + 1) + 1) = Below(n + 1) \cup ToSet(seqs[(n + 1) + 1])
      BY <3>1
    <3>5. ToSet(f[n + 1] \o seqs[(n + 1) + 1]) = ToSet(f[n + 1]) \cup ToSet(seqs[(n + 1) + 1])
      BY <3>2, JoinedElements
    <3>6. f[(n + 1) + 1] \in Seq(S)
      BY <3>2, <3>3
    <3> HIDE DEF Below
    <3> QED BY <3>1, <3>2, <3>3, <3>4, <3>5, <3>6
  <2>7. \A n \in 0..N : n \in T
    <3> HIDE DEF T, N
    <3> QED BY <2>4, <2>5, <2>6, RangeInduction
  <2>8. N \in T /\ N + 1 = Len(seqs)
    <3> HIDE DEF T
    <3> QED BY <2>4, <2>7
  <2> QED BY <2>1, <2>8
<1> QED
  BY <1>1, <1>2

\* What holds of the empty sequence and stays when one more is appended.
LEMMA FlattenStays ==
  ASSUME NEW S, NEW seqs \in Seq(Seq(S)), NEW P \in SUBSET Seq(S), <<>> \in P,
         \A s \in P : \A i \in 1..Len(seqs) : s \o seqs[i] \in P
  PROVE  FlattenSeq(seqs) \in P
<1>1. CASE Len(seqs) = 0
  <2>1. seqs = <<>>
    BY <1>1
  <2> QED BY <2>1 DEF FlattenSeq
<1>2. CASE Len(seqs) # 0
  <2> DEFINE f == CHOOSE f : Flattens(seqs, f)
             N == Len(seqs) - 1
             T == {n \in 0..N : f[n + 1] \in P}
  <2>1. FlattenSeq(seqs) = f[Len(seqs)]
    BY <1>2 DEF FlattenSeq, Flattens
  <2>2. Flattens(seqs, f)
    BY <1>2, FlattenExists
  <2>3. \A i \in 1..Len(seqs) : f[i] = IF i = 1 THEN seqs[i] ELSE f[i - 1] \o seqs[i]
    <3> HIDE DEF f
    <3> QED BY <2>2 DEF Flattens
  <2> HIDE DEF f
  <2>4. N \in Nat /\ \A i \in 1..Len(seqs) : seqs[i] \in Seq(S)
    BY <1>2
  <2>5. 0 \in T
    <3>1. 1 \in 1..Len(seqs) /\ f[1] = seqs[1]
      BY <1>2, <2>3
    <3>2. seqs[1] \in Seq(S)
      BY <2>4, <3>1
    <3>3. <<>> \o seqs[1] = seqs[1]
      BY <3>2
    <3>4. <<>> \o seqs[1] \in P
      BY <3>1
    <3> QED BY <2>4, <3>1, <3>3, <3>4
  <2>6. ASSUME NEW n \in 0..(N - 1), n \in T PROVE n + 1 \in T
    <3>1. /\ n + 1 \in 0..N /\ (n + 1) + 1 \in 1..Len(seqs)
          /\ (n + 1) + 1 # 1 /\ ((n + 1) + 1) - 1 = n + 1
      BY <2>4
    <3>2. f[(n + 1) + 1] = f[n + 1] \o seqs[(n + 1) + 1]
      BY <2>3, <3>1
    <3> QED BY <2>6, <3>1, <3>2
  <2>7. \A n \in 0..N : n \in T
    <3> HIDE DEF T, N
    <3> QED BY <2>4, <2>5, <2>6, RangeInduction
  <2>8. N \in T /\ N + 1 = Len(seqs)
    <3> HIDE DEF T
    <3> QED BY <2>4, <2>7
  <2> QED BY <2>1, <2>8
<1> QED
  BY <1>1, <1>2

\* Where the elements of each sequence are.
LEMMA FlattenAt ==
  ASSUME NEW S, NEW seqs \in Seq(Seq(S))
  PROVE  \E off \in [0..Len(seqs) -> Nat] :
           /\ off[0] = 0
           /\ \A i \in 1..Len(seqs) : off[i] = off[i - 1] + Len(seqs[i])
           /\ Len(FlattenSeq(seqs)) = off[Len(seqs)]
           /\ \A i \in 1..Len(seqs) : \A j \in 1..Len(seqs[i]) :
                /\ off[i - 1] + j \in 1..Len(FlattenSeq(seqs))
                /\ FlattenSeq(seqs)[off[i - 1] + j] = seqs[i][j]
<1>1. CASE Len(seqs) = 0
  <2>1. seqs = <<>>
    BY <1>1
  <2>2. FlattenSeq(seqs) = <<>>
    BY <1>1, <2>1 DEF FlattenSeq
  <2> DEFINE off == [i \in 0..Len(seqs) |-> 0]
  <2>3. off \in [0..Len(seqs) -> Nat] /\ off[0] = 0 /\ off[Len(seqs)] = 0
    BY <1>1
  <2>4. 1..Len(seqs) = {} /\ Len(FlattenSeq(seqs)) = 0
    BY <1>1, <2>2
  <2> HIDE DEF off
  <2> QED BY <2>3, <2>4
<1>2. CASE Len(seqs) # 0
  <2> DEFINE f == CHOOSE f : Flattens(seqs, f)
             N == Len(seqs) - 1
  <2>1. FlattenSeq(seqs) = f[Len(seqs)]
    BY <1>2 DEF FlattenSeq, Flattens
  <2>2. Flattens(seqs, f)
    BY <1>2, FlattenExists
  <2>3. \A i \in 1..Len(seqs) : f[i] = IF i = 1 THEN seqs[i] ELSE f[i - 1] \o seqs[i]
    <3> HIDE DEF f
    <3> QED BY <2>2 DEF Flattens
  <2> HIDE DEF f
  <2>4. /\ N \in Nat /\ N + 1 = Len(seqs) /\ Len(seqs) \in Nat
        /\ \A i \in 1..Len(seqs) : seqs[i] \in Seq(S) /\ Len(seqs[i]) \in Nat
    BY <1>2
  <2> DEFINE off == [i \in 0..Len(seqs) |-> IF i = 0 THEN 0 ELSE Len(f[i])]
             Right(n) == /\ f[n] \in Seq(S)
                         /\ \A i \in 1..n : \A j \in 1..Len(seqs[i]) :
                              off[i - 1] + j \in 1..Len(f[n]) /\ f[n][off[i - 1] + j] = seqs[i][j]
             T == {n \in 0..N : Right(n + 1)}
  <2>5. off[0] = 0 /\ \A i \in 1..Len(seqs) : off[i] = Len(f[i])
    BY <2>4
  <2> HIDE DEF off
  <2>6. 0 \in T
    <3>1. f[1] = seqs[1] /\ seqs[1] \in Seq(S) /\ 1..1 = {1} /\ Len(seqs[1]) \in Nat
      BY <1>2, <2>3, <2>4
    <3>2. ASSUME NEW j \in 1..Len(seqs[1])
          PROVE  off[1 - 1] + j \in 1..Len(f[1]) /\ f[1][off[1 - 1] + j] = seqs[1][j]
      <4>1. off[1 - 1] + j = j
        BY <2>5, <3>1
      <4> QED BY <3>1, <4>1
    <3>3. Right(1)
      BY <3>1, <3>2
    <3> HIDE DEF Right
    <3> QED BY <2>4, <3>3
  <2>7. ASSUME NEW n \in 0..(N - 1), n \in T PROVE n + 1 \in T
    <3>1. /\ n + 1 \in 0..N /\ n + 1 \in 1..Len(seqs) /\ (n + 1) + 1 \in 1..Len(seqs)
          /\ (n + 1) + 1 # 1 /\ ((n + 1) + 1) - 1 = n + 1
          /\ 1..((n + 1) + 1) = (1..(n + 1)) \cup {(n + 1) + 1}
      BY <2>4
    <3> DEFINE k == n + 1
               t == seqs[k + 1]
               u == f[k + 1]
    <3>2. Right(k)
      BY <2>7
    <3>3. /\ f[k] \in Seq(S) /\ t \in Seq(S) /\ u = f[k] \o t
          /\ Len(t) \in Nat /\ Len(f[k]) \in Nat
      <4>1. f[k] \in Seq(S)
        BY <3>2
      <4>2. t \in Seq(S) /\ Len(t) \in Nat
        BY <2>4, <3>1
      <4>3. u = f[k] \o t
        BY <2>3, <3>1
      <4> QED BY <4>1, <4>2, <4>3
    <3>4. off[k] = Len(f[k])
      BY <2>5, <3>1
    <3>5. k + 1 - 1 = k /\ k \in Nat
      BY <3>1
    <3>6. ASSUME NEW i \in 1..(k + 1), NEW j \in 1..Len(seqs[i])
          PROVE  off[i - 1] + j \in 1..Len(u) /\ u[off[i - 1] + j] = seqs[i][j]
      <4>1. CASE i = k + 1
        <5>1. off[i - 1] + j = Len(f[k]) + j /\ j \in 1..Len(t) /\ seqs[i][j] = t[j]
          BY <3>4, <3>5, <4>1
        <5> DEFINE g == f[k]
        <5>2. g \in Seq(S) /\ t \in Seq(S)
          BY <3>3
        <5> HIDE DEF g, t, k
        <5>3. Len(g) + j \in 1..Len(g \o t) /\ (g \o t)[Len(g) + j] = t[j]
          BY <5>1, <5>2
        <5> QED BY <3>3, <5>1, <5>3 DEF g
      <4>2. CASE i # k + 1
        <5>1. i \in 1..k
          BY <3>5, <4>2
        <5> DEFINE x == off[i - 1] + j
                   g == f[k]
        <5>2. x \in 1..Len(g) /\ g[x] = seqs[i][j]
          BY <3>2, <5>1
        <5>3. g \in Seq(S) /\ t \in Seq(S)
          BY <3>3
        <5> HIDE DEF x, g, t, k
        <5>4. x \in 1..Len(g \o t) /\ (g \o t)[x] = g[x]
          BY <5>2, <5>3
        <5> QED BY <3>3, <5>2, <5>4 DEF g, x
      <4> QED BY <4>1, <4>2
    <3>7. u \in Seq(S)
      <4> HIDE DEF t, u, k
      <4> QED BY <3>3
    <3>8. Right(k + 1)
      BY <3>6, <3>7
    <3> HIDE DEF Right
    <3> QED BY <3>1, <3>8
  <2>8. \A n \in 0..N : n \in T
    <3> HIDE DEF T, N
    <3> QED BY <2>4, <2>6, <2>7, RangeInduction
  <2>9. \A n \in 1..Len(seqs) : Right(n)
    <3> TAKE n \in 1..Len(seqs)
    <3>1. n - 1 \in 0..N /\ (n - 1) + 1 = n
      BY <2>4
    <3> HIDE DEF Right, N
    <3>2. Right((n - 1) + 1)
      BY <2>8, <3>1
    <3> QED BY <3>1, <3>2
  <2>10. \A n \in 1..Len(seqs) : f[n] \in Seq(S) /\ Len(f[n]) \in Nat
    BY <2>9
  <2>11. off \in [0..Len(seqs) -> Nat]
    BY <2>10, <2>4 DEF off
  <2>12. ASSUME NEW i \in 1..Len(seqs) PROVE off[i] = off[i - 1] + Len(seqs[i])
    <3>1. CASE i = 1
      <4>1. off[1] = Len(seqs[1]) /\ Len(seqs[1]) \in Nat /\ 1 - 1 = 0
        BY <2>3, <2>4, <2>5, <3>1
      <4> QED BY <2>5, <3>1, <4>1
    <3>2. CASE i # 1
      <4>0. i - 1 \in 1..Len(seqs)
        BY <2>4, <3>2
      <4>1. i - 1 \in 1..Len(seqs) /\ f[i] = f[i - 1] \o seqs[i]
        BY <2>3, <3>2, <4>0
      <4>2. Len(f[i]) = Len(f[i - 1]) + Len(seqs[i])
        BY <2>4, <2>10, <4>1
      <4> QED BY <2>5, <4>1, <4>2
    <3> QED BY <3>1, <3>2
  <2>13. Len(seqs) \in 1..Len(seqs)
    BY <2>4
  <2>14. /\ off[Len(seqs)] = Len(FlattenSeq(seqs))
         /\ Right(Len(seqs))
    <3> HIDE DEF Right
    <3> QED BY <2>1, <2>5, <2>9, <2>13
  <2>15. \A i \in 1..Len(seqs) : \A j \in 1..Len(seqs[i]) :
            /\ off[i - 1] + j \in 1..Len(FlattenSeq(seqs))
            /\ FlattenSeq(seqs)[off[i - 1] + j] = seqs[i][j]
    BY <2>1, <2>14
  <2> HIDE DEF Right
  <2> QED BY <2>5, <2>11, <2>12, <2>14, <2>15
<1> QED
  BY <1>1, <1>2

---------------------------------------------------------------------------
(* The order of definitions: what remains after each layer.                  *)
LEMMA RemainingExists ==
  ASSUME NEW deps, IsFiniteSet(DefsOf(deps))
  PROVE  /\ Remaining(deps)[0] = DefsOf(deps)
         /\ \A n \in 1..Cardinality(DefsOf(deps)) :
              Remaining(deps)[n] = Remaining(deps)[n - 1] \ Ready(deps, Remaining(deps)[n - 1])
<1> DEFINE D == DefsOf(deps)
           N == Cardinality(D)
           rest(S) == S \ Ready(deps, S)
           Upto(f) == f = [n \in 0..N |-> IF n = 0 THEN D ELSE rest(f[n - 1])]
           left == CHOOSE f : Upto(f)
           step == [S \in SUBSET D |-> rest(S)]
<1>1. Remaining(deps) = left
  BY DEF Remaining
<1>2. N \in Nat
  BY FS_CardinalityType
<1>3. \A S \in SUBSET D : rest(S) \in SUBSET D /\ step[S] = rest(S)
  OBVIOUS
<1>4. PICK g : Iterates(N, step, D, g)
  <2> HIDE DEF N, step, D
  <2> QED BY <1>2, IterationExists
<1>5. \A n \in 0..N : g[n] = IF n = 0 THEN D ELSE step[g[n - 1]]
  <2> HIDE DEF N, step, D
  <2> QED BY <1>4 DEF Iterates
<1>6. \A n \in 0..N : n # 0 => n - 1 \in 0..N
  BY <1>2
<1>7. \A n \in 0..N : g[n] \in SUBSET D
  <2> DEFINE T == {n \in 0..N : g[n] \in SUBSET D}
  <2> HIDE DEF N, step, D, rest
  <2>1. 0 \in T
    BY <1>2, <1>5
  <2>2. ASSUME NEW n \in 0..(N - 1), n \in T PROVE n + 1 \in T
    <3>1. n + 1 \in 0..N /\ n + 1 # 0 /\ (n + 1) - 1 = n
      BY <1>2
    <3>2. g[n + 1] = step[g[n]] /\ g[n] \in SUBSET D
      BY <1>5, <2>2, <3>1
    <3> QED BY <1>3, <3>1, <3>2
  <2>3. \A n \in 0..N : n \in T
    <3> HIDE DEF T
    <3> QED BY <1>2, <2>1, <2>2, RangeInduction
  <2> QED BY <2>3
<1>8. Upto(g)
  <2> DEFINE h == [n \in 0..N |-> IF n = 0 THEN D ELSE rest(g[n - 1])]
  <2> HIDE DEF N, step, D, rest
  <2>1. \A n \in 0..N : h[n] = g[n]
    BY <1>3, <1>5, <1>6, <1>7
  <2>2. g = [n \in 0..N |-> g[n]]
    BY <1>4 DEF Iterates
  <2>3. h = [n \in 0..N |-> h[n]]
    OBVIOUS
  <2> HIDE DEF h
  <2>4. g = h
    BY <2>1, <2>2, <2>3
  <2> QED BY <2>4 DEF h
<1>9. Upto(left)
  <2> HIDE DEF Upto
  <2> QED BY <1>8
<1>10. \A n \in 0..N : left[n] = IF n = 0 THEN D ELSE rest(left[n - 1])
  <2> HIDE DEF left, N, D, rest
  <2> QED BY <1>9
<1> HIDE DEF left, N, D, rest
<1>11. left[0] = D
  BY <1>2, <1>10
<1>12. \A n \in 1..N : left[n] = rest(left[n - 1])
  BY <1>2, <1>10
<1> QED
  BY <1>1, <1>11, <1>12 DEF N, D, rest

\* What is no longer left is in one of the layers so far.
LEMMA LayersOrdered ==
  ASSUME NEW deps, IsFiniteSet(DefsOf(deps))
  PROVE  DepsEarlier(order_defs_with_deps(deps), deps)
<1> DEFINE D == DefsOf(deps)
           N == Cardinality(D)
           L == Remaining(deps)
           layers == order_defs_with_deps(deps)
           Gone(x, n) == \E m \in 1..n : x \in Ready(deps, L[m - 1])
           T == {n \in 0..N : \A x \in D : x \in L[n] \/ Gone(x, n)}
<1>1. N \in Nat
  BY FS_CardinalityType
<1>2. L[0] = D /\ \A n \in 1..N : L[n] = L[n - 1] \ Ready(deps, L[n - 1])
  BY RemainingExists
<1>3. layers = [n \in 1..N |-> Ready(deps, L[n - 1]) \cap DOMAIN deps]
  BY DEF order_defs_with_deps
<1> HIDE DEF N, L, layers, D
<1>4. 0 \in T
  BY <1>1, <1>2
<1>5. ASSUME NEW n \in 0..(N - 1), n \in T PROVE n + 1 \in T
  <2>1. n + 1 \in 1..N /\ n + 1 \in 0..N /\ (n + 1) - 1 = n /\ n \in 0..N
    BY <1>1
  <2>2. L[n + 1] = L[n] \ Ready(deps, L[n])
    BY <1>2, <2>1
  <2>3. ASSUME NEW x \in D PROVE x \in L[n + 1] \/ Gone(x, n + 1)
    <3>1. CASE x \in Ready(deps, L[n])
      BY <2>1, <3>1
    <3>2. CASE Gone(x, n)
      <4>1. PICK m \in 1..n : x \in Ready(deps, L[m - 1])
        BY <3>2
      <4>2. m \in 1..(n + 1)
        BY <1>1, <4>1
      <4> QED BY <4>1, <4>2
    <3>3. CASE x \in L[n] /\ x \notin Ready(deps, L[n])
      BY <2>2, <3>3
    <3> QED BY <1>5, <2>1, <3>1, <3>2, <3>3
  <2> QED BY <2>1, <2>3
<1>6. \A n \in 0..N : n \in T
  <2> HIDE DEF T
  <2> QED BY <1>1, <1>4, <1>5, RangeInduction
<1>7. ASSUME NEW n \in DOMAIN layers, NEW d \in layers[n]
      PROVE  DepsOf(deps, d) \cap DOMAIN deps \subseteq UNION {layers[m] : m \in 1..(n - 1)}
  <2> SUFFICES ASSUME NEW e \in DepsOf(deps, d) \cap DOMAIN deps
               PROVE  \E m \in 1..(n - 1) : e \in layers[m]
    OBVIOUS
  <2>1. n \in 1..N /\ n - 1 \in 0..N
    BY <1>1, <1>3, <1>7
  <2>2. d \in Ready(deps, L[n - 1])
    BY <1>3, <1>7, <2>1
  <2>3. e \notin L[n - 1] /\ e \in D
    BY <2>2 DEF Ready, DefsOf, D
  <2>4. PICK m \in 1..(n - 1) : e \in Ready(deps, L[m - 1])
    BY <1>6, <2>1, <2>3
  <2>5. m \in 1..N
    BY <1>1, <2>1, <2>4
  <2>6. layers[m] = Ready(deps, L[m - 1]) \cap DOMAIN deps
    BY <1>3, <2>5
  <2> QED BY <2>4, <2>6
<1> QED
  BY <1>7 DEF DepsEarlier, layers

\* Unless there is a cycle, every definition is in a layer.
LEMMA LayersComplete ==
  ASSUME NEW deps, IsFiniteSet(DefsOf(deps)), ~cyclic(deps), NEW d \in DOMAIN deps
  PROVE  \E n \in DOMAIN order_defs_with_deps(deps) : d \in order_defs_with_deps(deps)[n]
<1> DEFINE D == DefsOf(deps)
           N == Cardinality(D)
           L == Remaining(deps)
           Gone(n) == \E m \in 1..n : d \in Ready(deps, L[m - 1])
           T == {n \in 0..N : d \in L[n] \/ Gone(n)}
<1>1. N \in Nat
  BY FS_CardinalityType
<1>2. L[0] = D /\ \A n \in 1..N : L[n] = L[n - 1] \ Ready(deps, L[n - 1])
  BY RemainingExists
<1>3. order_defs_with_deps(deps) = [n \in 1..N |-> Ready(deps, L[n - 1]) \cap DOMAIN deps]
  BY DEF order_defs_with_deps
<1>4. L[N] = {}
  BY DEF cyclic
<1>5. d \in D
  BY DEF DefsOf
<1> HIDE DEF N, L, D
<1>6. 0 \in T
  BY <1>1, <1>2, <1>5
<1>7. ASSUME NEW n \in 0..(N - 1), n \in T PROVE n + 1 \in T
  <2>1. n + 1 \in 1..N /\ n + 1 \in 0..N /\ (n + 1) - 1 = n
    BY <1>1
  <2>2. L[n + 1] = L[n] \ Ready(deps, L[n])
    BY <1>2, <2>1
  <2>3. CASE Gone(n)
    <3>1. PICK m \in 1..n : d \in Ready(deps, L[m - 1])
      BY <2>3
    <3>2. m \in 1..(n + 1)
      BY <1>1, <3>1
    <3> QED BY <2>1, <3>1, <3>2
  <2>4. CASE d \in Ready(deps, L[n])
    <3>1. n + 1 \in 1..(n + 1)
      BY <2>1
    <3> QED BY <2>1, <2>4, <3>1
  <2> QED BY <1>7, <2>1, <2>2, <2>3, <2>4
<1>8. \A n \in 0..N : n \in T
  <2> HIDE DEF T
  <2> QED BY <1>1, <1>6, <1>7, RangeInduction
<1>9. PICK m \in 1..N : d \in Ready(deps, L[m - 1])
  BY <1>1, <1>4, <1>8
<1> QED
  BY <1>3, <1>9

=============================================================================
