----------------------- MODULE RegionTranslation_proofs -----------------------
(* The caches of the inclusion tracker are right whenever they are not       *)
(* marked invalid, for all bodies.                                           *)
EXTENDS RegionTranslation, FixedPoints

---------------------------------------------------------------------------
(* What compute_transitive_closure returns: the least set of facts above the *)
(* given ones that nothing can be derived from.                              *)
LEMMA FactFinite == IsFiniteSet(Fact)
<1>1. IsFiniteSet(Region) /\ IsFiniteSet(Location)
  BY TrackerAssumption
<1>2. IsFiniteSet({"Start", "Mid"})
  <2>1. IsFiniteSet({"Start"})
    BY FS_Singleton
  <2>2. IsFiniteSet({"Start"} \cup {"Mid"})
    BY <2>1, FS_AddElement
  <2>3. {"Start"} \cup {"Mid"} = {"Start", "Mid"}
    OBVIOUS
  <2> QED BY <2>2, <2>3
<1>3. IsFiniteSet((Region \X Region) \X Point)
  <2>1. IsFiniteSet(Region \X Region)
    BY <1>1, FS_Product
  <2>2. IsFiniteSet(Point)
    BY <1>1, <1>2, FS_Product DEF Point
  <2> QED BY <2>1, <2>2, FS_Product
<1> DEFINE f == [x \in (Region \X Region) \X Point |-> <<x[1][1], x[1][2], x[2]>>]
<1>4. f \in Surjection((Region \X Region) \X Point, Fact)
  <2>1. f \in [(Region \X Region) \X Point -> Fact]
    BY DEF Fact
  <2>2. ASSUME NEW y \in Fact PROVE \E x \in (Region \X Region) \X Point : f[x] = y
    <3>1. PICK r1 \in Region, r2 \in Region, p \in Point : y = <<r1, r2, p>>
      BY DEF Fact
    <3>2. <<<<r1, r2>>, p>> \in (Region \X Region) \X Point
      OBVIOUS
    <3>3. f[<<<<r1, r2>>, p>>] = y
      BY <3>1, <3>2
    <3> QED BY <3>2, <3>3
  <2> HIDE DEF f
  <2> QED BY <2>1, <2>2 DEF Surjection
<1> HIDE DEF f
<1> QED
  BY <1>3, <1>4, FS_Surjection

\* An inclusion at a point, and the two ways to get one.
LEMMA FactParts ==
  ASSUME NEW x \in Fact
  PROVE  x[1] \in Region /\ x[2] \in Region /\ x[3] \in Point
  BY DEF Fact

LEMMA EdgesOfPoints ==
  ASSUME NEW e \in cfg_edge
  PROVE  e[1] \in Point /\ e[2] \in Point
  BY TrackerAssumption DEF cfg_edge, Start, Mid, Point

LEMMA ExtendedGrows ==
  ASSUME NEW B, NEW S \in SUBSET Fact
  PROVE  /\ Extended(S, B) \in SUBSET Fact
         /\ S \subseteq Extended(S, B)
<1>1. Moved(S, B) \subseteq Fact
  <2>1. ASSUME NEW e \in cfg_edge, NEW x \in Holding(S, e[1])
        PROVE  <<x[1], x[2], e[2]>> \in Fact
    <3>1. x \in Fact
      BY DEF Holding
    <3>2. PICK r1, r2, p : r1 = x[1] /\ r2 = x[2] /\ p = e[2]
      OBVIOUS
    <3>3. r1 \in Region /\ r2 \in Region /\ p \in Point
      BY <3>1, <3>2, FactParts, EdgesOfPoints
    <3>4. <<r1, r2, p>> \in Fact
      BY ONLY <3>3 DEF Fact
    <3> QED BY <3>2, <3>4
  <2>2. ASSUME NEW z \in Moved(S, B) PROVE z \in Fact
    <3>1. PICK e \in cfg_edge : \E x \in Holding(S, e[1]) : z = <<x[1], x[2], e[2]>>
      BY DEF Moved
    <3> QED BY <2>1, <3>1
  <2> QED BY <2>2
<1>2. ASSUME NEW p \in Point PROVE Composed(S, p) \subseteq Fact
  <2>1. ASSUME NEW x \in Holding(S, p), NEW y \in Holding(S, p) PROVE <<x[1], y[2], p>> \in Fact
    <3>1. x \in Fact /\ y \in Fact
      BY DEF Holding
    <3>2. PICK r1, r2 : r1 = x[1] /\ r2 = y[2]
      OBVIOUS
    <3>3. r1 \in Region /\ r2 \in Region
      BY <3>1, <3>2, FactParts
    <3>4. <<r1, r2, p>> \in Fact
      BY <3>3 DEF Fact
    <3> QED BY <3>2, <3>4
  <2> QED BY <2>1 DEF Composed
<1> QED
  BY <1>1, <1>2 DEF Extended

LEMMA ExtendedMonotone ==
  ASSUME NEW B, NEW T, NEW S \in SUBSET T
  PROVE  Extended(S, B) \subseteq Extended(T, B)
<1>1. \A p : Holding(S, p) \subseteq Holding(T, p)
  BY DEF Holding
<1>2. Moved(S, B) \subseteq Moved(T, B)
  <2> DEFINE over(R, e) == {<<x[1], x[2], e[2]>> :
                              x \in {y \in Holding(R, e[1]) : /\ <<y[1], e[2]>> \notin B
                                                             /\ <<y[2], e[2]>> \notin B}}
  <2>1. /\ Moved(S, B) = UNION {over(S, e) : e \in cfg_edge}
        /\ Moved(T, B) = UNION {over(T, e) : e \in cfg_edge}
    BY DEF Moved
  <2>2. ASSUME NEW e PROVE over(S, e) \subseteq over(T, e)
    BY <1>1
  <2> HIDE DEF over
  <2> QED BY <2>1, <2>2
<1>3. ASSUME NEW p PROVE Composed(S, p) \subseteq Composed(T, p)
  BY <1>1 DEF Composed
<1>4. ASSUME NEW x \in Extended(S, B) PROVE x \in Extended(T, B)
  <2>1. CASE x \in S
    BY <2>1 DEF Extended
  <2>2. CASE x \in Moved(S, B)
    BY <1>2, <2>2 DEF Extended
  <2>3. CASE \E p \in Point : x \in Composed(S, p)
    BY <1>3, <2>3 DEF Extended
  <2> QED BY <2>1, <2>2, <2>3 DEF Extended
<1> QED
  BY <1>4

LEMMA ClosureLeast ==
  ASSUME NEW B, NEW base \in SUBSET Fact
  PROVE  /\ compute_transitive_closure(base, B) \in SUBSET Fact
         /\ base \subseteq compute_transitive_closure(base, B)
         /\ \A C \in SUBSET Fact :
              base \subseteq C /\ Extended(C, B) = C => compute_transitive_closure(base, B) \subseteq C
         /\ Extended(compute_transitive_closure(base, B), B) = compute_transitive_closure(base, B)
<1> DEFINE step == [S \in SUBSET Fact |-> Extended(S, B)]
           Sat(f) == f = [S \in SUBSET Fact |-> IF Extended(S, B) = S THEN S ELSE f[Extended(S, B)]]
           cl == CHOOSE f : Sat(f)
<1>1. compute_transitive_closure(base, B) = cl[base]
  BY DEF compute_transitive_closure
<1>2. Inflationary(Fact, step)
  <2>1. \A S \in SUBSET Fact : Extended(S, B) \in SUBSET Fact /\ S \subseteq Extended(S, B)
    BY ExtendedGrows
  <2>2. step \in [SUBSET Fact -> SUBSET Fact]
    BY <2>1
  <2>3. \A S \in SUBSET Fact : S \subseteq step[S]
    BY <2>1
  <2> HIDE DEF step
  <2> QED BY <2>2, <2>3 DEF Inflationary
<1>3. ASSUME NEW f
      PROVE  Sat(f) <=> Saturates(Fact, step, f)
  <2>1. \A S \in SUBSET Fact : step[S] = Extended(S, B)
    OBVIOUS
  <2>2. [S \in SUBSET Fact |-> IF Extended(S, B) = S THEN S ELSE f[Extended(S, B)]]
          = [S \in SUBSET Fact |-> IF step[S] = S THEN S ELSE f[step[S]]]
    <3> HIDE DEF step
    <3> QED BY <2>1
  <2> HIDE DEF step
  <2> QED BY <2>2 DEF Saturates
<1>4. Saturates(Fact, step, cl)
  <2>1. \E f : Saturates(Fact, step, f)
    <3> HIDE DEF step
    <3> QED BY <1>2, FactFinite, SaturationExists
  <2> HIDE DEF step, Sat
  <2>2. \E f : Sat(f)
    BY <1>3, <2>1
  <2>3. Sat(cl)
    BY <2>2
  <2> QED BY <1>3, <2>3
<1>6. LeastFixedPoint(Fact, step, base, cl[base])
  <2> HIDE DEF step, cl
  <2> QED BY <1>2, <1>4, FactFinite, SaturationFixed
<1>7. \A C \in SUBSET Fact : Extended(C, B) = C => ClosedUnder(step, C)
  <2> TAKE C \in SUBSET Fact
  <2> HAVE Extended(C, B) = C
  <2>1. \A S \in SUBSET C : step[S] = Extended(S, B) /\ Extended(S, B) \subseteq Extended(C, B)
    BY ExtendedMonotone
  <2> QED BY <2>1 DEF ClosedUnder
<1>8. cl[base] \in SUBSET Fact => step[cl[base]] = Extended(cl[base], B)
  <2> HIDE DEF cl
  <2> QED OBVIOUS
<1> HIDE DEF step, cl
<1> QED
  BY <1>1, <1>6, <1>7, <1>8 DEF LeastFixedPoint

LEMMA ClosureMonotone ==
  ASSUME NEW B, NEW T \in SUBSET Fact, NEW S \in SUBSET T
  PROVE  compute_transitive_closure(S, B) \subseteq compute_transitive_closure(T, B)
<1> DEFINE cl(X) == compute_transitive_closure(X, B)
<1>1. S \in SUBSET Fact /\ S \subseteq cl(T) /\ cl(T) \in SUBSET Fact /\ Extended(cl(T), B) = cl(T)
  BY ClosureLeast
<1>2. \A C \in SUBSET Fact : S \subseteq C /\ Extended(C, B) = C => cl(S) \subseteq C
  BY <1>1, ClosureLeast
<1> HIDE DEF cl
<1>3. cl(S) \subseteq cl(T)
  BY <1>1, <1>2
<1> QED
  BY <1>3 DEF cl

(* What follows from some facts follows also from these and some of those    *)
(* that follow, and nothing else does.                                       *)
LEMMA ClosureAbsorbs ==
  ASSUME NEW B, NEW S \in SUBSET Fact, NEW T, S \subseteq T,
         T \subseteq compute_transitive_closure(S, B)
  PROVE  compute_transitive_closure(T, B) = compute_transitive_closure(S, B)
<1> DEFINE cl(X) == compute_transitive_closure(X, B)
<1>1. cl(S) \in SUBSET Fact /\ Extended(cl(S), B) = cl(S) /\ T \subseteq cl(S)
  BY ClosureLeast
<1>2. T \in SUBSET Fact
  BY <1>1
<1>3. \A C \in SUBSET Fact : T \subseteq C /\ Extended(C, B) = C => cl(T) \subseteq C
  BY <1>2, ClosureLeast
<1>4. cl(S) \subseteq cl(T)
  BY <1>2, ClosureMonotone
<1> HIDE DEF cl
<1>5. cl(T) = cl(S)
  BY <1>1, <1>3, <1>4
<1> QED
  BY <1>5 DEF cl

---------------------------------------------------------------------------
(* The trackers the translation can have.  A cache is empty or one set.      *)
(*   - Dynamic inclusions are computed after the static ones.                *)
(*   - Unless a barrier was added since, what the static cache holds does    *)
(*     follow from the base facts: a recomputation may start from it.        *)
(*   - Unless something was added since, it is all that follows, and the     *)
(*     full cache holds all that follows from the dynamic facts as well.     *)
IsCacheOf(c) == c = {} \/ \E X \in SUBSET Fact : c = {X}

TrackerRecord ==
  [static_incl_base : SUBSET Fact, dynamic_incl_base : SUBSET Fact,
   static_incl : SUBSET SUBSET Fact, full_incl : SUBSET SUBSET Fact, barriers : SUBSET Barrier,
   fully_invalidated : BOOLEAN, invalidated : BOOLEAN]

Follow(t) == compute_transitive_closure(t.static_incl_base, t.barriers)
FollowAll(t) == compute_transitive_closure(Base(t), t.barriers)

CachesRight(t) ==
  /\ IsCacheOf(t.static_incl) /\ IsCacheOf(t.full_incl)
  /\ t.full_incl # {} => t.static_incl # {}
  /\ ~t.fully_invalidated => UNION t.static_incl \subseteq Follow(t)
  /\ ~t.invalidated /\ t.static_incl # {} => t.static_incl = {Follow(t)}
  /\ ~t.invalidated /\ t.full_incl # {} => FollowAll(t) \subseteq UNION t.full_incl

Trackers == {t \in TrackerRecord : CachesRight(t)}

LEMMA NewTracker == new \in Trackers
<1>1. new \in TrackerRecord
  BY DEF new, TrackerRecord
<1>2. CachesRight(new)
  BY DEF new, CachesRight, IsCacheOf
<1> QED
  BY <1>1, <1>2 DEF Trackers

(* Adding facts marks the caches as invalid, and what follows only grows.    *)
LEMMA IncludeAllOk ==
  ASSUME NEW t \in Trackers, NEW S \in SUBSET Fact
  PROVE  include_all(t, S) \in Trackers
<1> DEFINE u == [t EXCEPT !.static_incl_base = @ \cup S, !.invalidated = TRUE]
<1>1. t \in TrackerRecord /\ CachesRight(t)
  BY DEF Trackers
<1>2. /\ u \in TrackerRecord
      /\ u.static_incl_base = t.static_incl_base \cup S /\ u.invalidated
      /\ u.static_incl = t.static_incl /\ u.full_incl = t.full_incl
      /\ u.barriers = t.barriers /\ u.fully_invalidated = t.fully_invalidated
  BY <1>1 DEF TrackerRecord
<1>3. Follow(t) \subseteq Follow(u)
  <2>1. u.static_incl_base \in SUBSET Fact /\ t.static_incl_base \in SUBSET u.static_incl_base
    BY <1>2 DEF TrackerRecord
  <2> HIDE DEF u
  <2> QED BY <1>2, <2>1, ClosureMonotone DEF Follow
<1>4. CachesRight(u)
  <2> HIDE DEF u
  <2> QED BY <1>1, <1>2, <1>3 DEF CachesRight
<1>5. include_all(t, S) = IF S = {} THEN t ELSE u
  BY DEF include_all
<1> QED
  BY <1>2, <1>4, <1>5 DEF Trackers

LEMMA AddStaticOk ==
  ASSUME NEW t \in Trackers, NEW a, NEW b, NEW p, <<a, b, p>> \in Fact
  PROVE  add_static_inclusion(t, a, b, p) \in Trackers
<1>1. add_static_inclusion(t, a, b, p) = include_all(t, {<<a, b, p>>})
  BY DEF add_static_inclusion, include_all
<1> QED
  BY <1>1, IncludeAllOk

LEMMA FactReversed ==
  ASSUME NEW a, NEW b, NEW p, <<a, b, p>> \in Fact
  PROVE  <<b, a, p>> \in Fact
  BY DEF Fact

LEMMA AddEqualityOk ==
  ASSUME NEW t \in Trackers, NEW a, NEW b, NEW p, <<a, b, p>> \in Fact
  PROVE  add_static_equality(t, a, b, p) \in Trackers
  BY AddStaticOk, FactReversed DEF add_static_equality

LEMMA EquateAllOk ==
  ASSUME NEW t \in Trackers, NEW S \in SUBSET Fact
  PROVE  equate_all(t, S) \in Trackers
<1>1. Reversed(S) \subseteq Fact
  BY DEF Reversed, Fact
<1> QED
  BY <1>1, IncludeAllOk DEF equate_all

LEMMA AddDynamicOk ==
  ASSUME NEW t \in Trackers, NEW a, NEW b, NEW p, <<a, b, p>> \in Fact
  PROVE  add_dynamic_inclusion(t, a, b, p) \in Trackers
<1> DEFINE u == add_dynamic_inclusion(t, a, b, p)
<1>1. t \in TrackerRecord /\ CachesRight(t)
  BY DEF Trackers
<1>2. /\ u \in TrackerRecord
      /\ u.static_incl_base = t.static_incl_base /\ u.invalidated
      /\ u.static_incl = t.static_incl /\ u.full_incl = t.full_incl
      /\ u.barriers = t.barriers /\ u.fully_invalidated = t.fully_invalidated
  BY <1>1 DEF TrackerRecord, add_dynamic_inclusion
<1> HIDE DEF u
<1>3. CachesRight(u)
  BY <1>1, <1>2 DEF CachesRight, Follow
<1>4. u \in Trackers
  BY <1>2, <1>3 DEF Trackers
<1> QED
  BY <1>4 DEF u

(* A barrier may undo what was derived: nothing of the caches is kept.       *)
LEMMA AddBarrierOk ==
  ASSUME NEW t \in Trackers, NEW r, NEW p, <<r, p>> \in Barrier
  PROVE  add_barrier(t, r, p) \in Trackers
<1> DEFINE u == add_barrier(t, r, p)
<1>1. t \in TrackerRecord /\ CachesRight(t)
  BY DEF Trackers
<1>2. /\ u \in TrackerRecord
      /\ u.static_incl = t.static_incl /\ u.full_incl = t.full_incl
      /\ u.fully_invalidated /\ u.invalidated
  BY <1>1 DEF TrackerRecord, add_barrier
<1> HIDE DEF u
<1>3. CachesRight(u)
  BY <1>1, <1>2 DEF CachesRight
<1>4. u \in Trackers
  BY <1>2, <1>3 DEF Trackers
<1> QED
  BY <1>4 DEF u

(* A recomputation yields what follows from the base facts, although it      *)
(* starts from what the cache holds.                                         *)
LEMMA RecomputeStaticOk ==
  ASSUME NEW t \in Trackers
  PROVE  /\ recompute_static_incl(t) \in TrackerRecord
         /\ recompute_static_incl(t).static_incl = {Follow(t)}
         /\ recompute_static_incl(t).static_incl_base = t.static_incl_base
         /\ recompute_static_incl(t).dynamic_incl_base = t.dynamic_incl_base
         /\ recompute_static_incl(t).full_incl = t.full_incl
         /\ recompute_static_incl(t).barriers = t.barriers
         /\ ~recompute_static_incl(t).fully_invalidated
         /\ ~recompute_static_incl(t).invalidated
<1> DEFINE kept == Reusable(t, t.static_incl)
           start == t.static_incl_base \cup kept
<1>1. t \in TrackerRecord /\ CachesRight(t)
  BY DEF Trackers
<1>2. t.static_incl_base \in SUBSET Fact
  BY <1>1 DEF TrackerRecord
<1>3. kept \subseteq Follow(t)
  BY <1>1 DEF CachesRight, Reusable
<1>4. t.static_incl_base \subseteq Follow(t) /\ Follow(t) \in SUBSET Fact
  BY <1>2, ClosureLeast DEF Follow
<1>5. compute_transitive_closure(start, t.barriers) = Follow(t)
  <2>1. t.static_incl_base \subseteq start
        /\ start \subseteq compute_transitive_closure(t.static_incl_base, t.barriers)
    BY <1>3, <1>4 DEF Follow
  <2> HIDE DEF start
  <2> QED BY <1>2, <2>1, ClosureAbsorbs DEF Follow
<1> DEFINE c == Follow(t)
<1>6. recompute_static_incl(t)
        = [t EXCEPT !.static_incl = {c}, !.fully_invalidated = FALSE, !.invalidated = FALSE]
  BY <1>5 DEF recompute_static_incl
<1>7. {c} \in SUBSET SUBSET Fact
  BY <1>4
<1> HIDE DEF c
<1>8. /\ recompute_static_incl(t) \in TrackerRecord
      /\ recompute_static_incl(t).static_incl = {c}
      /\ recompute_static_incl(t).static_incl_base = t.static_incl_base
      /\ recompute_static_incl(t).dynamic_incl_base = t.dynamic_incl_base
      /\ recompute_static_incl(t).full_incl = t.full_incl
      /\ recompute_static_incl(t).barriers = t.barriers
      /\ ~recompute_static_incl(t).fully_invalidated
      /\ ~recompute_static_incl(t).invalidated
  BY <1>1, <1>6, <1>7 DEF TrackerRecord
<1> QED
  BY <1>8 DEF c

LEMMA RefreshedOk ==
  ASSUME NEW t \in Trackers
  PROVE  /\ refreshed(t) \in Trackers
         /\ ~refreshed(t).invalidated /\ refreshed(t).static_incl # {}
<1> DEFINE s == recompute_static_incl(t)
           start == (UNION s.static_incl) \cup s.dynamic_incl_base \cup Reusable(s, s.full_incl)
           full == compute_transitive_closure(start, s.barriers)
           u == recompute(t)
<1>1. t \in TrackerRecord /\ CachesRight(t)
  BY DEF Trackers
<1>2. /\ s \in TrackerRecord /\ s.static_incl = {Follow(t)}
      /\ s.static_incl_base = t.static_incl_base /\ s.dynamic_incl_base = t.dynamic_incl_base
      /\ s.barriers = t.barriers
  BY RecomputeStaticOk
<1>3. /\ t.static_incl_base \in SUBSET Fact /\ Base(t) \in SUBSET Fact
      /\ t.static_incl_base \subseteq Follow(t) /\ Follow(t) \in SUBSET Fact
  BY <1>1, ClosureLeast DEF TrackerRecord, Follow, Base
<1>4. start \in SUBSET Fact /\ Base(t) \in SUBSET start
  <2> HIDE DEF s
  <2>1. UNION s.static_incl = Follow(t)
    BY <1>2
  <2>2. Reusable(s, s.full_incl) \subseteq Fact /\ s.dynamic_incl_base \subseteq Fact
    BY <1>2 DEF TrackerRecord, Reusable
  <2>3. Base(t) = t.static_incl_base \cup s.dynamic_incl_base
    BY <1>2 DEF Base
  <2> QED BY <1>3, <2>1, <2>2, <2>3
<1>5. full \in SUBSET Fact /\ FollowAll(t) \subseteq full
  <2> HIDE DEF s, start
  <2> QED BY <1>2, <1>4, ClosureLeast, ClosureMonotone DEF FollowAll
<1>6. u = [s EXCEPT !.full_incl = {full}, !.fully_invalidated = FALSE, !.invalidated = FALSE]
  BY DEF recompute, recompute_full_incl
<1>61. {full} \in SUBSET SUBSET Fact
  BY <1>5
<1> HIDE DEF s, start, full
<1>7. /\ u \in TrackerRecord
      /\ u.static_incl = {Follow(t)} /\ u.full_incl = {full} /\ ~u.invalidated
      /\ u.static_incl_base = t.static_incl_base /\ u.dynamic_incl_base = t.dynamic_incl_base
      /\ u.barriers = t.barriers
  <2> HIDE DEF u
  <2> QED BY <1>2, <1>6, <1>61 DEF TrackerRecord
<1>8. u \in Trackers /\ ~u.invalidated /\ u.static_incl # {}
  <2> HIDE DEF u
  <2>1. Follow(u) = Follow(t) /\ FollowAll(u) = FollowAll(t)
    BY <1>7 DEF Follow, FollowAll, Base
  <2>2. CachesRight(u)
    BY <1>3, <1>5, <1>7, <2>1 DEF CachesRight, IsCacheOf
  <2> QED BY <1>7, <2>2 DEF Trackers
<1>9. CASE t.invalidated \/ t.full_incl = {}
  BY <1>8, <1>9 DEF refreshed
<1>10. CASE ~(t.invalidated \/ t.full_incl = {})
  BY <1>1, <1>10 DEF refreshed, CachesRight
<1> QED
  BY <1>9, <1>10

---------------------------------------------------------------------------
(* The elements the folds choose are there.                                  *)
LEMMA MinIn ==
  ASSUME NEW S, S \subseteq Nat, S # {}
  PROVE  Min(S) \in S
  BY LeastNumber DEF Min

(* The order of inclusions at one point is total.                            *)
LEMMA GreatestIn ==
  ASSUME NEW D \in SUBSET Fact, NEW p, \A x \in D : x[3] = p
  PROVE  \A S \in SUBSET D : S # {} => Greatest(S) \in S
<1> DEFINE R == {e \in D \X D : Before(e[1], e[2])}
<1>1. \A x, y \in D : <<x, y>> \in R <=> Before(x, y)
  OBVIOUS
<1>2. \A x \in D : x[1] \in Nat /\ x[2] \in Nat /\ x = <<x[1], x[2], p>>
  BY TrackerAssumption DEF Fact
<1>3. /\ \A x \in D : <<x, x>> \notin R
      /\ \A x, y, z \in D : <<x, y>> \in R /\ <<y, z>> \in R => <<x, z>> \in R
  <2> HIDE DEF R
  <2> QED BY <1>1, <1>2 DEF Before
<1>4. IsFiniteSet(D)
  BY FactFinite, FS_Subset
<1>5. \A S \in SUBSET D : S # {} => \E x \in S : \A y \in S : <<x, y>> \notin R
  <2> HIDE DEF R
  <2> QED BY <1>3, <1>4, MaximalElement
<1>6. ASSUME NEW S \in SUBSET D, S # {} PROVE \E x \in S : \A y \in S \ {x} : Before(y, x)
  <2>1. PICK x \in S : \A y \in S : <<x, y>> \notin R
    BY <1>5, <1>6
  <2> HIDE DEF R
  <2>2. ASSUME NEW y \in S \ {x} PROVE Before(y, x)
    <3>1. x \in D /\ y \in D /\ ~Before(x, y) /\ y # x
      BY <1>1, <2>1
    <3>2. ~(x[1] < y[1] \/ (x[1] = y[1] /\ x[2] < y[2])) /\ ~(x[1] = y[1] /\ x[2] = y[2])
      BY <1>2, <3>1 DEF Before
    <3>3. y[1] < x[1] \/ (y[1] = x[1] /\ y[2] < x[2])
      BY <1>2, <3>1, <3>2
    <3> QED BY <3>3 DEF Before
  <2> QED BY <2>2
<1> QED
  BY <1>6 DEF Greatest

LEMMA LeastIn ==
  ASSUME NEW S \in SUBSET (Region \X Region), S # {}
  PROVE  Least(S) \in S
<1> DEFINE firsts == {x[1] : x \in S}
           n == CHOOSE m \in firsts : \A k \in firsts : m <= k
           seconds == {x[2] : x \in {y \in S : y[1] = n}}
<1>1. \A x \in S : x[1] \in Nat /\ x[2] \in Nat /\ x = <<x[1], x[2]>>
  <2> TAKE x \in S
  <2>1. PICK r1 \in Region, r2 \in Region : x = <<r1, r2>>
    OBVIOUS
  <2>2. r1 \in Nat /\ r2 \in Nat
    BY TrackerAssumption
  <2> QED BY <2>1, <2>2
<1>2. n \in firsts /\ \A k \in firsts : n <= k
  <2>1. firsts \subseteq Nat /\ firsts # {}
    BY <1>1
  <2>2. \E m \in firsts : \A k \in firsts : m <= k
    <3> HIDE DEF firsts
    <3> QED BY <2>1, LeastNumber
  <2> HIDE DEF firsts
  <2> QED BY <2>2
<1>3. PICK m \in seconds : \A k \in seconds : m <= k
  <2>1. seconds \subseteq Nat
    BY <1>1
  <2>2. seconds # {}
    <3>1. PICK x \in S : n = x[1]
      BY <1>2
    <3> HIDE DEF n
    <3> QED BY <3>1
  <2> HIDE DEF seconds
  <2> QED BY <2>1, <2>2, LeastNumber
<1>4. PICK x \in S : x[1] = n /\ x[2] = m
  BY <1>3
<1>5. ASSUME NEW y \in S \ {x} PROVE Before(x, y)
  <2>1. y[1] \in firsts /\ (y[1] = n => y[2] \in seconds)
    OBVIOUS
  <2>2. n <= y[1] /\ (y[1] = n => m <= y[2])
    BY <1>2, <1>3, <2>1
  <2>3. ~(x[1] = y[1] /\ x[2] = y[2]) /\ x[1] \in Nat /\ x[2] \in Nat /\ y[1] \in Nat /\ y[2] \in Nat
    BY <1>1
  <2> HIDE DEF n, seconds
  <2> QED BY <1>4, <2>2, <2>3 DEF Before
<1>6. \E z \in S : \A y \in S \ {z} : Before(z, y)
  <2> HIDE DEF n
  <2> QED BY <1>5
<1> QED
  BY <1>6 DEF Least

---------------------------------------------------------------------------
(* Each step of generate_dyn_inclusions leaves a right tracker.  extend_lft  *)
(* recomputes the static cache only, which would make the full cache be      *)
(* taken for valid when it is not: the caller has just refreshed both.       *)
DynAnnots == {ExtendLft(r) : r \in Region} \cup {IncludeLft(r1, r2) : r1, r2 \in Region}
DynOuts == [tr : Trackers, annots : Seq(DynAnnots), ok : BOOLEAN]

LEMMA GenerateOk ==
  ASSUME NEW out \in DynOuts, NEW x \in Fact
  PROVE  generate_dyn_inclusion(out, x[1], x[2], x[3]) \in DynOuts
<1> DEFINE o == [out EXCEPT !.tr = refreshed(@)]
           u == add_dynamic_inclusion(o.tr, x[1], x[2], x[3])
<1>1. o \in DynOuts /\ ~o.tr.invalidated /\ o.tr.static_incl # {}
  BY RefreshedOk DEF DynOuts
<1>2. x[1] \in Region /\ x[2] \in Region /\ <<x[1], x[2], x[3]>> \in Fact
  BY DEF Fact
<1> HIDE DEF o
<1>3. u \in Trackers
  BY <1>1, <1>2, AddDynamicOk DEF DynOuts
<1>4. refreshed_static(o.tr) = o.tr
  BY <1>1 DEF refreshed_static
<1>5. /\ ExtendLft(x[1]) \in DynAnnots /\ IncludeLft(x[2], x[1]) \in DynAnnots
      /\ check_static_inclusion(o.tr, x[2], x[1], x[3]) \in BOOLEAN
  BY <1>2 DEF DynAnnots, check_static_inclusion
<1> HIDE DEF u
<1>6. extend_lft(o, x[1], x[2], x[3]) \in DynOuts
  <2>1. extend_lft(o, x[1], x[2], x[3])
          = [tr |-> u, annots |-> Append(o.annots, ExtendLft(x[1])),
             ok |-> o.ok /\ check_static_inclusion(o.tr, x[2], x[1], x[3])]
    BY <1>4 DEF extend_lft, u
  <2>2. Append(o.annots, ExtendLft(x[1])) \in Seq(DynAnnots) /\ o.ok \in BOOLEAN
    BY <1>1, <1>5 DEF DynOuts
  <2> QED BY <1>3, <1>5, <2>1, <2>2 DEF DynOuts
<1>7. include_lft(o, x[1], x[2], x[3]) \in DynOuts
  <2>1. include_lft(o, x[1], x[2], x[3])
          = [o EXCEPT !.tr = u, !.annots = Append(@, IncludeLft(x[2], x[1]))]
    BY DEF include_lft, u
  <2>2. Append(o.annots, IncludeLft(x[2], x[1])) \in Seq(DynAnnots)
    BY <1>1, <1>5 DEF DynOuts
  <2> QED BY <1>1, <1>3, <2>1, <2>2 DEF DynOuts
<1> QED
  BY <1>1, <1>6, <1>7 DEF generate_dyn_inclusion, enforce_inclusion, o

LEMMA GenerateAllOk ==
  ASSUME NEW out \in DynOuts, NEW incls \in SUBSET Fact, NEW p, \A x \in incls : x[3] = p
  PROVE  generate_dyn_inclusions(out, incls) \in DynOuts
<1> DEFINE Step(x, v) == IF <<x[2], x[1], x[3]>> \in incls THEN v
                         ELSE generate_dyn_inclusion(v, x[1], x[2], x[3])
           Sat(f) == f = [S \in SUBSET incls |->
                            IF S = {} THEN out ELSE Step(Greatest(S), f[S \ {Greatest(S)}])]
           iter == CHOOSE f : Sat(f)
           step == [x \in incls |-> [v \in DynOuts |-> Step(x, v)]]
           pick == [S \in SUBSET incls |-> Greatest(S)]
<1>1. generate_dyn_inclusions(out, incls) = iter[incls]
  BY DEF generate_dyn_inclusions, MapThenFoldSet
<1>2. \A x \in incls : \A v \in DynOuts : Step(x, v) \in DynOuts
  BY GenerateOk
<1> HIDE DEF Step
<1>3. step \in [incls -> [DynOuts -> DynOuts]]
  BY <1>2
<1>4. IsFiniteSet(incls)
  BY FactFinite, FS_Subset
<1>5. \A S \in SUBSET incls : S # {} => Greatest(S) \in S
  BY GreatestIn
<1>6. \E g : Sat(g)
  <2>1. \A S \in SUBSET incls : S # {} => pick[S] \in S
    BY <1>5
  <2>2. PICK g \in [SUBSET incls -> DynOuts] : Folded(incls, pick, step, out, g)
    <3> HIDE DEF step, pick
    <3> QED BY <1>3, <1>4, <2>1, SetFold
  <2>3. ASSUME NEW S \in SUBSET incls
        PROVE  g[S] = IF S = {} THEN out ELSE Step(Greatest(S), g[S \ {Greatest(S)}])
    <3>1. g[S] = IF S = {} THEN out ELSE step[pick[S]][g[S \ {pick[S]}]]
      <4> HIDE DEF step, pick
      <4> QED BY <2>2 DEF Folded
    <3>2. S # {} => Greatest(S) \in incls /\ g[S \ {Greatest(S)}] \in DynOuts
      BY <1>5
    <3> QED BY <3>1, <3>2
  <2>4. Sat(g)
    BY <2>3
  <2> HIDE DEF Sat
  <2> QED BY <2>4
<1>7. Sat(iter)
  <2> HIDE DEF Sat
  <2> QED BY <1>6
<1> DEFINE T == {S \in SUBSET incls : iter[S] \in DynOuts}
<1>8. {} \in T
  <2> HIDE DEF iter
  <2> QED BY <1>7
<1>9. ASSUME NEW S \in SUBSET incls, S # {}, \A x \in S : S \ {x} \in T PROVE S \in T
  <2> HIDE DEF iter
  <2>1. iter[S] = Step(Greatest(S), iter[S \ {Greatest(S)}])
    BY <1>7, <1>9
  <2>2. Greatest(S) \in S
    BY <1>5, <1>9
  <2>3. iter[S \ {Greatest(S)}] \in DynOuts /\ Greatest(S) \in incls
    BY <1>9, <2>2
  <2>4. iter[S] \in DynOuts
    BY <1>2, <2>1, <2>3
  <2> QED BY <2>4
<1>10. \A S \in SUBSET incls : S \in T
  <2> HIDE DEF T
  <2> QED BY <1>4, <1>8, <1>9, SubsetInduction
<1>11. iter[incls] \in DynOuts
  <2> HIDE DEF iter
  <2> QED BY <1>10
<1> HIDE DEF iter
<1> QED
  BY <1>1, <1>11

---------------------------------------------------------------------------
(* Each step of the generation of annotations for a statement leaves a right *)
(* tracker.  An outcome consists of five fields; what the annotations are    *)
(* does not matter here.                                                     *)
IsOutcome(v) == v = [tr |-> v.tr, ok |-> v.ok, pre |-> v.pre, dyn |-> v.dyn, post |-> v.post]
IsOut(out) == IsOutcome(out) /\ out.tr \in Trackers

LEMMA OutPosted ==
  ASSUME NEW v, IsOutcome(v), NEW u, NEW w
  PROVE  [v EXCEPT !.tr = u, !.post = w]
           = [tr |-> u, ok |-> v.ok, pre |-> v.pre, dyn |-> v.dyn, post |-> w]
<1> DEFINE field(x) == IF x = "post" THEN w ELSE IF x = "tr" THEN u ELSE v[x]
<1>1. DOMAIN v = {"tr", "ok", "pre", "dyn", "post"}
  BY DEF IsOutcome
<1>2. [v EXCEPT !.tr = u, !.post = w] = [x \in DOMAIN v |-> field(x)]
  BY <1>1
<1>3. [tr |-> u, ok |-> v.ok, pre |-> v.pre, dyn |-> v.dyn, post |-> w]
        = [x \in {"tr", "ok", "pre", "dyn", "post"} |-> field(x)]
  OBVIOUS
<1> QED
  BY <1>1, <1>2, <1>3

LEMMA OutFreed ==
  ASSUME NEW v, IsOutcome(v), NEW u, NEW w
  PROVE  [v EXCEPT !.tr = u, !.dyn = w]
           = [tr |-> u, ok |-> v.ok, pre |-> v.pre, dyn |-> w, post |-> v.post]
<1> DEFINE field(x) == IF x = "dyn" THEN w ELSE IF x = "tr" THEN u ELSE v[x]
<1>1. DOMAIN v = {"tr", "ok", "pre", "dyn", "post"}
  BY DEF IsOutcome
<1>2. [v EXCEPT !.tr = u, !.dyn = w] = [x \in DOMAIN v |-> field(x)]
  BY <1>1
<1>3. [tr |-> u, ok |-> v.ok, pre |-> v.pre, dyn |-> w, post |-> v.post]
        = [x \in {"tr", "ok", "pre", "dyn", "post"} |-> field(x)]
  OBVIOUS
<1> QED
  BY <1>1, <1>2, <1>3

LEMMA OutDefined ==
  ASSUME NEW v, IsOutcome(v), NEW u, NEW w
  PROVE  [v EXCEPT !.tr = u, !.pre = w]
           = [tr |-> u, ok |-> v.ok, pre |-> w, dyn |-> v.dyn, post |-> v.post]
<1> DEFINE field(x) == IF x = "pre" THEN w ELSE IF x = "tr" THEN u ELSE v[x]
<1>1. DOMAIN v = {"tr", "ok", "pre", "dyn", "post"}
  BY DEF IsOutcome
<1>2. [v EXCEPT !.tr = u, !.pre = w] = [x \in DOMAIN v |-> field(x)]
  BY <1>1
<1>3. [tr |-> u, ok |-> v.ok, pre |-> w, dyn |-> v.dyn, post |-> v.post]
        = [x \in {"tr", "ok", "pre", "dyn", "post"} |-> field(x)]
  OBVIOUS
<1> QED
  BY <1>1, <1>2, <1>3

LEMMA OutPlaced ==
  ASSUME NEW v, IsOutcome(v), NEW u, NEW w
  PROVE  [v EXCEPT !.pre = u, !.dyn = w]
           = [tr |-> v.tr, ok |-> v.ok, pre |-> u, dyn |-> w, post |-> v.post]
<1> DEFINE field(x) == IF x = "dyn" THEN w ELSE IF x = "pre" THEN u ELSE v[x]
<1>1. DOMAIN v = {"tr", "ok", "pre", "dyn", "post"}
  BY DEF IsOutcome
<1>2. [v EXCEPT !.pre = u, !.dyn = w] = [x \in DOMAIN v |-> field(x)]
  BY <1>1
<1>3. [tr |-> v.tr, ok |-> v.ok, pre |-> u, dyn |-> w, post |-> v.post]
        = [x \in {"tr", "ok", "pre", "dyn", "post"} |-> field(x)]
  OBVIOUS
<1> QED
  BY <1>1, <1>2, <1>3

LEMMA BarriersOk ==
  ASSUME NEW b, NEW loc \in Location, b[loc].lhs \in SUBSET Region, NEW out, IsOut(out)
  PROVE  /\ IsOut(update_barriers(b, loc, out))
         /\ update_barriers(b, loc, out).post = out.post
<1> DEFINE lhs == b[loc].lhs
           Step(r, v) == add_barrier(v, r, Mid(loc))
           Sat(f) == f = [S \in SUBSET lhs |->
                            IF S = {} THEN out.tr ELSE Step(Max(S), f[S \ {Max(S)}])]
           iter == CHOOSE f : Sat(f)
           step == [r \in lhs |-> [v \in Trackers |-> Step(r, v)]]
           pick == [S \in SUBSET lhs |-> Max(S)]
<1>c. out.tr \in Trackers
  BY DEF IsOut, IsOutcome
<1>1. update_barriers(b, loc, out) = [out EXCEPT !.tr = iter[lhs]]
  BY DEF update_barriers, MapThenFoldSet
<1>2. \A r \in lhs : \A v \in Trackers : Step(r, v) \in Trackers
  <2> TAKE r \in lhs
  <2> TAKE v \in Trackers
  <2>1. <<r, Mid(loc)>> \in Barrier
    BY DEF Barrier, Point, Mid
  <2> QED BY <2>1, AddBarrierOk
<1> HIDE DEF Step
<1>3. step \in [lhs -> [Trackers -> Trackers]]
  BY <1>2
<1>4. IsFiniteSet(lhs)
  BY TrackerAssumption, FS_Subset
<1>5. \A S \in SUBSET lhs : S # {} => Max(S) \in S
  BY <1>4, TrackerAssumption, MaxIn
<1>6. \E g : Sat(g)
  <2>1. \A S \in SUBSET lhs : S # {} => pick[S] \in S
    BY <1>5
  <2>2. PICK g \in [SUBSET lhs -> Trackers] : Folded(lhs, pick, step, out.tr, g)
    <3> HIDE DEF step, pick
    <3> QED BY <1>3, <1>4, <1>c, <2>1, SetFold
  <2>3. ASSUME NEW S \in SUBSET lhs
        PROVE  g[S] = IF S = {} THEN out.tr ELSE Step(Max(S), g[S \ {Max(S)}])
    <3>1. g[S] = IF S = {} THEN out.tr ELSE step[pick[S]][g[S \ {pick[S]}]]
      <4> HIDE DEF step, pick
      <4> QED BY <2>2 DEF Folded
    <3>2. S # {} => Max(S) \in lhs /\ g[S \ {Max(S)}] \in Trackers
      BY <1>5
    <3> QED BY <3>1, <3>2
  <2>4. Sat(g)
    BY <2>3
  <2> HIDE DEF Sat
  <2> QED BY <2>4
<1>7. Sat(iter)
  <2> HIDE DEF Sat
  <2> QED BY <1>6
<1>8. iter[lhs] \in Trackers
  <2> HIDE DEF iter
  <2>1. iter[{}] = out.tr
    BY <1>7
  <2>2. ASSUME NEW S \in SUBSET lhs, S # {}, iter[S \ {Max(S)}] \in Trackers
        PROVE  iter[S] \in Trackers
    <3>1. iter[S] = Step(Max(S), iter[S \ {Max(S)}])
      BY <1>7, <2>2
    <3>2. Max(S) \in lhs
      BY <1>5, <2>2
    <3> QED BY <1>2, <2>2, <3>1, <3>2
  <2>3. \A S \in SUBSET lhs : S # {} => pick[S] \in S /\ (iter[S \ {pick[S]}] \in Trackers => iter[S] \in Trackers)
    BY <1>5, <2>2
  <2> HIDE DEF pick
  <2> QED BY <1>4, <1>c, <2>1, <2>3, FoldStays
<1> HIDE DEF iter
<1>9. \A t : [out EXCEPT !.tr = t] = [tr |-> t, ok |-> out.ok, pre |-> out.pre, dyn |-> out.dyn, post |-> out.post]
  BY DEF IsOut, IsOutcome
<1> QED
  BY <1>1, <1>8, <1>9 DEF IsOut, IsOutcome

(* Only the tracker and the annotations after the statement change when the  *)
(* regions of the place are set equal to those of the value.                 *)
RegionCopies == {CopyLftName(r1, r2) : r1, r2 \in Region}
Posted(out) ==
  {[tr |-> t, ok |-> out.ok, pre |-> out.pre, dyn |-> out.dyn, post |-> s] :
     t \in Trackers, s \in Seq(RegionCopies)}

LEMMA EqualityPosted ==
  ASSUME NEW b, NEW out, NEW v \in Posted(out), NEW x \in Fact
  PROVE  enforce_equality(b, v, x) \in Posted(out)
<1> DEFINE u == add_static_equality(v.tr, x[1], x[2], x[3])
           w == Append(v.post, CopyLftName(x[1], x[2]))
<1>1. PICK t \in Trackers, s \in Seq(RegionCopies) :
        v = [tr |-> t, ok |-> out.ok, pre |-> out.pre, dyn |-> out.dyn, post |-> s]
  BY DEF Posted
<1>2. x[1] \in Region /\ x[2] \in Region /\ <<x[1], x[2], x[3]>> \in Fact
  BY DEF Fact
<1>3. v.tr \in Trackers /\ v.post \in Seq(RegionCopies)
  BY <1>1
<1>4. u \in Trackers
  BY <1>2, <1>3, AddEqualityOk
<1>5. w \in Seq(RegionCopies)
  <2>1. CopyLftName(x[1], x[2]) \in RegionCopies
    BY <1>2 DEF RegionCopies
  <2> QED BY <1>3, <2>1
<1>6. enforce_equality(b, v, x) \in {v, [v EXCEPT !.tr = u, !.post = w]}
  BY DEF enforce_equality
<1> HIDE DEF u, w
<1>7. [v EXCEPT !.tr = u, !.post = w]
        = [tr |-> u, ok |-> out.ok, pre |-> out.pre, dyn |-> out.dyn, post |-> w]
  <2>1. /\ v.ok = out.ok /\ v.pre = out.pre /\ v.dyn = out.dyn /\ IsOutcome(v)
    BY <1>1 DEF IsOutcome
  <2>2. [v EXCEPT !.tr = u, !.post = w]
          = [tr |-> u, ok |-> v.ok, pre |-> v.pre, dyn |-> v.dyn, post |-> w]
    BY <2>1, OutPosted, Zenon
  <2> QED BY <2>1, <2>2
<1> QED
  BY <1>4, <1>5, <1>6, <1>7 DEF Posted

LEMMA EquateMissingOk ==
  ASSUME NEW b, NEW loc \in Location, b[loc].facts \in SUBSET (Region \X Region),
         NEW out, IsOut(out), out.post = <<>>
  PROVE  IsOut(equate_missing(b, loc, out))
<1> DEFINE D == {x \in Missing(b, loc, out.tr) : is_place(b, x[2])}
           Step(x, v) == enforce_equality(b, v, x)
           Sat(f) == f = [S \in SUBSET D |->
                            IF S = {} THEN out ELSE Step(Greatest(S), f[S \ {Greatest(S)}])]
           iter == CHOOSE f : Sat(f)
           step == [x \in D |-> [v \in Posted(out) |-> Step(x, v)]]
           pick == [S \in SUBSET D |-> Greatest(S)]
<1>b. D \in SUBSET Fact /\ \A x \in D : x[3] = Mid(loc)
  <2>1. FactsAt(loc, b[loc].facts) \in SUBSET Fact /\ \A x \in FactsAt(loc, b[loc].facts) : x[3] = Mid(loc)
    BY DEF FactsAt, Fact, Point, Mid
  <2> QED BY <2>1 DEF Missing
<1>c. out \in Posted(out)
  <2>1. out.post \in Seq(RegionCopies)
    OBVIOUS
  <2>2. \E t \in Trackers, s \in Seq(RegionCopies) :
          out = [tr |-> t, ok |-> out.ok, pre |-> out.pre, dyn |-> out.dyn, post |-> s]
    BY <2>1 DEF IsOut, IsOutcome
  <2> QED BY <2>2 DEF Posted
<1>1. equate_missing(b, loc, out) = iter[D]
  BY DEF equate_missing, MapThenFoldSet
<1> HIDE DEF D
<1>2. \A x \in D : \A v \in Posted(out) : Step(x, v) \in Posted(out)
  BY <1>b, EqualityPosted
<1> HIDE DEF Step
<1>3. step \in [D -> [Posted(out) -> Posted(out)]]
  BY <1>2
<1>4. IsFiniteSet(D)
  BY <1>b, FactFinite, FS_Subset
<1>5. \A S \in SUBSET D : S # {} => Greatest(S) \in S
  BY <1>b, GreatestIn
<1>6. \E g : Sat(g)
  <2>1. \A S \in SUBSET D : S # {} => pick[S] \in S
    BY <1>5
  <2>2. PICK g \in [SUBSET D -> Posted(out)] : Folded(D, pick, step, out, g)
    <3> HIDE DEF step, pick
    <3> QED BY <1>3, <1>4, <1>c, <2>1, SetFold
  <2>3. ASSUME NEW S \in SUBSET D
        PROVE  g[S] = IF S = {} THEN out ELSE Step(Greatest(S), g[S \ {Greatest(S)}])
    <3>1. g[S] = IF S = {} THEN out ELSE step[pick[S]][g[S \ {pick[S]}]]
      <4> HIDE DEF step, pick
      <4> QED BY <2>2 DEF Folded
    <3>2. S # {} => Greatest(S) \in D /\ g[S \ {Greatest(S)}] \in Posted(out)
      BY <1>5
    <3> QED BY <3>1, <3>2
  <2>4. Sat(g)
    BY <2>3
  <2> HIDE DEF Sat
  <2> QED BY <2>4
<1>7. Sat(iter)
  <2> HIDE DEF Sat
  <2> QED BY <1>6
<1>8. iter[D] \in Posted(out)
  <2> HIDE DEF iter
  <2>1. iter[{}] = out
    BY <1>7
  <2>2. ASSUME NEW S \in SUBSET D, S # {}, iter[S \ {Greatest(S)}] \in Posted(out)
        PROVE  iter[S] \in Posted(out)
    <3>1. iter[S] = Step(Greatest(S), iter[S \ {Greatest(S)}])
      BY <1>7, <2>2
    <3>2. Greatest(S) \in D
      BY <1>5, <2>2
    <3> QED BY <1>2, <2>2, <3>1, <3>2
  <2>3. \A S \in SUBSET D : S # {} => pick[S] \in S /\ (iter[S \ {pick[S]}] \in Posted(out) => iter[S] \in Posted(out))
    BY <1>5, <2>2
  <2> HIDE DEF pick
  <2> QED BY <1>4, <1>c, <2>1, <2>3, FoldStays
<1> HIDE DEF iter
<1>9. \A v \in Posted(out) : IsOut(v)
  BY DEF IsOut, IsOutcome, Posted
<1> QED
  BY <1>1, <1>8, <1>9

(* Nor do the names of unconstrained regions disturb the tracker.            *)
FreeAnnots == RegionCopies \cup {StartLft(r, <<FunctionLft>>) : r \in Region}
Freed(out) ==
  {[tr |-> t, ok |-> out.ok, pre |-> out.pre, dyn |-> s, post |-> out.post] :
     t \in Trackers, s \in Seq(FreeAnnots)}

LEMMA UnconstrainedFreed ==
  ASSUME NEW b, NEW loc \in Location, b[loc].facts \in SUBSET (Region \X Region),
         NEW out, NEW v \in Freed(out), NEW r \in Region
  PROVE  unconstrained_annotation(b, loc, v, r) \in Freed(out)
<1>1. PICK t \in Trackers, s \in Seq(FreeAnnots) :
        v = [tr |-> t, ok |-> out.ok, pre |-> out.pre, dyn |-> s, post |-> out.post]
  BY DEF Freed
<1>2. /\ v.tr \in Trackers /\ v.dyn \in Seq(FreeAnnots) /\ IsOutcome(v)
      /\ v.ok = out.ok /\ v.pre = out.pre /\ v.post = out.post
  BY <1>1 DEF IsOutcome
<1>3. ASSUME reborrowed(b, loc) # {}
      PROVE  reborrow_annotation(loc, v, Least(reborrowed(b, loc))) \in Freed(out)
  <2> DEFINE e == Least(reborrowed(b, loc))
             u == add_static_inclusion(v.tr, e[1], e[2], Mid(loc))
             w == Append(v.dyn, CopyLftName(e[1], e[2]))
  <2>1. e \in Region \X Region
    <3>1. reborrowed(b, loc) \in SUBSET (Region \X Region)
      BY DEF reborrowed, get_new_subset_constraints_at_point
    <3> QED BY <1>3, <3>1, LeastIn
  <2> HIDE DEF e
  <2>2. e[1] \in Region /\ e[2] \in Region
    BY <2>1
  <2>3. u \in Trackers
    <3>1. <<e[1], e[2], Mid(loc)>> \in Fact
      <4>1. Mid(loc) \in Point
        BY DEF Point, Mid
      <4> QED BY <2>2, <4>1 DEF Fact
    <3> QED BY <1>2, <3>1, AddStaticOk
  <2>4. w \in Seq(FreeAnnots)
    <3>1. CopyLftName(e[1], e[2]) \in FreeAnnots
      BY <2>2 DEF RegionCopies, FreeAnnots
    <3> QED BY <1>2, <3>1
  <2>5. reborrow_annotation(loc, v, e) = [v EXCEPT !.tr = u, !.dyn = w]
    BY DEF reborrow_annotation
  <2> HIDE DEF u, w
  <2>6. [v EXCEPT !.tr = u, !.dyn = w]
          = [tr |-> u, ok |-> v.ok, pre |-> v.pre, dyn |-> w, post |-> v.post]
    <3>1. IsOutcome(v)
      BY <1>2
    <3> QED BY <3>1, OutFreed, Zenon
  <2> QED BY <1>2, <2>3, <2>4, <2>5, <2>6 DEF Freed, e
<1>4. ASSUME NEW a \in FreeAnnots PROVE [v EXCEPT !.dyn = Append(@, a)] \in Freed(out)
  <2> DEFINE w == Append(v.dyn, a)
  <2>1. w \in Seq(FreeAnnots)
    BY <1>2
  <2> HIDE DEF w
  <2>2. [v EXCEPT !.dyn = w] = [tr |-> t, ok |-> out.ok, pre |-> out.pre, dyn |-> w, post |-> out.post]
    BY <1>1
  <2>3. [v EXCEPT !.dyn = w] \in Freed(out)
    BY <2>1, <2>2 DEF Freed
  <2> QED BY <2>3 DEF w
<1>5. StartLft(r, <<FunctionLft>>) \in FreeAnnots /\ CopyLftName(Static, r) \in FreeAnnots
  BY LftAssumption, RegionAssumption DEF FreeAnnots, RegionCopies
<1> DEFINE a == IF b[loc].rvalue # "Constant" /\ r \in b[loc].region
                THEN StartLft(r, <<FunctionLft>>) ELSE CopyLftName(Static, r)
<1>6. a \in FreeAnnots
  BY <1>5
<1>7. unconstrained_annotation(b, loc, v, r)
        = IF b[loc].rvalue = "Shared" /\ reborrowed(b, loc) # {}
          THEN reborrow_annotation(loc, v, Least(reborrowed(b, loc)))
          ELSE [v EXCEPT !.dyn = Append(@, a)]
  BY DEF unconstrained_annotation
<1> HIDE DEF a
<1> QED
  BY <1>3, <1>4, <1>6, <1>7

LEMMA UnconstrainedOk ==
  ASSUME NEW b, NEW loc \in Location, b[loc].facts \in SUBSET (Region \X Region),
         NEW out, IsOut(out)
  PROVE  IsOut(make_unconstrained_region_annotations(b, loc, out))
<1> DEFINE base == [out EXCEPT !.dyn = <<>>]
           D == get_new_unconstrained_regions(b, loc)
           Step(r, v) == unconstrained_annotation(b, loc, v, r)
           Sat(f) == f = [S \in SUBSET D |->
                            IF S = {} THEN base ELSE Step(Max(S), f[S \ {Max(S)}])]
           iter == CHOOSE f : Sat(f)
           step == [r \in D |-> [v \in Freed(out) |-> Step(r, v)]]
           pick == [S \in SUBSET D |-> Max(S)]
<1>b. D \in SUBSET Region
  BY DEF get_new_unconstrained_regions
<1>c. base \in Freed(out)
  <2>1. base = [tr |-> out.tr, ok |-> out.ok, pre |-> out.pre, dyn |-> <<>>, post |-> out.post]
    BY DEF IsOut, IsOutcome
  <2>2. <<>> \in Seq(FreeAnnots)
    OBVIOUS
  <2>3. \E t \in Trackers, s \in Seq(FreeAnnots) :
          base = [tr |-> t, ok |-> out.ok, pre |-> out.pre, dyn |-> s, post |-> out.post]
    BY <2>1, <2>2 DEF IsOut
  <2> QED BY <2>3 DEF Freed
<1>1. make_unconstrained_region_annotations(b, loc, out) = unconstrained_first(out, iter[D])
  BY DEF make_unconstrained_region_annotations, MapThenFoldSet
<1> HIDE DEF D, base
<1>2. \A r \in D : \A v \in Freed(out) : Step(r, v) \in Freed(out)
  BY <1>b, UnconstrainedFreed
<1> HIDE DEF Step
<1>3. step \in [D -> [Freed(out) -> Freed(out)]]
  BY <1>2
<1>4. IsFiniteSet(D)
  BY <1>b, TrackerAssumption, FS_Subset
<1>5. \A S \in SUBSET D : S # {} => Max(S) \in S
  <2>1. IsFiniteSet(Region) /\ Region \subseteq Nat
    BY TrackerAssumption
  <2> QED BY <1>b, <2>1, MaxIn
<1>6. \E g : Sat(g)
  <2>1. \A S \in SUBSET D : S # {} => pick[S] \in S
    BY <1>5
  <2>2. PICK g \in [SUBSET D -> Freed(out)] : Folded(D, pick, step, base, g)
    <3> HIDE DEF step, pick
    <3> QED BY <1>3, <1>4, <1>c, <2>1, SetFold
  <2>3. ASSUME NEW S \in SUBSET D
        PROVE  g[S] = IF S = {} THEN base ELSE Step(Max(S), g[S \ {Max(S)}])
    <3>1. g[S] = IF S = {} THEN base ELSE step[pick[S]][g[S \ {pick[S]}]]
      <4> HIDE DEF step, pick
      <4> QED BY <2>2 DEF Folded
    <3>2. S # {} => Max(S) \in D /\ g[S \ {Max(S)}] \in Freed(out)
      BY <1>5
    <3> QED BY <3>1, <3>2
  <2>4. Sat(g)
    BY <2>3
  <2> HIDE DEF Sat
  <2> QED BY <2>4
<1>7. Sat(iter)
  <2> HIDE DEF Sat
  <2> QED BY <1>6
<1>8. iter[D] \in Freed(out)
  <2> HIDE DEF iter
  <2>1. iter[{}] = base
    BY <1>7
  <2>2. ASSUME NEW S \in SUBSET D, S # {}, iter[S \ {Max(S)}] \in Freed(out)
        PROVE  iter[S] \in Freed(out)
    <3>1. iter[S] = Step(Max(S), iter[S \ {Max(S)}])
      BY <1>7, <2>2
    <3>2. Max(S) \in D
      BY <1>5, <2>2
    <3> QED BY <1>2, <2>2, <3>1, <3>2
  <2>3. \A S \in SUBSET D : S # {} => pick[S] \in S /\ (iter[S \ {pick[S]}] \in Freed(out) => iter[S] \in Freed(out))
    BY <1>5, <2>2
  <2> HIDE DEF pick
  <2> QED BY <1>4, <1>c, <2>1, <2>3, FoldStays
<1> HIDE DEF iter
<1>9. PICK t \in Trackers, s \in Seq(FreeAnnots) :
        iter[D] = [tr |-> t, ok |-> out.ok, pre |-> out.pre, dyn |-> s, post |-> out.post]
  BY <1>8 DEF Freed
<1> DEFINE free == iter[D]
           u == free.dyn \o free.pre
<1>10. IsOutcome(free) /\ free.tr \in Trackers
  BY <1>9 DEF IsOutcome
<1>11. unconstrained_first(out, free) = [free EXCEPT !.pre = u, !.dyn = out.dyn]
  BY DEF unconstrained_first
<1> HIDE DEF free, u
<1>12. [free EXCEPT !.pre = u, !.dyn = out.dyn]
         = [tr |-> free.tr, ok |-> free.ok, pre |-> u, dyn |-> out.dyn, post |-> free.post]
  BY <1>10, OutPlaced, Zenon
<1>13. IsOut(unconstrained_first(out, free))
  BY <1>10, <1>11, <1>12 DEF IsOut, IsOutcome
<1> QED
  BY <1>1, <1>13 DEF free

(* Nor do the definitions of the regions of a call, which come before it.    *)
DefiningAnnots ==
  RegionCopies \cup {AliasLft(r, Ascending(S)) : r \in Region, S \in SUBSET Region}
Defined(out) ==
  {[tr |-> t, ok |-> out.ok, pre |-> s, dyn |-> out.dyn, post |-> out.post] :
     t \in Trackers, s \in Seq(DefiningAnnots)}

LEMMA CallRegionDefined ==
  ASSUME NEW loc \in Location, NEW out, NEW v \in Defined(out), NEW r \in Region,
         NEW eq \in SUBSET Region, NEW is \in SUBSET Region
  PROVE  define_call_region(loc, v, r, eq, is) \in Defined(out)
<1>1. PICK t \in Trackers, s \in Seq(DefiningAnnots) :
        v = [tr |-> t, ok |-> out.ok, pre |-> s, dyn |-> out.dyn, post |-> out.post]
  BY DEF Defined
<1>2. IsOutcome(v)
  BY <1>1 DEF IsOutcome
<1>3. /\ v.tr \in Trackers /\ v.pre \in Seq(DefiningAnnots)
      /\ v.ok = out.ok /\ v.dyn = out.dyn /\ v.post = out.post
  BY <1>1
<1>4. ASSUME NEW u \in Trackers, NEW a \in DefiningAnnots
      PROVE  [v EXCEPT !.tr = u, !.pre = Append(@, a)] \in Defined(out)
  <2> DEFINE w == Append(v.pre, a)
  <2>1. w \in Seq(DefiningAnnots)
    BY <1>3
  <2> HIDE DEF w
  <2>2. [v EXCEPT !.tr = u, !.pre = w]
          = [tr |-> u, ok |-> v.ok, pre |-> w, dyn |-> v.dyn, post |-> v.post]
    BY <1>2, OutDefined, Zenon
  <2>3. [v EXCEPT !.tr = u, !.pre = w] \in Defined(out)
    BY <1>3, <2>1, <2>2 DEF Defined
  <2> QED BY <2>3 DEF w
<1>5. Start(loc) \in Point /\ Region \subseteq Nat
  BY TrackerAssumption DEF Point, Start
<1>6. ASSUME eq # {} PROVE set_equal(loc, v, r, Min(eq)) \in Defined(out)
  <2> DEFINE m == Min(eq)
  <2>1. m \in Region
    BY <1>5, <1>6, MinIn
  <2> HIDE DEF m
  <2>2. add_static_equality(v.tr, r, m, Start(loc)) \in Trackers
    <3>1. <<r, m, Start(loc)>> \in Fact
      BY <1>5, <2>1 DEF Fact
    <3> QED BY <1>3, <3>1, AddEqualityOk
  <2>3. CopyLftName(m, r) \in DefiningAnnots
    BY <2>1 DEF DefiningAnnots, RegionCopies
  <2>4. set_equal(loc, v, r, m) \in Defined(out)
    BY <1>4, <2>2, <2>3 DEF set_equal
  <2> QED BY <2>4 DEF m
<1>7. ASSUME is # {} PROVE set_intersection(loc, v, r, is) \in Defined(out)
  <2> DEFINE a == IF \E r2 \in is : is = {r2} THEN CopyLftName(Min(is), r)
                  ELSE AliasLft(r, Ascending(is))
             u == include_all(v.tr, {<<r2, r, Start(loc)>> : r2 \in is})
  <2>1. Min(is) \in Region
    BY <1>5, <1>7, MinIn
  <2>2. a \in DefiningAnnots
    BY <2>1 DEF DefiningAnnots, RegionCopies
  <2>3. u \in Trackers
    <3>1. {<<r2, r, Start(loc)>> : r2 \in is} \in SUBSET Fact
      <4>1. \A r2 \in is : r2 \in Region
        OBVIOUS
      <4>2. \A r2 \in is : <<r2, r, Start(loc)>> \in Fact
        BY <1>5, <4>1 DEF Fact
      <4> QED BY <4>2
    <3> QED BY <1>3, <3>1, IncludeAllOk
  <2>4. set_intersection(loc, v, r, is) = [v EXCEPT !.tr = u, !.pre = Append(@, a)]
    BY DEF set_intersection
  <2> HIDE DEF a, u
  <2> QED BY <1>4, <2>2, <2>3, <2>4
<1> QED
  BY <1>6, <1>7 DEF define_call_region

LEMMA CallRegionsOk ==
  ASSUME NEW loc \in Location, NEW out, IsOut(out), out.pre = <<>>, NEW R, NEW C \in SUBSET Region
  PROVE  /\ IsOut(define_call_regions(loc, out, R, C))
         /\ define_call_regions(loc, out, R, C).post = out.post
<1> DEFINE Step(r, v) == define_call_region(loc, v, r, equal_to(out.tr, R, C, r), intersection_of(out.tr, R, C, r))
           Sat(f) == f = [S \in SUBSET C |->
                            IF S = {} THEN out ELSE Step(Max(S), f[S \ {Max(S)}])]
           iter == CHOOSE f : Sat(f)
           step == [r \in C |-> [v \in Defined(out) |-> Step(r, v)]]
           pick == [S \in SUBSET C |-> Max(S)]
<1>c. out \in Defined(out)
  <2>1. out.pre \in Seq(DefiningAnnots)
    OBVIOUS
  <2>2. \E t \in Trackers, s \in Seq(DefiningAnnots) :
          out = [tr |-> t, ok |-> out.ok, pre |-> s, dyn |-> out.dyn, post |-> out.post]
    BY <2>1 DEF IsOut, IsOutcome
  <2> QED BY <2>2 DEF Defined
<1>1. define_call_regions(loc, out, R, C) = iter[C]
  BY DEF define_call_regions, MapThenFoldSet
<1>2. \A r \in C : \A v \in Defined(out) : Step(r, v) \in Defined(out)
  <2> TAKE r \in C
  <2>1. /\ equal_to(out.tr, R, C, r) \in SUBSET Region
        /\ intersection_of(out.tr, R, C, r) \in SUBSET Region
    BY DEF equal_to, intersection_of, helpful
  <2> QED BY <2>1, CallRegionDefined
<1> HIDE DEF Step
<1>3. step \in [C -> [Defined(out) -> Defined(out)]]
  BY <1>2
<1>4. IsFiniteSet(C)
  BY TrackerAssumption, FS_Subset
<1>5. \A S \in SUBSET C : S # {} => Max(S) \in S
  <2>1. IsFiniteSet(Region) /\ Region \subseteq Nat
    BY TrackerAssumption
  <2> QED BY <2>1, MaxIn
<1>6. \E g : Sat(g)
  <2>1. \A S \in SUBSET C : S # {} => pick[S] \in S
    BY <1>5
  <2>2. PICK g \in [SUBSET C -> Defined(out)] : Folded(C, pick, step, out, g)
    <3> HIDE DEF step, pick
    <3> QED BY <1>3, <1>4, <1>c, <2>1, SetFold
  <2>3. ASSUME NEW S \in SUBSET C
        PROVE  g[S] = IF S = {} THEN out ELSE Step(Max(S), g[S \ {Max(S)}])
    <3>1. g[S] = IF S = {} THEN out ELSE step[pick[S]][g[S \ {pick[S]}]]
      <4> HIDE DEF step, pick
      <4> QED BY <2>2 DEF Folded
    <3>2. S # {} => Max(S) \in C /\ g[S \ {Max(S)}] \in Defined(out)
      BY <1>5
    <3> QED BY <3>1, <3>2
  <2>4. Sat(g)
    BY <2>3
  <2> HIDE DEF Sat
  <2> QED BY <2>4
<1>7. Sat(iter)
  <2> HIDE DEF Sat
  <2> QED BY <1>6
<1>8. iter[C] \in Defined(out)
  <2> HIDE DEF iter
  <2>1. iter[{}] = out
    BY <1>7
  <2>2. ASSUME NEW S \in SUBSET C, S # {}, iter[S \ {Max(S)}] \in Defined(out)
        PROVE  iter[S] \in Defined(out)
    <3>1. iter[S] = Step(Max(S), iter[S \ {Max(S)}])
      BY <1>7, <2>2
    <3>2. Max(S) \in C
      BY <1>5, <2>2
    <3> QED BY <1>2, <2>2, <3>1, <3>2
  <2>3. \A S \in SUBSET C : S # {} => pick[S] \in S /\ (iter[S \ {pick[S]}] \in Defined(out) => iter[S] \in Defined(out))
    BY <1>5, <2>2
  <2> HIDE DEF pick
  <2> QED BY <1>4, <1>c, <2>1, <2>3, FoldStays
<1> HIDE DEF iter
<1>9. \A v \in Defined(out) : IsOut(v) /\ v.post = out.post
  BY DEF IsOut, IsOutcome, Defined
<1> QED
  BY <1>1, <1>8, <1>9

---------------------------------------------------------------------------
(* The translation of a statement.                                           *)
LEMMA FactsAtPoint ==
  ASSUME NEW loc \in Location, NEW S \in SUBSET (Region \X Region)
  PROVE  FactsAt(loc, S) \in SUBSET Fact
<1>1. Mid(loc) \in Point
  BY DEF Point, Mid
<1> QED
  BY <1>1 DEF FactsAt, Fact

(* A new tracker and annotations before the statement.                       *)
LEMMA PrefixedOk ==
  ASSUME NEW out, IsOut(out), NEW u \in Trackers, NEW w
  PROVE  /\ IsOut([out EXCEPT !.tr = u, !.pre = w])
         /\ [out EXCEPT !.tr = u, !.pre = w].post = out.post
<1>1. IsOutcome(out)
  BY DEF IsOut
<1>2. [out EXCEPT !.tr = u, !.pre = w]
        = [tr |-> u, ok |-> out.ok, pre |-> w, dyn |-> out.dyn, post |-> out.post]
  BY <1>1, OutDefined, Zenon
<1> DEFINE o == [out EXCEPT !.tr = u, !.pre = w]
<1> HIDE DEF o
<1>3. IsOut(o) /\ o.post = out.post
  BY <1>2 DEF IsOut, IsOutcome, o
<1> QED
  BY <1>3 DEF o

LEMMA LoanAnnotsOk ==
  ASSUME NEW b, NEW loc \in Location, IsStatement(b[loc]), NEW out, IsOut(out)
  PROVE  /\ IsOut(get_assignment_loan_annots(b, loc, out))
         /\ get_assignment_loan_annots(b, loc, out).post = out.post
<1>1. Outliving(b, loc) \in SUBSET (Region \X Region)
  BY DEF Outliving, IsStatement
<1>2. include_all(out.tr, FactsAt(loc, Outliving(b, loc))) \in Trackers
  BY <1>1, FactsAtPoint, IncludeAllOk DEF IsOut
<1> QED
  BY <1>2, PrefixedOk DEF get_assignment_loan_annots

LEMMA CompositeOk ==
  ASSUME NEW b, NEW loc \in Location, IsStatement(b[loc]), NEW out, IsOut(out)
  PROVE  /\ IsOut(get_composite_rvalue_creation_annots(b, loc, out))
         /\ get_composite_rvalue_creation_annots(b, loc, out).post = out.post
<1> DEFINE P == {e \in b[loc].facts : /\ is_place(b, e[1]) /\ is_value(b, e[2])
                                      /\ e[2] \in b[loc].ty
                                      /\ <<e[2], e[1]>> \notin b[loc].facts}
<1>1. P \in SUBSET (Region \X Region)
  BY DEF IsStatement
<1>2. parts(b, loc) = FactsAt(loc, P)
  BY DEF parts
<1> HIDE DEF P
<1>3. equate_all(out.tr, parts(b, loc)) \in Trackers
  BY <1>1, <1>2, FactsAtPoint, EquateAllOk DEF IsOut
<1> QED
  BY <1>3, PrefixedOk DEF get_composite_rvalue_creation_annots

LEMMA QueriedOk ==
  ASSUME NEW b, NEW loc, NEW out, IsOut(out)
  PROVE  /\ IsOut(queried(b, loc, out))
         /\ queried(b, loc, out).post = out.post
<1> DEFINE u == refreshed(out.tr)
<1>1. u \in Trackers
  BY RefreshedOk DEF IsOut
<1>2. queried(b, loc, out) = IF b[loc].facts = {} THEN out ELSE [out EXCEPT !.tr = u]
  BY DEF queried
<1> HIDE DEF u
<1>3. [out EXCEPT !.tr = u]
        = [tr |-> u, ok |-> out.ok, pre |-> out.pre, dyn |-> out.dyn, post |-> out.post]
  BY DEF IsOut, IsOutcome
<1> DEFINE o == [out EXCEPT !.tr = u]
<1> HIDE DEF o
<1>4. IsOut(o) /\ o.post = out.post
  BY <1>1, <1>3 DEF IsOut, IsOutcome, o
<1> QED
  BY <1>2, <1>4 DEF o

LEMMA StrongUpdateOk ==
  ASSUME NEW b, NEW loc \in Location, IsStatement(b[loc]), NEW out, IsOut(out), out.post = <<>>
  PROVE  IsOut(strong_update(b, loc, out))
<1> DEFINE o == update_barriers(b, loc, out)
           q == queried(b, loc, o)
<1>1. b[loc].lhs \in SUBSET Region /\ b[loc].facts \in SUBSET (Region \X Region)
  BY DEF IsStatement
<1>2. IsOut(o) /\ o.post = <<>>
  BY <1>1, BarriersOk
<1> HIDE DEF o
<1>3. IsOut(q) /\ q.post = <<>>
  BY <1>2, QueriedOk
<1> HIDE DEF q
<1>4. IsOut(equate_missing(b, loc, q))
  BY <1>1, <1>3, EquateMissingOk
<1> QED
  BY <1>4 DEF strong_update, o, q

LEMMA WeakUpdateOk ==
  ASSUME NEW b, NEW loc \in Location, IsStatement(b[loc]), NEW out, IsOut(out)
  PROVE  IsOut(weak_update(b, loc, out))
<1> DEFINE q == queried(b, loc, out)
           M == Missing(b, loc, q.tr)
           g == generate_dyn_inclusions(Made(q), M)
           k == q.ok /\ g.ok
           w == q.dyn \o g.annots
<1>1. IsOut(q)
  BY QueriedOk
<1>2. IsOutcome(q) /\ q.tr \in Trackers
  BY <1>1 DEF IsOut
<1> HIDE DEF q
<1>3. M \in SUBSET Fact /\ \A x \in M : x[3] = Mid(loc)
  <2>1. FactsAt(loc, b[loc].facts) \in SUBSET Fact
    BY FactsAtPoint DEF IsStatement
  <2> QED BY <2>1 DEF Missing, FactsAt
<1> HIDE DEF M
<1>4. g.tr \in Trackers
  <2>1. Made(q) \in DynOuts
    BY <1>2 DEF Made, DynOuts
  <2>2. g \in DynOuts
    BY <1>3, <2>1, GenerateAllOk
  <2> QED BY <2>2 DEF DynOuts
<1> DEFINE u == g.tr
<1>5. weak_update(b, loc, out) = [q EXCEPT !.tr = u, !.ok = k, !.dyn = w]
  BY DEF weak_update, include_missing, enforced, q, M
<1> HIDE DEF g, k, w, u
<1>6. [q EXCEPT !.tr = u, !.ok = k, !.dyn = w]
        = [tr |-> u, ok |-> k, pre |-> q.pre, dyn |-> w, post |-> q.post]
  <2> DEFINE field(x) == IF x = "dyn" THEN w ELSE IF x = "ok" THEN k ELSE IF x = "tr" THEN u ELSE q[x]
  <2>1. DOMAIN q = {"tr", "ok", "pre", "dyn", "post"}
    BY <1>2 DEF IsOutcome
  <2>2. [q EXCEPT !.tr = u, !.ok = k, !.dyn = w] = [x \in DOMAIN q |-> field(x)]
    BY <2>1
  <2>3. [tr |-> u, ok |-> k, pre |-> q.pre, dyn |-> w, post |-> q.post]
          = [x \in {"tr", "ok", "pre", "dyn", "post"} |-> field(x)]
    OBVIOUS
  <2> QED BY <2>1, <2>2, <2>3
<1> QED
  BY <1>4, <1>5, <1>6 DEF IsOut, IsOutcome, u

LEMMA StatementOk ==
  ASSUME NEW b, NEW loc \in Location, IsStatement(b[loc]), NEW t \in Trackers
  PROVE  translate_statement(b, loc, t).tr \in Trackers
<1>1. IsOut(Nothing(t)) /\ Nothing(t).post = <<>> /\ Nothing(t).pre = <<>>
  BY DEF IsOut, IsOutcome, Nothing
<1>2. b[loc].facts \in SUBSET (Region \X Region)
  BY DEF IsStatement
<1>3. ASSUME NEW out, IsOut(out), out.post = <<>> PROVE IsOut(get_assignment_annots(b, loc, out))
  BY <1>3, StrongUpdateOk, WeakUpdateOk DEF get_assignment_annots
<1>4. translate_assign(b, loc, t).tr \in Trackers
  <2> DEFINE o1 == get_assignment_loan_annots(b, loc, Nothing(t))
             o2 == get_composite_rvalue_creation_annots(b, loc, o1)
             o3 == get_assignment_annots(b, loc, o2)
  <2>1. IsOut(o1) /\ o1.post = <<>>
    BY <1>1, LoanAnnotsOk
  <2> HIDE DEF o1
  <2>2. IsOut(o2) /\ o2.post = <<>>
    BY <2>1, CompositeOk
  <2> HIDE DEF o2
  <2>3. IsOut(o3)
    BY <1>3, <2>2
  <2> HIDE DEF o3
  <2>4. IsOut(make_unconstrained_region_annotations(b, loc, o3))
    BY <1>2, <2>3, UnconstrainedOk
  <2> QED BY <2>4 DEF translate_assign, o1, o2, o3, IsOut
<1>5. translate_function_call(b, loc, t).tr \in Trackers
  <2> DEFINE C == call_regions(b, loc)
             R == TransitiveClosure(call_constraints(b, loc))
             o1 == define_call_regions(loc, Nothing(t), R, C)
             o2 == get_assignment_annots(b, loc, o1)
             u == equate_all(o2.tr, recovered_regions(b, loc))
             w == o2.dyn \o copy_all(recovered_regions(b, loc))
  <2>1. C \in SUBSET Region
    BY DEF call_regions
  <2> HIDE DEF C, R
  <2>2. IsOut(o1) /\ o1.post = <<>>
    BY <1>1, <2>1, CallRegionsOk
  <2> HIDE DEF o1
  <2>3. IsOut(o2)
    BY <1>3, <2>2
  <2> HIDE DEF o2
  <2>4. recovered_regions(b, loc) \in SUBSET Fact
    <3> DEFINE S == get_new_unconstrained_regions(b, loc) \cap DOMAIN b[loc].recovered
    <3>1. \A r \in S : r \in Region /\ b[loc].recovered[r] \in Region
      BY <1>2 DEF get_new_unconstrained_regions, IsStatement
    <3>2. Mid(loc) \in Point
      BY DEF Mid, Point
    <3> HIDE DEF S
    <3>3. \A r \in S : <<b[loc].recovered[r], r, Mid(loc)>> \in Fact
      BY <3>1, <3>2 DEF Fact
    <3> QED BY <3>3 DEF recovered_regions, S
  <2>5. u \in Trackers
    BY <2>3, <2>4, EquateAllOk DEF IsOut
  <2>6. translate_function_call(b, loc, t) = [o2 EXCEPT !.tr = u, !.dyn = w]
    BY DEF translate_function_call, compute_unconstrained_region_annots, compute_call_regions,
           C, R, o1, o2
  <2> HIDE DEF u, w
  <2>7. IsOutcome(o2)
    BY <2>3 DEF IsOut
  <2>8. [o2 EXCEPT !.tr = u, !.dyn = w]
          = [tr |-> u, ok |-> o2.ok, pre |-> o2.pre, dyn |-> w, post |-> o2.post]
    BY <2>7, OutFreed, Zenon
  <2> QED BY <2>5, <2>6, <2>8
<1> QED
  BY <1>4, <1>5 DEF translate_statement

---------------------------------------------------------------------------
(* The invariant: the tracker is right, and what is to be translated are     *)
(* statements of the body.                                                   *)
TranslationInv ==
  /\ \A loc \in Location : IsStatement(body[loc])
  /\ bb_queue \in Seq(Location)
  /\ inclusion_tracker \in Trackers

LEMMA InitialTracker ==
  ASSUME NEW b, IsStatement(b[Root])
  PROVE  initial_tracker(b) \in Trackers
<1> DEFINE Known == {<<e[1], e[2], Start(Root)>> : e \in KnownSubset}
           t1 == include_all(new, Known)
           t2 == equate_all(t1, UniversalArgs)
<1>1. Root \in Location /\ Start(Root) \in Point
  BY RegionAssumption DEF Point, Start
<1>2. Known \in SUBSET Fact
  <2>1. \A e \in KnownSubset : e[1] \in Region /\ e[2] \in Region
    BY RegionAssumption
  <2>2. \A e \in KnownSubset : <<e[1], e[2], Start(Root)>> \in Fact
    BY <1>1, <2>1 DEF Fact
  <2> QED BY <2>2
<1>3. UniversalArgs \in SUBSET Fact
  <2>1. \A e \in ArgMapping : e[1] \in Region /\ e[2] \in Region
    BY RegionAssumption
  <2>2. \A e \in ArgMapping : <<e[1], e[2], Start(Root)>> \in Fact
    BY <1>1, <2>1 DEF Fact
  <2> QED BY <2>2 DEF UniversalArgs
<1>4. get_initial_closure_constraints(b) \in SUBSET Fact
  <2> DEFINE S == {e \in b[Root].facts : /\ <<e[2], e[1]>> \in b[Root].facts
                                         /\ is_place(b, e[1]) /\ is_value(b, e[2])}
  <2>1. S \in SUBSET (Region \X Region)
    BY DEF IsStatement
  <2>2. get_initial_closure_constraints(b) = FactsAt(Root, S)
    BY DEF get_initial_closure_constraints
  <2> HIDE DEF S
  <2> QED BY <1>1, <2>1, <2>2, FactsAtPoint
<1> HIDE DEF Known
<1>5. t1 \in Trackers
  BY <1>2, NewTracker, IncludeAllOk
<1>6. t2 \in Trackers
  <2> HIDE DEF t1
  <2> QED BY <1>3, <1>5, EquateAllOk
<1>7. initial_tracker(b) = equate_all(t2, get_initial_closure_constraints(b))
  BY DEF initial_tracker, initialize_inclusion_tracker, Known
<1> HIDE DEF t2
<1> QED
  BY <1>4, <1>6, <1>7, EquateAllOk

(* The blocks that a block leads to are locations.                           *)
LEMMA QueueOk ==
  ASSUME NEW loc \in Location, NEW done
  PROVE  LET unseen(t) == IF t \in done THEN <<>> ELSE <<t>>
         IN  FlattenSeq([i \in DOMAIN Targets[loc] |-> unseen(Targets[loc][i])]) \in Seq(Location)
<1> DEFINE unseen(t) == IF t \in done THEN <<>> ELSE <<t>>
           seqs == [i \in DOMAIN Targets[loc] |-> unseen(Targets[loc][i])]
<1>1. Targets[loc] \in Seq(Location)
  BY TargetsAssumption
<1>2. \A t \in Location : unseen(t) \in Seq(Location)
  OBVIOUS
<1>3. \A i \in DOMAIN Targets[loc] : seqs[i] \in Seq(Location)
  <2> HIDE DEF unseen
  <2> QED BY <1>1, <1>2
<1>4. seqs \in Seq(Seq(Location))
  <2>1. DOMAIN Targets[loc] = 1..Len(Targets[loc]) /\ Len(Targets[loc]) \in Nat
    BY <1>1
  <2>2. seqs \in [1..Len(Targets[loc]) -> Seq(Location)]
    <3> HIDE DEF unseen
    <3> QED BY <1>3, <2>1
  <2> HIDE DEF seqs
  <2> QED BY <2>1, <2>2
<1> HIDE DEF seqs
<1>5. FlattenSeq(seqs) \in Seq(Location)
  BY <1>4, FlattenElements
<1> QED
  BY <1>5 DEF seqs

(* Whatever bodies, facts and orders of blocks the translation is given, the *)
(* inclusions it answers queries from are those that follow from the facts   *)
(* and barriers it was told of (inclusion_tracker.rs:18-43).                 *)
THEOREM CachesInvariant == Spec => []TranslationInv
<1>1. Init => TranslationInv
  <2> SUFFICES ASSUME Init PROVE TranslationInv
    OBVIOUS
  <2>1. \A loc \in Location : IsStatement(body[loc])
    BY TargetsAssumption DEF Init, Bodies
  <2>2. Root \in Location
    BY RegionAssumption
  <2>3. inclusion_tracker \in Trackers
    BY <2>1, <2>2, InitialTracker DEF Init
  <2> QED BY <2>1, <2>2, <2>3 DEF Init, TranslationInv
<1>2. TranslationInv /\ [Next]_vars => TranslationInv'
  <2> SUFFICES ASSUME TranslationInv, [Next]_vars PROVE TranslationInv'
    OBVIOUS
  <2>1. CASE translate_basic_block
    <3> DEFINE loc == Last(bb_queue)
               unseen(t) == IF t \in processed_bbs THEN <<>> ELSE <<t>>
               fresh == FlattenSeq([i \in DOMAIN Targets[loc] |-> unseen(Targets[loc][i])])
    <3>1. loc \in Location /\ Front(bb_queue) \in Seq(Location)
      <4>1. bb_queue # <<>> /\ bb_queue \in Seq(Location)
        BY <2>1 DEF translate_basic_block, TranslationInv
      <4>2. Len(bb_queue) \in 1..Len(bb_queue)
        BY <4>1
      <4> QED BY <4>1, <4>2 DEF Last, Front
    <3>2. /\ inclusion_tracker' = translate_statement(body, loc, inclusion_tracker).tr
          /\ bb_queue' = Front(bb_queue) \o fresh
          /\ body' = body
      BY <2>1 DEF translate_basic_block, enqueue
    <3>3. fresh \in Seq(Location)
      <4> HIDE DEF loc
      <4> QED BY <3>1, QueueOk
    <3> HIDE DEF fresh
    <3>4. bb_queue' \in Seq(Location)
      BY <3>1, <3>2, <3>3
    <3>5. IsStatement(body[loc]) /\ inclusion_tracker \in Trackers
      BY <3>1 DEF TranslationInv
    <3> HIDE DEF loc
    <3>6. inclusion_tracker' \in Trackers
      BY <3>1, <3>2, <3>5, StatementOk
    <3> QED BY <3>2, <3>4, <3>6 DEF TranslationInv
  <2>2. CASE BeginCheck
    BY <2>2 DEF BeginCheck, translation, TranslationInv
  <2>3. CASE typed_annot
    BY <2>3 DEF typed_annot, translation, TranslationInv
  <2>4. CASE typed_goto
    BY <2>4 DEF typed_goto, translation, TranslationInv
  <2>5. CASE UNCHANGED vars
    BY <2>5 DEF vars, translation, TranslationInv
  <2> QED BY <2>1, <2>2, <2>3, <2>4, <2>5 DEF Next
<1> QED
  BY <1>1, <1>2, PTL DEF Spec

(* Unless it is marked invalid, the cache of static inclusions is exactly    *)
(* what follows from the static facts and the barriers.                      *)
THEOREM StaticExact == Spec => []StaticInclusionsExact
<1>1. TranslationInv => StaticInclusionsExact
  BY DEF TranslationInv, Trackers, CachesRight, Follow, StaticInclusionsExact
<1> QED
  BY <1>1, CachesInvariant, PTL

(* Unless it is marked invalid, the cache of all inclusions holds every one  *)
(* that follows from the static and the dynamic facts and the barriers.      *)
THEOREM FullComplete == Spec => []FullInclusionsComplete
<1>1. TranslationInv => FullInclusionsComplete
  BY DEF TranslationInv, Trackers, CachesRight, FollowAll, FullInclusionsComplete
<1> QED
  BY <1>1, CachesInvariant, PTL
=============================================================================
