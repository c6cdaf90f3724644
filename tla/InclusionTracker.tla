-------------------------- MODULE InclusionTracker --------------------------
(***************************************************************************)
(* The lifetime inclusions the frontend knows of while it translates a     *)
(* function body (rr_frontend/translation/src/regions/                     *)
(* inclusion_tracker.rs): base facts, the barriers that stop them, and two *)
(* caches of what follows from them.                                       *)
(*                                                                         *)
(* The operators are pure: tr is a tracker, and a method that changes the  *)
(* tracker is an operator that returns the changed one.                    *)
(***************************************************************************)
EXTENDS Naturals, Sequences, FiniteSets, SequencesExt, Folds

CONSTANTS
  Region,      \* region variables: numbers, for BTreeSet orders them
  Location,    \* the statements and terminators of the body
  CfgSucc      \* pairs of a location and one of its successors

ASSUME TrackerAssumption ==
  /\ Region \subseteq Nat
  /\ CfgSucc \subseteq Location \X Location
  /\ IsFiniteSet(Region) /\ IsFiniteSet(Location)

\* Every location has two points, and control flows from the first to the
\* second and on to the first one of each successor.
Start(loc) == <<loc, "Start">>
Mid(loc)   == <<loc, "Mid">>
Point      == Location \X {"Start", "Mid"}

\* Mutant: control flows from any location to the second one of any edge.
mut_across_branches ==
  {<<Start(loc), Mid(loc)>> : loc \in Location}
    \cup {<<Mid(loc), Start(e[2])>> : loc \in Location, e \in CfgSucc}

cfg_edge   == {<<Start(loc), Mid(loc)>> : loc \in Location}
                \cup {<<Mid(e[1]), Start(e[2])>> : e \in CfgSucc}

Fact    == {<<r1, r2, p>> : r1, r2 \in Region, p \in Point}
Barrier == Region \X Point

\* A cache (an Option) is a set of at most one set of facts.
IsCache(c) == Cardinality(c) <= 1 /\ UNION c \subseteq Fact

IsTracker(tr) ==
  /\ tr.static_incl_base \subseteq Fact /\ tr.dynamic_incl_base \subseteq Fact
  /\ IsCache(tr.static_incl) /\ IsCache(tr.full_incl)
  /\ tr.barriers \subseteq Barrier
  /\ tr.fully_invalidated \in BOOLEAN /\ tr.invalidated \in BOOLEAN

new == [static_incl_base |-> {}, dynamic_incl_base |-> {},
        static_incl |-> {}, full_incl |-> {}, barriers |-> {},
        fully_invalidated |-> TRUE, invalidated |-> TRUE]

-----------------------------------------------------------------------------
(* compute_transitive_closure: an inclusion moves along an edge unless one *)
(* of its regions has a barrier at the end of it, and two inclusions at a  *)
(* point compose.                                                          *)

Holding(S, p) == {x \in S : x[3] = p}

\* Mutant: a barrier on the larger region does not stop an inclusion.
mut_one_barrier(S, B) ==
  UNION {{<<x[1], x[2], e[2]>> : x \in {y \in Holding(S, e[1]) : <<y[1], e[2]>> \notin B}} :
         e \in cfg_edge}

Moved(S, B) ==
  UNION {{<<x[1], x[2], e[2]>> :
            x \in {y \in Holding(S, e[1]) : <<y[1], e[2]>> \notin B /\ <<y[2], e[2]>> \notin B}} :
         e \in cfg_edge}

Composed(S, p) ==
  LET R == Holding(S, p)
  IN  UNION {{<<x[1], y[2], p>> : y \in {z \in R : z[1] = x[2]}} : x \in R}

Extended(S, B) == S \cup Moved(S, B) \cup UNION {Composed(S, p) : p \in Point}

compute_transitive_closure(base, B) ==
  LET cl[S \in SUBSET Fact] ==
        LET next == Extended(S, B) IN IF next = S THEN S ELSE cl[next]
  IN  cl[base]

-----------------------------------------------------------------------------
(* Adding facts. *)

add_static_inclusion(tr, a, b, p) ==
  [tr EXCEPT !.static_incl_base = @ \cup {<<a, b, p>>}, !.invalidated = TRUE]

add_dynamic_inclusion(tr, a, b, p) ==
  [tr EXCEPT !.dynamic_incl_base = @ \cup {<<a, b, p>>}, !.invalidated = TRUE]

\* Mutant: a barrier does not discard what was computed without it.
mut_barrier_keeps_caches(tr, r, p) ==
  [tr EXCEPT !.barriers = @ \cup {<<r, p>>}, !.invalidated = TRUE]

add_barrier(tr, r, p) ==
  [tr EXCEPT !.barriers = @ \cup {<<r, p>>}, !.invalidated = TRUE,
             !.fully_invalidated = TRUE]

\* Both directions: the regions are equal at p.
add_static_equality(tr, a, b, p) ==
  add_static_inclusion(add_static_inclusion(tr, a, b, p), b, a, p)

-----------------------------------------------------------------------------
(* The caches.  A recomputation starts from the base facts and, unless a   *)
(* barrier was added since, from what the cache holds.                     *)

Reusable(tr, cache) == IF tr.fully_invalidated THEN {} ELSE UNION cache

recompute_static_incl(tr) ==
  [tr EXCEPT
     !.static_incl = {compute_transitive_closure(
                        tr.static_incl_base \cup Reusable(tr, tr.static_incl),
                        tr.barriers)},
     !.fully_invalidated = FALSE,
     !.invalidated = FALSE]

\* Mutant: the dynamic facts are left out of the full inclusions.
mut_full_without_dynamic(tr) ==
  [tr EXCEPT
     !.full_incl = {compute_transitive_closure(
                      (UNION tr.static_incl) \cup Reusable(tr, tr.full_incl), tr.barriers)},
     !.fully_invalidated = FALSE,
     !.invalidated = FALSE]

\* recompute_static_incl has reset fully_invalidated when the full cache is
\* considered.
recompute_full_incl(tr) ==
  [tr EXCEPT
     !.full_incl = {compute_transitive_closure(
                      (UNION tr.static_incl) \cup tr.dynamic_incl_base
                        \cup Reusable(tr, tr.full_incl), tr.barriers)},
     !.fully_invalidated = FALSE,
     !.invalidated = FALSE]

recompute(tr) == recompute_full_incl(recompute_static_incl(tr))

\* What a check leaves behind: it recomputes the cache it reads when needed.
refreshed(tr) ==
  IF tr.invalidated \/ tr.full_incl = {} THEN recompute(tr) ELSE tr
refreshed_static(tr) ==
  IF tr.invalidated \/ tr.static_incl = {} THEN recompute_static_incl(tr) ELSE tr

\* The answers of the checks, on a tracker they have refreshed.
check_inclusion(tr, r1, r2, p) ==
  <<r1, r2, p>> \in UNION tr.full_incl \/ r1 = r2
check_static_inclusion(tr, r1, r2, p) ==
  <<r1, r2, p>> \in UNION tr.static_incl \/ r1 = r2

is_region_known(tr, r) ==
  \E x \in tr.static_incl_base : x[1] = r \/ x[2] = r

-----------------------------------------------------------------------------
(* generate_dyn_inclusions makes the inclusions in incls hold by dynamic   *)
(* ones.  out is the tracker so far, the annotations so far, and whether   *)
(* every assertion held.                                                   *)

\* The order of a BTreeSet of inclusions at one point.
Before(x, y) == x[1] < y[1] \/ (x[1] = y[1] /\ x[2] < y[2])

\* What is visited in ascending order is folded from the greatest one down.
Greatest(S) == CHOOSE x \in S : \A y \in S \ {x} : Before(y, x)

ExtendLft(r)       == [op |-> "ExtendLft", lft |-> r, args |-> <<>>]
IncludeLft(r1, r2) == [op |-> "DynIncludeLft", lft |-> r1, args |-> <<r2>>]

\* The reverse inclusion holds: it has to be a static one.
extend_lft(out, r1, r2, p) ==
  [tr     |-> add_dynamic_inclusion(refreshed_static(out.tr), r1, r2, p),
   annots |-> Append(out.annots, ExtendLft(r1)),
   ok     |-> out.ok /\ check_static_inclusion(refreshed_static(out.tr), r2, r1, p)]

include_lft(out, r1, r2, p) ==
  [out EXCEPT !.tr = add_dynamic_inclusion(@, r1, r2, p),
              !.annots = Append(@, IncludeLft(r2, r1))]

enforce_inclusion(out, r1, r2, p) ==
  IF check_inclusion(out.tr, r1, r2, p) THEN out
  ELSE IF check_inclusion(out.tr, r2, r1, p) THEN extend_lft(out, r1, r2, p)
  ELSE include_lft(out, r1, r2, p)

generate_dyn_inclusion(out, r1, r2, p) ==
  enforce_inclusion([out EXCEPT !.tr = refreshed(@)], r1, r2, p)

\* Mutual inclusions are skipped.
generate_dyn_inclusions(out, incls) ==
  MapThenFoldSet(LAMBDA x, acc : IF <<x[2], x[1], x[3]>> \in incls THEN acc
                                 ELSE generate_dyn_inclusion(acc, x[1], x[2], x[3]),
                 out, LAMBDA x : x, Greatest, incls)
=============================================================================
