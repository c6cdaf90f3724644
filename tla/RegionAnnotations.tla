-------------------------- MODULE RegionAnnotations --------------------------
(***************************************************************************)
(* The lifetime annotations the frontend generates for the statements of a *)
(* function body (rr_frontend/translation/src/regions/{assignment,         *)
(* composite,calls,init}.rs and body/translation/{basicblock,calls}.rs).   *)
(*                                                                         *)
(* A statement is what the generation reads of it: facts, the pairs of     *)
(* regions that Polonius relates at its middle point; lhs, the regions of  *)
(* the type of the assigned place, and strong, whether no reference is on  *)
(* the way to the place; ty, the regions of the type of the value; loan,   *)
(* the region of the loan it issues; rvalue and region, the form of the    *)
(* value and the region of a reference; recovered, what a call knows of    *)
(* the unconstrained regions.  Optional regions are sets of at most one.   *)
(***************************************************************************)
EXTENDS InclusionTracker, LifetimeContext

CONSTANTS
  Root,           \* the first location
  Placeholder,    \* universal regions
  FunctionLft,    \* the one of the function itself
  LocalDecls,     \* regions in the types of the local variables
  KnownSubset,    \* known inclusions of universal regions
  ArgMapping      \* pairs of a universal region and an argument's region

ASSUME RegionAssumption ==
  /\ Region = Lft /\ Root \in Location /\ \A e \in CfgSucc : e[2] # Root
  /\ Placeholder \subseteq Region /\ {Static, FunctionLft} \subseteq Placeholder
  /\ LocalDecls \subseteq Region \ Placeholder
  /\ KnownSubset \subseteq Placeholder \X Placeholder
  /\ ArgMapping \subseteq Placeholder \X LocalDecls

IsStatement(st) ==
  /\ st.facts \subseteq Region \X Region
  /\ UNION {st.lhs, st.ty, st.loan, st.region} \subseteq Region
  /\ \A r \in DOMAIN st.recovered : st.recovered[r] \in Region

-----------------------------------------------------------------------------
(* The facts of a body b (polonius_info.rs).                               *)

subset_base(b) ==
  {<<e[1], e[2], Start(Root)>> : e \in ArgMapping}
    \cup UNION {{<<e[1], e[2], Mid(loc)>> : e \in b[loc].facts} : loc \in Location}

is_loan(b, r)  == \E loc \in Location : r \in b[loc].loan
is_place(b, r) == ~is_loan(b, r) /\ r \in LocalDecls
is_value(b, r) == ~is_loan(b, r) /\ r \notin Placeholder /\ r \notin LocalDecls
is_unconstrained(b, r) ==
  /\ ~is_loan(b, r) /\ r \notin Placeholder
  /\ \A x \in subset_base(b) : x[2] # r

TransitiveClosure(S) ==
  LET cl[R \in SUBSET (Region \X Region)] ==
        LET next == R \cup UNION {{<<e[1], f[2]>> : f \in {g \in R : g[1] = e[2]}} : e \in R}
        IN  IF next = R THEN R ELSE cl[next]
  IN  cl[S]

FactsAt(loc, S) == {<<e[1], e[2], Mid(loc)>> : e \in S}
get_new_subset_constraints_at_point(b, loc) == b[loc].facts \ b[Root].facts

-----------------------------------------------------------------------------
(* Adding a set of inclusions one by one, and each with its reverse.       *)

Sorted(S) == SetToSortSeq(S, Before)
Ascending(S) == SetToSortSeq(S, <)

Reversed(S) == {<<x[2], x[1], x[3]>> : x \in S}
include_all(tr, S) ==
  IF S = {} THEN tr ELSE [tr EXCEPT !.static_incl_base = @ \cup S, !.invalidated = TRUE]
equate_all(tr, S) == include_all(tr, S \cup Reversed(S))
copy_all(S) ==
  [i \in 1..Cardinality(S) |-> CopyLftName(Sorted(S)[i][1], Sorted(S)[i][2])]

-----------------------------------------------------------------------------
(* init.rs *)

initialize_inclusion_tracker ==
  include_all(new, {<<e[1], e[2], Start(Root)>> : e \in KnownSubset})

UniversalArgs == {<<e[1], e[2], Start(Root)>> : e \in ArgMapping}

get_initial_closure_constraints(b) ==
  FactsAt(Root, {e \in b[Root].facts : /\ <<e[2], e[1]>> \in b[Root].facts
                                       /\ is_place(b, e[1]) /\ is_value(b, e[2])})

\* The tracker before the first statement, and the annotations before it.
initial_tracker(b) ==
  equate_all(equate_all(initialize_inclusion_tracker, UniversalArgs),
             get_initial_closure_constraints(b))
initial_annots(b) == copy_all(UniversalArgs) \o copy_all(get_initial_closure_constraints(b))

-----------------------------------------------------------------------------
(* The translation of a statement is a sequence of steps on out: the       *)
(* tracker, whether all assertions held, and the annotations to put before *)
(* the statement (pre), before its assignment takes place (dyn), and after *)
(* it (post).                                                              *)

Nothing(tr) == [tr |-> tr, ok |-> TRUE, pre |-> <<>>, dyn |-> <<>>, post |-> <<>>]
annotations(out) == out.pre \o out.dyn \o out.post

\* assignment.rs: a new loan is included in the regions that outlive it.
Outliving(b, loc) == {e \in b[loc].facts : e[2] \in b[loc].loan}

loan_bounds(b, loc) ==
  IF Outliving(b, loc) = {} THEN <<FunctionLft>>
  ELSE Ascending({e[1] : e \in Outliving(b, loc)})

get_assignment_loan_annots(b, loc, out) ==
  [out EXCEPT
     !.tr  = include_all(@, FactsAt(loc, Outliving(b, loc))),
     !.pre = SetToSeq({StartLft(r, loan_bounds(b, loc)) : r \in b[loc].loan}) \o @]

\* composite.rs: the regions of a composite value are those of its parts.
parts(b, loc) ==
  FactsAt(loc, {e \in b[loc].facts : /\ is_place(b, e[1]) /\ is_value(b, e[2])
                                     /\ e[2] \in b[loc].ty
                                     /\ <<e[2], e[1]>> \notin b[loc].facts})

get_composite_rvalue_creation_annots(b, loc, out) ==
  [out EXCEPT !.tr = equate_all(@, parts(b, loc)), !.pre = copy_all(parts(b, loc)) \o @]

\* The facts of a location that do not hold yet; to find them is to query the
\* tracker.
Missing(b, loc, tr) ==
  {x \in FactsAt(loc, b[loc].facts) : ~check_inclusion(tr, x[1], x[2], x[3])}
queried(b, loc, out) ==
  IF b[loc].facts = {} THEN out ELSE [out EXCEPT !.tr = refreshed(@)]

\* One constraint of a strong update: the name of the place's region becomes
\* that of the value's, unless nothing is known of it.
enforce_equality(b, out, x) ==
  IF ~is_region_known(out.tr, x[1]) /\ ~is_loan(b, x[1]) /\ ~is_unconstrained(b, x[1])
  THEN out
  ELSE [out EXCEPT !.tr = add_static_equality(@, x[1], x[2], x[3]),
                   !.post = Append(@, CopyLftName(x[1], x[2]))]

update_barriers(b, loc, out) ==
  [out EXCEPT !.tr =
     MapThenFoldSet(LAMBDA r, t : add_barrier(t, r, Mid(loc)), @, LAMBDA r : r, Max, b[loc].lhs)]

equate_missing(b, loc, out) ==
  MapThenFoldSet(LAMBDA x, acc : enforce_equality(b, acc, x), out, LAMBDA x : x, Greatest,
                 {x \in Missing(b, loc, out.tr) : is_place(b, x[2])})
strong_update(b, loc, out) ==
  equate_missing(b, loc, queried(b, loc, update_barriers(b, loc, out)))

enforced(out, g) == [out EXCEPT !.tr = g.tr, !.ok = @ /\ g.ok, !.dyn = @ \o g.annots]
Made(out) == [tr |-> out.tr, annots |-> <<>>, ok |-> TRUE]

\* Mutant: a constraint whose reverse holds is taken to hold.
mut_include_missing(b, loc, out) ==
  enforced(out, generate_dyn_inclusions(Made(out),
    {x \in Missing(b, loc, out.tr) : ~check_inclusion(out.tr, x[2], x[1], x[3])}))

include_missing(b, loc, out) ==
  enforced(out, generate_dyn_inclusions(Made(out), Missing(b, loc, out.tr)))
weak_update(b, loc, out) == include_missing(b, loc, queried(b, loc, out))

get_assignment_annots(b, loc, out) ==
  IF b[loc].strong THEN strong_update(b, loc, out) ELSE weak_update(b, loc, out)

get_new_unconstrained_regions(b, loc) ==
  {e[1] : e \in {f \in b[loc].facts : is_unconstrained(b, f[1])}}

\* A region nothing constrains: the region of a shared reborrow, a borrow from
\* a raw pointer, whose lifetime the user bounds by that of the function here,
\* or else a static.
reborrowed(b, loc) ==
  {e \in get_new_subset_constraints_at_point(b, loc) : e[2] \in b[loc].region}
Least(S) == CHOOSE x \in S : \A y \in S \ {x} : Before(x, y)
reborrow_annotation(loc, out, e) ==
  [out EXCEPT !.tr = add_static_inclusion(@, e[1], e[2], Mid(loc)),
              !.dyn = Append(@, CopyLftName(e[1], e[2]))]
unconstrained_annotation(b, loc, out, r) ==
  IF b[loc].rvalue = "Shared" /\ reborrowed(b, loc) # {}
  THEN reborrow_annotation(loc, out, Least(reborrowed(b, loc)))
  ELSE [out EXCEPT !.dyn = Append(@, IF b[loc].rvalue # "Constant" /\ r \in b[loc].region
                                     THEN StartLft(r, <<FunctionLft>>)
                                     ELSE CopyLftName(Static, r))]

\* They come first of all the annotations.
unconstrained_first(out, free) == [free EXCEPT !.pre = free.dyn \o @, !.dyn = out.dyn]
make_unconstrained_region_annotations(b, loc, out) ==
  unconstrained_first(out,
    MapThenFoldSet(LAMBDA r, acc : unconstrained_annotation(b, loc, acc, r),
                   [out EXCEPT !.dyn = <<>>], LAMBDA r : r, Max, get_new_unconstrained_regions(b, loc)))

translate_assign(b, loc, tr) ==
  make_unconstrained_region_annotations(b, loc,
    get_assignment_annots(b, loc,
      get_composite_rvalue_creation_annots(b, loc,
        get_assignment_loan_annots(b, loc, Nothing(tr)))))

-----------------------------------------------------------------------------
(* regions/calls.rs and body/translation/calls.rs: the regions a call      *)
(* introduces are defined in terms of those it relates them to.            *)

call_constraints(b, loc) ==
  {e \in get_new_subset_constraints_at_point(b, loc) :
     is_value(b, e[1]) \/ is_value(b, e[2])}
call_regions(b, loc) ==
  {r \in Region : is_value(b, r) /\ \E e \in call_constraints(b, loc) : r \in {e[1], e[2]}}

\* For a region r of the call, with the relevant constraints R and regions C of
\* the call: the regions that help to define r, and those it can be set equal
\* to.  Of two equal regions of the call the larger one is defined by the
\* smaller one.
helpful(tr, R, C, r) ==
  {r1 \in Region \ {r} : <<r1, r>> \in R /\ (is_region_known(tr, r1) \/ r1 \in C)}
equal_to(tr, R, C, r) ==
  {r1 \in helpful(tr, R, C, r) : <<r, r1>> \in R /\ (r1 \in C => r1 < r)}
intersection_of(tr, R, C, r) ==
  {r1 \in helpful(tr, R, C, r) \ C : <<r, r1>> \notin R}

\* The definition of r comes into effect before the call, at its start point.
set_equal(loc, out, r, r1) ==
  [out EXCEPT !.tr = add_static_equality(@, r, r1, Start(loc)),
              !.pre = Append(@, CopyLftName(r1, r))]
set_intersection(loc, out, r, rs) ==
  [out EXCEPT !.tr = include_all(@, {<<r2, r, Start(loc)>> : r2 \in rs}),
              !.pre = Append(@, IF \E r2 \in rs : rs = {r2} THEN CopyLftName(Min(rs), r)
                                ELSE AliasLft(r, Ascending(rs)))]
define_call_region(loc, out, r, eq, is) ==
  IF eq # {} THEN set_equal(loc, out, r, Min(eq))
  ELSE IF is # {} THEN set_intersection(loc, out, r, is)
  ELSE out

define_call_regions(loc, out, R, C) ==
  MapThenFoldSet(LAMBDA r, acc : define_call_region(loc, acc, r, equal_to(out.tr, R, C, r),
                                                    intersection_of(out.tr, R, C, r)),
                 out, LAMBDA r : r, Max, C)
compute_call_regions(b, loc, out) ==
  define_call_regions(loc, out, TransitiveClosure(call_constraints(b, loc)),
                      call_regions(b, loc))

\* Unconstrained regions that are lifetime parameters of the callee are set
\* equal to what these are instantiated with.
recovered_regions(b, loc) ==
  {<<b[loc].recovered[r], r, Mid(loc)>> :
     r \in get_new_unconstrained_regions(b, loc) \cap DOMAIN b[loc].recovered}
compute_unconstrained_region_annots(b, loc, out) ==
  [out EXCEPT !.tr = equate_all(@, recovered_regions(b, loc)),
              !.dyn = @ \o copy_all(recovered_regions(b, loc))]

translate_function_call(b, loc, tr) ==
  compute_unconstrained_region_annots(b, loc,
    get_assignment_annots(b, loc, compute_call_regions(b, loc, Nothing(tr))))

translate_statement(b, loc, tr) ==
  IF b[loc].rvalue = "Call" THEN translate_function_call(b, loc, tr)
  ELSE translate_assign(b, loc, tr)
=============================================================================
