-------------------------- MODULE RegionTranslation --------------------------
(***************************************************************************)
(* A function body is translated block by block, in the order of the queue *)
(* of body/translation/mod.rs, and the result is checked by the type       *)
(* system along the paths of the control flow graph, with the lifetime     *)
(* contexts of LifetimeContext.  The inclusions the translation believes   *)
(* to hold at a point are those it omits annotations for: they have to     *)
(* hold in the contexts when the type system gets there.                   *)
(*                                                                         *)
(* Every block holds one statement.  Bodies whose loops the type system    *)
(* checks with invariants are not walked: the graph is acyclic.            *)
(***************************************************************************)
EXTENDS RegionAnnotations

CONSTANTS
  Candidates, \* bodies: a statement for each location
  Targets     \* the successors of each location, in order

VARIABLES
  body,           \* the body: a statement for each location
  inclusion_tracker,
  bb_queue,       \* blocks to translate, the next one last
  processed_bbs,  \* blocks that have been enqueued
  basic_blocks,   \* the annotations of the blocks translated so far
  panicked,       \* an assertion failed
  at,             \* the location the type system is checking, if any
  todo,           \* the annotations of it that are left
  ctx             \* the lifetime contexts

translation == <<inclusion_tracker, bb_queue, processed_bbs, basic_blocks, panicked>>
checking    == <<at, todo, ctx>>
vars        == <<body, translation, checking>>

ASSUME TargetsAssumption ==
  /\ Targets \in [Location -> Seq(Location)]
  /\ \A b \in Candidates : DOMAIN b = Location /\ \A loc \in Location : IsStatement(b[loc])
  /\ CfgSucc = UNION {{loc} \X ToSet(Targets[loc]) : loc \in Location}

-----------------------------------------------------------------------------
(* The bodies that can reach the translation: those that rustc accepts.    *)

Successors(loc) == ToSet(Targets[loc])

\* The places with region r are assigned on every path to loc: no path that
\* does not assign them reaches it.
Assigned(b, r, loc) ==
  LET reach[S \in SUBSET Location] ==
        LET next == S \cup UNION {Successors(p) : p \in {q \in S : ~(b[q].strong /\ r \in b[q].lhs)}}
        IN  IF next = S THEN S ELSE reach[next]
  IN  \/ \E e \in ArgMapping : e[2] = r
      \/ loc \notin reach[{Root}]

\* No place is read or written through before it is assigned.
Initialised(b) ==
  \A loc \in Location : \A e \in b[loc].facts : \A r \in {e[1], e[2]} \cap LocalDecls :
    Assigned(b, r, loc) \/ (b[loc].strong /\ r \in b[loc].lhs)

Reaches(l1, l2) ==
  LET reach[S \in SUBSET Location] ==
        LET next == S \cup UNION {Successors(p) : p \in S}
        IN  IF next = S THEN S ELSE reach[next]
  IN  l2 \in reach[Successors(l1)]
Mentioned(st) == UNION {{e[1], e[2]} : e \in st.facts}
AssignedBy(st) == IF st.strong THEN st.lhs ELSE {}

\* A place a mutable reference r2 points to is not accessed, through its region
\* r1, while the reference is still to be used.
Exclusive(b) ==
  \A l1 \in Location : \A e \in b[l1].facts :
    <<e[2], e[1]>> \in b[l1].facts /\ b[l1].strong /\ e[2] \in b[l1].lhs =>
      \A l2, l3 \in Location :
        /\ Reaches(l1, l2) /\ e[1] \in Mentioned(b[l2])
        /\ l2 = l3 \/ Reaches(l2, l3)
        => e[2] \notin Mentioned(b[l3]) \ AssignedBy(b[l3])

\* A region of a loan or a value belongs to one statement, and no universal
\* region flows into another one that is not known to include it.
BorrowChecked(b) ==
  /\ \A l1, l2 \in Location :
       l1 # l2 => Mentioned(b[l1]) \cap Mentioned(b[l2]) \subseteq LocalDecls \cup Placeholder
  /\ Exclusive(b)
  /\ TransitiveClosure(ArgMapping \cup UNION {b[loc].facts : loc \in Location})
       \cap (Placeholder \X Placeholder)
       \subseteq KnownSubset \cup {<<r, r>> : r \in Placeholder}

\* A call is not the first statement: its facts would be taken for those of
\* the root, and its regions never defined.
Bodies ==
  {b \in Candidates : Initialised(b) /\ BorrowChecked(b) /\ b[Root].rvalue # "Call"}

-----------------------------------------------------------------------------
Nowhere == "nowhere"

\* The names of the universal regions, and what is known of them.
initial_context ==
  [names |-> [r \in Placeholder |-> r],
   E |-> {<<e[2], e[1]>> : e \in KnownSubset}, L |-> {}]

Init ==
  /\ body \in Bodies
  /\ inclusion_tracker = initial_tracker(body)
  /\ bb_queue = <<Root>>
  /\ processed_bbs = {}
  /\ basic_blocks = <<>>
  /\ panicked = FALSE
  /\ at = Nowhere
  /\ todo = <<>>
  /\ ctx = initial_context

\* translate_goto_like: the targets not enqueued before, in order.
enqueue(loc) ==
  LET unseen(t) == IF t \in processed_bbs THEN <<>> ELSE <<t>>
      fresh == FlattenSeq([i \in DOMAIN Targets[loc] |-> unseen(Targets[loc][i])])
  IN  /\ bb_queue' = Front(bb_queue) \o fresh
      /\ processed_bbs' = processed_bbs \cup ToSet(fresh)

translate_basic_block ==
  /\ bb_queue # <<>> /\ ~panicked
  /\ \E loc \in {Last(bb_queue)} :
     \E out \in {translate_statement(body, loc, inclusion_tracker)} :
       /\ inclusion_tracker' = out.tr
       /\ panicked' = ~out.ok
       /\ basic_blocks' = [l \in DOMAIN basic_blocks \cup {loc} |->
                              IF l = loc THEN annotations(out) ELSE basic_blocks[l]]
       /\ enqueue(loc)
  /\ UNCHANGED <<body, checking>>

\* The body has been translated, and the type system begins with the first
\* block.
BeginCheck ==
  /\ bb_queue = <<>> /\ ~panicked /\ at = Nowhere
  /\ at' = Root
  /\ todo' = initial_annots(body) \o basic_blocks[Root]
  /\ UNCHANGED <<body, translation, ctx>>

\* The type system gets stuck on an annotation with a name that stands for
\* nothing.
typed_annot ==
  /\ todo # <<>>
  /\ Reads(Head(todo)) \subseteq DOMAIN ctx.names
  /\ ctx' = checked(ctx, Head(todo))
  /\ todo' = Tail(todo)
  /\ UNCHANGED <<body, translation, at>>

typed_goto ==
  /\ at # Nowhere /\ todo = <<>>
  /\ \E loc \in Successors(at) : at' = loc /\ todo' = basic_blocks[loc]
  /\ UNCHANGED <<body, translation, ctx>>

Next == translate_basic_block \/ BeginCheck \/ typed_annot \/ typed_goto

Spec == Init /\ [][Next]_vars

-----------------------------------------------------------------------------
(* Properties.                                                             *)

Base(tr) == tr.static_incl_base \cup tr.dynamic_incl_base

\* Unless it is marked invalid, the cache of static inclusions is what follows
\* from the static facts and the barriers: no barrier, added after facts had
\* already moved past it, is missed (add_barrier, recompute_static_incl).
StaticInclusionsExact ==
  LET tr == inclusion_tracker
  IN  ~tr.invalidated /\ tr.static_incl # {} =>
        tr.static_incl = {compute_transitive_closure(tr.static_incl_base, tr.barriers)}

\* Unless it is marked invalid, the cache of all inclusions holds every one
\* that follows, static or dynamic (recompute, check_inclusion).
FullInclusionsComplete ==
  LET tr == inclusion_tracker
  IN  ~tr.invalidated /\ tr.full_incl # {} =>
        compute_transitive_closure(Base(tr), tr.barriers) \subseteq UNION tr.full_incl

\* ... and no others: a new barrier invalidates all previous computations
\* (inclusion_tracker.rs:40).
FullInclusionsExact ==
  LET tr == inclusion_tracker
  IN  ~tr.invalidated /\ tr.full_incl # {} =>
        UNION tr.full_incl \subseteq compute_transitive_closure(Base(tr), tr.barriers)

\* The assertion of generate_dyn_inclusion: an inclusion that holds when its
\* reverse is to be added is a static one (inclusion_tracker.rs:202).
AssertionHolds == ~panicked

\* r1 included in r2, as Polonius orders them: the lifetime of r2 is included
\* in that of r1.
HoldsNow(r1, r2) ==
  /\ {r1, r2} \subseteq DOMAIN ctx.names
  /\ <<ctx.names[r2], ctx.names[r1]>> \in lctx_lft_incl(ctx)

Between == at # Nowhere /\ todo = <<>>

\* Every place is assigned at most once on the way to any location, arguments
\* never.
AssignedOnce ==
  \A loc \in Location : \A r \in AssignedBy(body[loc]) :
    /\ \A e \in ArgMapping : e[2] # r
    /\ \A l \in Location : r \in AssignedBy(body[l]) => ~Reaches(l, loc)

\* The places whose regions an assignment relates both ways are assigned
\* nowhere else.
EquatedOnce ==
  \A loc \in Location : \A e \in body[loc].facts :
    body[loc].strong /\ <<e[2], e[1]>> \in body[loc].facts =>
      \A r \in AssignedBy(body[loc]) \cap {e[1], e[2]} :
        /\ \A a \in ArgMapping : a[2] # r
        /\ \A l \in Location \ {loc} : r \notin AssignedBy(body[l])

\* Where control flow joins on the way to loc, the same inclusions of S are
\* behind all predecessors: none comes from one of them only.
Behind(S, loc) == {<<x[1], x[2]>> : x \in {y \in S : y[3] = Mid(loc)}}
MeetAlike(S, loc) ==
  \A e, f \in CfgSucc :
    e # f /\ e[2] = f[2] /\ (e[2] = loc \/ Reaches(e[2], loc)) =>
      Behind(S, e[1]) = Behind(S, f[1])

\* After a statement, the inclusions of S hold in the contexts of the type
\* system, whichever way it was reached, if they are alike on those ways.
HoldOnEveryWay(S) ==
  MeetAlike(S, at) => \A x \in Behind(S, at) : HoldsNow(x[1], x[2])

Believed == UNION refreshed(inclusion_tracker).full_incl

\* After each statement, whatever the tracker believes to hold there does hold
\* in the contexts of the type system, whichever way it was reached: in bodies
\* that assign every place once, and where branches that meet on the way leave
\* the tracker believing the same (the barriers of get_assignment_annots, the
\* names it copies, and the order of the blocks: a block may be translated before
\* one of its predecessors).
BelievedHoldsIfOnce == Between /\ AssignedOnce => HoldOnEveryWay(Believed)

\* What the facts and barriers of the tracker entail at the point behind each
\* statement holds there in the contexts of the type system: the inclusions are
\* known to hold at the current point (inclusion_tracker.rs:18-22).  Places may
\* be assigned again, unless their regions were related both ways; where branches
\* meet on the way, what is entailed has to be the same behind all of them.
FactsHoldIfEquatedOnce ==
  Between /\ EquatedOnce =>
    HoldOnEveryWay(compute_transitive_closure(Base(inclusion_tracker), inclusion_tracker.barriers))

\* After a write through a reference every inclusion the borrow checker asks
\* for holds, unless it is asked for both ways (generate_dyn_inclusions skips
\* those): no annotation it needs is left out.  Places are assigned once, and
\* branches that meet on the way leave the tracker believing the same.
WeakUpdatesEnforced ==
  Between /\ AssignedOnce /\ ~body[at].strong /\ MeetAlike(Believed, at) =>
    \A e \in body[at].facts :
      <<e[2], e[1]>> \in body[at].facts \/ HoldsNow(e[1], e[2])

=============================================================================
