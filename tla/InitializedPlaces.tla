------------------------- MODULE InitializedPlaces -------------------------
(***************************************************************************)
(* The domain of the definitely-initialised analysis (rr_frontend/         *)
(* analysis/src/domains/definitely_initialized): sets of places, each of   *)
(* which stands for itself and everything below it.                        *)
(*                                                                         *)
(* A place is a local and the projections applied to it, a sequence.  A    *)
(* statement or terminator is what the analysis reads of it: the places it *)
(* moves out of or takes apart, in order, and the one it assigns.          *)
(***************************************************************************)
EXTENDS Naturals, Sequences, FiniteSets, SequencesExt

CONSTANTS
  Place,    \* the places of the locals, closed under prefixes
  Args      \* the locals that are arguments

\* What stands for a local: the place without projections.
Locals == {p \in Place : Len(p) = 1}
Parent(p) == Front(p)

\* What expand_struct_place lists for a place: its fields, not what a pointer
\* points to.
fields(p) == {q \in Place : Len(q) = Len(p) + 1 /\ Parent(q) = p /\ Last(q) # "deref"}

\* What has fields is not a pointer.
ASSUME PlaceAssumption ==
  /\ \A p \in Place :
       /\ p \in Seq(STRING) /\ p # <<>>
       /\ \A n \in 1 .. Len(p) : SubSeq(p, 1, n) \in Place
       /\ fields(p) # {} => Append(p, "deref") \notin Place
  /\ Args \subseteq Locals

is_prefix(p, potential_prefix) == IsPrefix(potential_prefix, p)

\* expand_one_level from the parent of p towards p: the other fields, if p is
\* one.
others(p) == IF p \in fields(Parent(p)) THEN fields(Parent(p)) \ {p} ELSE {}

\* Mutant: the places next to the last step only.
mut_expand_last(minuend, subtrahend) ==
  IF minuend = subtrahend THEN {} ELSE others(subtrahend)

expand(minuend, subtrahend) ==
  UNION {others(SubSeq(subtrahend, 1, n)) : n \in (Len(minuend) + 1) .. Len(subtrahend)}

\* Collapse into the prefix of guide of length n, if all its parts are there.
collapse_one(S, guide, n) ==
  LET part  == SubSeq(guide, 1, n + 1)
      parts == others(part) \cup {part}
  IN  IF parts \subseteq S THEN (S \ parts) \cup {Front(part)} ELSE S

collapse(S, guide) ==
  FoldLeft(LAMBDA T, n : collapse_one(T, guide, n),
           S, [i \in 1 .. (Len(guide) - 1) |-> Len(guide) - i])

set_place_initialised(S, p) ==
  IF \E q \in S : is_prefix(p, q) THEN S
  ELSE collapse({q \in S : ~is_prefix(q, p)} \cup {p}, p)

\* Mutant: the case of a place of which only some fields are in the set.
mut_keep_parts(S, p) ==
  {q \in S : ~is_prefix(p, q)} \cup UNION {expand(q, p) : q \in {r \in S : is_prefix(p, r)}}

set_place_uninitialised(S, p) ==
  {q \in S : ~is_prefix(p, q) /\ ~is_prefix(q, p)}
    \cup UNION {expand(q, p) : q \in {r \in S : is_prefix(p, r)}}

uninitialise_all(S, ps) == FoldLeft(set_place_uninitialised, S, ps)

join_places(S, T) ==
  {p \in S : \E q \in T : is_prefix(p, q)} \cup {p \in T : \E q \in S : is_prefix(p, q)}

top_places        == {}
initial_places(B) == Args

\* Mutant: the analysis starts from nothing.
mut_bottom_is_top == top_places

bottom_places == Locals

-----------------------------------------------------------------------------
(* Statements. *)

\* target = f(moved): the target is a set of at most one place.
Assign(moved, target) == [moved |-> moved, target |-> target]
StorageDead(local)    == [moved |-> <<local>>, target |-> {}]
OtherStatement        == [moved |-> <<>>, target |-> {}]

initialise_any(S, target) ==
  IF target = {} THEN S ELSE set_place_initialised(S, CHOOSE p \in target : TRUE)

statement_effect(st, S) ==
  initialise_any(uninitialise_all(S, st.moved), st.target)

-----------------------------------------------------------------------------
(* Terminators.  They lead to the blocks to, when they unwind to those in   *)
(* cleanup, and when they are an asynchronous drop also to those in drop,   *)
(* which the analysis does not know of.                                     *)

Goto(bs) ==
  [k |-> "Goto", moved |-> <<>>, dest |-> {}, to |-> bs, cleanup |-> <<>>, drop |-> {}]
SwitchInt(moved, bs)           == [Goto(bs) EXCEPT !.k = "SwitchInt", !.moved = moved]
Call(moved, dest, bs, cleanup) ==
  [Goto(bs) EXCEPT !.k = "Call", !.moved = moved, !.dest = dest, !.cleanup = cleanup]
Drop(p, b, cleanup)            == [Call(<<p>>, {}, <<b>>, cleanup) EXCEPT !.k = "Drop"]
AsyncDrop(p, b, cleanup, d)    == [Drop(p, b, cleanup) EXCEPT !.drop = {d}]
InlineAsm(bs)                  == [Goto(bs) EXCEPT !.k = "InlineAsm"]

successors_of(t) == ToSet(t.to) \cup ToSet(t.cleanup) \cup t.drop
is_supported(t)  == t.k # "InlineAsm"

\* The blocks for unwinding get the top element: imprecision for error states.
terminator_effect(t, S) ==
  [i \in DOMAIN t.to |-> <<t.to[i], initialise_any(uninitialise_all(S, t.moved), t.dest)>>]
    \o [i \in DOMAIN t.cleanup |-> <<t.cleanup[i], top_places>>]

-----------------------------------------------------------------------------
(* Runs: which cells are initialised.  A cell is a place without fields; a *)
(* pointer is a cell, and what it points to others.                        *)

Cell == {p \in Place : fields(p) = {}}
cells(p) == {c \in Cell : is_prefix(c, p)}
cells_of(S) == UNION {cells(p) : p \in S}

Concrete == SUBSET Cell
initial_cells(B) == {cells_of(Args)}

\* The pointers on the way to a place: it can only be assigned when they are
\* initialised.
on_the_way(p) == {SubSeq(p, 1, n) : n \in 1 .. (Len(p) - 1)} \cap Cell

Moved(C, ps)     == C \ cells_of(ToSet(ps))
Initialised(C, target) == C \cup cells_of(target)
Accessible(C, target)  == UNION {on_the_way(p) : p \in target} \subseteq C

\* Operands are not asked to be initialised: a body that the borrow checker
\* would reject gets more runs here, not fewer.
statement_run(st, C) ==
  IF Accessible(Moved(C, st.moved), st.target)
  THEN {Initialised(Moved(C, st.moved), st.target)} ELSE {}

terminator_run(t, C) ==
  {<<b, Initialised(Moved(C, t.moved), t.dest)>> :
      b \in IF Accessible(Moved(C, t.moved), t.dest) THEN ToSet(t.to) ELSE {}}
    \cup {<<b, Moved(C, t.moved)>> : b \in ToSet(t.cleanup) \cup t.drop}

holds(S, C) == cells_of(S) \subseteq C

-----------------------------------------------------------------------------
\* The invariant of the domain (state.rs, check_invariant): never a place and
\* one of its descendants.
check_invariant(S) ==
  \A p, q \in S : p # q => ~is_prefix(p, q)

States == {S \in SUBSET Place : check_invariant(S)}
=============================================================================
