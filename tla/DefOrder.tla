------------------------------ MODULE DefOrder ------------------------------
(* The order in which definitions are written (order_defs_with_deps in     *)
(* base.rs): a topological sort in layers, over what depends on what.      *)
EXTENDS FiniteSets, Naturals, Sequences

DefsOf(deps) == DOMAIN deps \cup UNION {deps[d] : d \in DOMAIN deps}

DepsOf(deps, d) == IF d \in DOMAIN deps THEN deps[d] ELSE {}

(* pop_all: what depends on nothing that is left. *)
Ready(deps, left) == {d \in left : DepsOf(deps, d) \cap left = {}}

(* What is left after n layers. *)
Remaining(deps) ==
  LET left[n \in 0 .. Cardinality(DefsOf(deps))] ==
        IF n = 0 THEN DefsOf(deps) ELSE left[n - 1] \ Ready(deps, left[n - 1])
  IN  left

(* A cycle leaves something that is never ready: the frontend panics. *)
cyclic(deps) == Remaining(deps)[Cardinality(DefsOf(deps))] # {}

(* The layers; within one, definitions are ordered by the hash of their    *)
(* paths.  Only what is defined here is kept.                              *)
order_defs_with_deps(deps) ==
  [n \in 1 .. Cardinality(DefsOf(deps)) |->
     Ready(deps, Remaining(deps)[n - 1]) \cap DOMAIN deps]

(* Whatever a definition depends on is written in an earlier layer. *)
DepsEarlier(layers, deps) ==
  \A n \in DOMAIN layers : \A d \in layers[n] :
    DepsOf(deps, d) \cap DOMAIN deps \subseteq UNION {layers[m] : m \in 1 .. n - 1}
=============================================================================
