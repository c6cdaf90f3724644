--------------------------- MODULE LifetimeContext ---------------------------
(***************************************************************************)
(* The lifetime contexts of the type system and what the annotations of    *)
(* the frontend do to them (theories/rust_typing/lft_contexts.v and        *)
(* program_rules.v).  ctx is a context while a function body is checked:   *)
(*   names - the name map: a name of a region to the lifetime it stands for *)
(*   E     - pairs of lifetimes, the first included in the second          *)
(*   L     - the local lifetimes: included in the intersection of sup and  *)
(*           owned (a lifetime that can be ended), or equal to it          *)
(* Names are regions.  A lifetime is named by the region it was introduced *)
(* for.                                                                    *)
(***************************************************************************)
EXTENDS Naturals, Sequences, FiniteSets, SequencesExt

CONSTANTS
  Lft,    \* lifetimes, and the names of lifetimes
  Static  \* the static lifetime and its name

ASSUME LftAssumption == Lft \subseteq Nat /\ Static \in Lft

LftPairs == {<<k1, k2>> : k1, k2 \in Lft}
LocalLft == [lft : Lft, sup : SUBSET Lft, owned : BOOLEAN]

IsContext(ctx) ==
  /\ DOMAIN ctx.names \subseteq Lft
  /\ \A n \in DOMAIN ctx.names : ctx.names[n] \in Lft
  /\ ctx.E \subseteq LftPairs
  /\ ctx.L \subseteq LocalLft

-----------------------------------------------------------------------------
(* lctx_lft_incl: the inclusions of lifetimes that follow from E and L.    *)

Axioms(ctx) ==
  {<<k, k>> : k \in Lft} \cup {<<k, Static>> : k \in Lft} \cup ctx.E
    \cup UNION {{x.lft} \X x.sup : x \in ctx.L}

\* Inclusion is transitive, and an alias is the largest lifetime included in
\* all of those it stands for.
Follows(ctx, I, k1, k2) ==
  \/ \E k \in Lft : <<k1, k>> \in I /\ <<k, k2>> \in I
  \/ \E x \in ctx.L : /\ x.lft = k2 /\ ~x.owned
                      /\ \A k \in x.sup : <<k1, k>> \in I

lctx_lft_incl(ctx) ==
  LET cl[I \in SUBSET LftPairs] ==
        LET next == I \cup {p \in LftPairs : Follows(ctx, I, p[1], p[2])}
        IN  IF next = I THEN I ELSE cl[next]
  IN  cl[Axioms(ctx)]

-----------------------------------------------------------------------------
(* The annotations: an operation, the name it is about and other names.    *)

StartLft(n, sup)    == [op |-> "StartLft", lft |-> n, args |-> sup]
AliasLft(n, sup)    == [op |-> "AliasLft", lft |-> n, args |-> sup]
CopyLftName(n1, n2) == [op |-> "CopyLftName", lft |-> n2, args |-> <<n1>>]

\* The names an annotation looks up: checking fails when one has no lifetime.
Reads(a) ==
  ToSet(a.args) \cup IF a.op \in {"DynIncludeLft", "ExtendLft"} THEN {a.lft} ELSE {}

named_lft_update(ctx, n, k) ==
  [ctx EXCEPT !.names = [m \in DOMAIN @ \cup {n} |-> IF m = n THEN k ELSE @[m]]]

\* A new lifetime for n: the region's own, with an entry in L.
Introduce(ctx, a, owned) ==
  [named_lft_update(ctx, a.lft, a.lft) EXCEPT
     !.L = @ \cup {[lft |-> a.lft, sup |-> {ctx.names[n] : n \in ToSet(a.args)},
                    owned |-> owned]}]

type_dyn_include_lft(ctx, a) ==
  [ctx EXCEPT !.E = @ \cup {<<ctx.names[a.lft], ctx.names[a.args[1]]>>}]

\* Extending an owned lifetime turns it into an alias, and goes on with the
\* lifetimes it was included in.
iterate_extend_lft(L, k) ==
  LET reach[S \in SUBSET Lft] ==
        LET next == S \cup UNION {x.sup : x \in {y \in L : y.owned /\ y.lft \in S}}
        IN  IF next = S THEN S ELSE reach[next]
  IN  {[x EXCEPT !.owned = @ /\ x.lft \notin reach[{k}]] : x \in L}

type_extendlft(ctx, a) ==
  [ctx EXCEPT !.L = iterate_extend_lft(@, ctx.names[a.lft])]

type_copy_lft_name(ctx, a) ==
  named_lft_update(ctx, a.lft, ctx.names[a.args[1]])

\* The context after an annotation.
checked(ctx, a) ==
  CASE a.op = "StartLft"      -> Introduce(ctx, a, TRUE)
    [] a.op = "AliasLft"      -> Introduce(ctx, a, FALSE)
    [] a.op = "CopyLftName"   -> type_copy_lft_name(ctx, a)
    [] a.op = "DynIncludeLft" -> type_dyn_include_lft(ctx, a)
    [] a.op = "ExtendLft"     -> type_extendlft(ctx, a)
=============================================================================
