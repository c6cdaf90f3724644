------------------------- MODULE TraitRequirements -------------------------
(* The trait requirements of an item, in the order in which they become    *)
(* parameters of the generated definitions (traits/requirements.rs,        *)
(* rustcmp.rs).  The list is computed anew wherever it is needed; each     *)
(* computation is a choice from the set of the orders it can produce,      *)
(* since requirements that are ready together leave the topological sort   *)
(* in the order of a hash map.                                             *)
EXTENDS Integers, FiniteSets, SequencesExt, FiniteSetsExt

CONSTANTS
  DefPath,     \* the place of each trait in the order of the paths
  ParamIndex,  \* the index of each type parameter, Self is 0
  HasAssoc,    \* the traits with an associated type (at most one each)
  Attrs,       \* the specification attributes each trait declares
  Builtin      \* Sized, Tuple, Destruct, ...

ASSUME TraitNames == /\ Builtin \subseteq DOMAIN DefPath
                     /\ HasAssoc \subseteq DOMAIN DefPath
                     /\ DOMAIN Attrs = DOMAIN DefPath
                     /\ \A p, q \in DOMAIN DefPath : DefPath[p] = DefPath[q] => p = q

VARIABLES
  program,  \* the items and what is asked of them; never changes
  orders    \* what get_trait_requirements_with_origin can return, by item

(* Types are sequences: <<"T">>, <<"Int">>, <<"Vec", "T">> for Vec<T> and  *)
(* <<"proj", "It", "T">> for <T as It>::Item.  A bound is a trait with its *)
(* arguments, Self first, and a lifetime argument.                         *)
Item(did)      == program.items[did]
HasParent(did) == Item(did).parent # ""
generics_of(did) == (IF HasParent(did) THEN Item(Item(did).parent).params ELSE << >>)
                      \o Item(did).params
SelfBound(tr)  == [tr |-> tr, args |-> [i \in DOMAIN Item(tr).params |-> <<Item(tr).params[i]>>], lft |-> ""]
OwnBounds(did) == (IF Item(did).kind = "trait" THEN <<SelfBound(did)>> ELSE << >>) \o Item(did).bounds
caller_bounds(did) == (IF HasParent(did) THEN OwnBounds(Item(did).parent) ELSE << >>) \o OwnBounds(did)
Equalities(did) == Item(did).eqs \cup (IF HasParent(did) THEN Item(Item(did).parent).eqs ELSE {})

trait_of_assoc(did) == IF Item(did).kind = "method" THEN Item(did).parent ELSE ""
impl_of_assoc(did)  == IF Item(did).kind = "impl_method" THEN Item(did).parent ELSE ""
is_trait(did)       == Item(did).kind = "trait"

(* The elements of s at the places in I, in their order. *)
Chosen(s, I) == [n \in 1 .. Cardinality(I) |-> s[CHOOSE i \in I : Cardinality({j \in I : j <= i}) = n]]

is_param_0(ty) == ty = <<"Self">>
generate_args_inst_key(b) == <<b.tr, b.args>>  \* lifetimes are erased

-----------------------------------------------------------------------------
(* The comparison of arguments: parameters by their index, then everything *)
(* that is not one by its kind.  Between the two the answer is "less"      *)
(* whichever comes first.                                                  *)
ty_discriminant(h) == CASE h = "Int" -> 2 [] h = "Vec" -> 5 [] OTHER -> 23
Sign(n) == IF n < 0 THEN -1 ELSE IF n > 0 THEN 1 ELSE 0
cmp_head(x, y) ==
  IF x \in DOMAIN ParamIndex
  THEN IF y \in DOMAIN ParamIndex THEN Sign(ParamIndex[x] - ParamIndex[y]) ELSE -1
  ELSE Sign(ty_discriminant(x) - ty_discriminant(y))
cmp_arg_ref(a, b) ==  \* below equal type constructors the arguments decide
  LET j == Min({i \in 1 .. Min({Len(a), Len(b)}) : ~(a[i] = "Vec" /\ b[i] = "Vec")})
  IN  cmp_head(a[j], b[j])

LftIndex(l) == IF l = "b" THEN 2 ELSE IF l = "a" THEN 1 ELSE 0
cmp_arg_refs(a, b) ==  \* Self, then the lifetime, then the other arguments
  LET c == [i \in 1 .. Len(a.args) + 1 |->
              IF i = 1 THEN cmp_arg_ref(a.args[1], b.args[1])
              ELSE IF i = 2 THEN Sign(LftIndex(a.lft) - LftIndex(b.lft))
              ELSE cmp_arg_ref(a.args[i - 1], b.args[i - 1])]
      differ == {i \in DOMAIN c : c[i] # 0}
  IN  IF differ = {} THEN 0 ELSE c[Min(differ)]

IsSelfUse(b, tr) == b.tr = tr /\ is_param_0(b.args[1])
\* Mutant: the requirement on Self is sorted like the others.
mut_self_not_special(in_trait_decl, a, b) ==
  IF a.tr # b.tr THEN Sign(DefPath[a.tr] - DefPath[b.tr]) ELSE cmp_arg_refs(a, b)
cmp_trait_ref(in_trait_decl, a, b) ==
  CASE IsSelfUse(a, in_trait_decl) -> 1
    [] IsSelfUse(b, in_trait_decl) -> -1
    [] a.tr # b.tr                 -> Sign(DefPath[a.tr] - DefPath[b.tr])
    [] OTHER                       -> cmp_arg_refs(a, b)

(* The stable sort of a short slice: each element moves left as long as it *)
(* is less than its neighbour.                                             *)
sort_by(refs, in_trait_decl) ==
  LET insert(s, b) ==
        LET stop == {j \in DOMAIN s : cmp_trait_ref(in_trait_decl, b, s[j]) # -1}
        IN  InsertAt(s, 1 + Max(stop \cup {0}), b)
  IN  FoldLeft(insert, << >>, refs)

-----------------------------------------------------------------------------
\* Mutant: a trait depends on itself.
mut_depends_on_itself(tr) == {OwnBounds(tr)[i].tr : i \in DOMAIN OwnBounds(tr)}
trait_get_deps(tr) == {OwnBounds(tr)[i].tr : i \in DOMAIN OwnBounds(tr)} \ {tr}

(* What is left of the requirements of a topological sort after each       *)
(* pop_all.                                                                *)
Left(refs) ==
  LET before(j, i) == refs[j].tr \in trait_get_deps(refs[i].tr)
      left[n \in 0 .. Cardinality(DOMAIN refs)] ==
        IF n = 0 THEN DOMAIN refs
        ELSE {i \in left[n - 1] : \E j \in left[n - 1] : before(j, i)}
  IN  left

(* All results of get_nontrivial.  There is none if traits depend on each  *)
(* other: pop_all is then empty, and the loop does not end.                *)
get_nontrivial(did, in_trait_decl) ==
  LET bounds == caller_bounds(did)
      refs   == Restrict(bounds, {i \in DOMAIN bounds : bounds[i].tr \notin Builtin})
      rounds == Cardinality(DOMAIN refs)
      left   == Left(refs)
      popped(layer) == {sort_by([i \in DOMAIN s |-> refs[s[i]]], in_trait_decl) : s \in SetToSeqs(layer)}
      append(done, n) == UNION {{s \o t : t \in popped(left[n - 1] \ left[n])} : s \in done}
  IN  IF left[rounds] # {} THEN {} ELSE FoldLeft(append, {<< >>}, [n \in 1 .. rounds |-> n])

Surrounding(did) == IF HasParent(did) THEN ToSet(OwnBounds(Item(did).parent)) ELSE {}

get_trait_assoc_constraints(did, b) ==
  {e \in Equalities(did) : e.tr = b.tr /\ e.args = b.args}

TraitReqMeta(did, b) ==
  LET decl  == IF is_trait(did) THEN did ELSE trait_of_assoc(did)
      constr == get_trait_assoc_constraints(did, b)
  IN  [key    |-> generate_args_inst_key(b),
       origin |-> IF b \notin Surrounding(did) THEN "Direct"
                  ELSE IF trait_of_assoc(did) # "" THEN "SurroundingTrait" ELSE "SurroundingImpl",
       is_used_in_self_trait |-> IsSelfUse(b, decl),
       is_self_in_trait_decl |-> is_trait(did) /\ IsSelfUse(b, decl),
       constr |-> IF constr = {} THEN << >> ELSE (CHOOSE e \in constr : TRUE).ty]

Requirements(did) ==
  LET decl == IF is_trait(did) THEN did ELSE trait_of_assoc(did)
  IN  {[i \in DOMAIN s |-> TraitReqMeta(did, s[i])] : s \in get_nontrivial(did, decl)}

(* A table of a pure function of the program.                              *)
OrdersInit == orders = [did \in DOMAIN program.items |-> Requirements(did)]
get_trait_requirements_with_origin(did) == orders[did]

(* No two requirements that are ready together are ordered both ways.      *)
Comparable(did) == Cardinality(orders[did]) <= 1
=============================================================================
