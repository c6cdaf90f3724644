--------------------------- MODULE GenericScopes ---------------------------
(* The scope of an item: its type parameters and its trait requirements,   *)
(* each in a cell that is allocated empty, filled, constrained and then    *)
(* finalized by resolving the requirements of its trait                    *)
(* (types/scope.rs, traits/registry.rs, radium/specs).                     *)
EXTENDS TraitRequirements

VARIABLES
  did,      \* the item whose scope is built, "" if none
  pass,     \* what add_trait_requirements does at the moment
  todo,     \* the requirements the pass has still to visit
  reqs,     \* the requirements of the item in their order
  cells,    \* used_traits: the cell of each key
  names,    \* assoc_ty_names and attribute_names
  scopes,   \* the finished scopes
  status    \* running, error, panic or loops

scopevars == <<did, pass, todo, reqs, cells, names, scopes, status>>

Empty == [state |-> "empty", self_use |-> FALSE, origin |-> "Direct",
          is_used_in_self_trait |-> FALSE, constr |-> << >>, tys |-> << >>, reqs |-> << >>, overridden |-> FALSE]

-----------------------------------------------------------------------------
(* Types in a scope. *)
AssocLit(key) == <<"assoc", key[1]>> \o FlattenSeq(key[2])
IsProj(ty)    == ty[1] = "proj"
ProjKey(ty)   == <<ty[2], <<<<ty[3]>>>>>>
Proj(key)     == <<"proj", key[1]>> \o key[2][1]

(* rustc rewrites a projection along the equalities of the environment. *)
normalize(ty, env) ==
  LET eqs(t) == {e \in Equalities(env) : IsProj(t) /\ <<e.tr, e.args>> = ProjKey(t)}
      along[n \in 0 .. Cardinality(Equalities(env))] ==
        IF n = 0 THEN ty
        ELSE LET t == along[n - 1] IN IF eqs(t) = {} THEN t ELSE (CHOOSE e \in eqs(t) : TRUE).ty
  IN  along[Cardinality(Equalities(env))]

\* Mutant: constrained associated types stay parameters.
mut_ignores_constraint(cell, key) == AssocLit(key)
make_assoc_type_use(cell, key) == IF cell.constr # << >> THEN cell.constr ELSE AssocLit(key)

(* The type a projection stands for; cs are the cells as they are now. *)
translate_type(ty, env, cs) ==
  LET n == normalize(ty, env)
  IN  IF ~IsProj(ty) THEN ty
      ELSE IF ~IsProj(n) THEN n
      ELSE make_assoc_type_use(cs[ProjKey(ty)], ProjKey(ty))

(* translate_type fails on a cell that was not filled. *)
ReadsEmpty(ty, env, cs) ==
  /\ IsProj(ty) /\ IsProj(normalize(ty, env))
  /\ ProjKey(ty) \in DOMAIN cs => cs[ProjKey(ty)].state = "empty" /\ ~cs[ProjKey(ty)].self_use

Subst(ty, inst) ==
  IF IsProj(ty) THEN <<"proj", ty[2]>> \o inst[ty[3]]
  ELSE IF Last(ty) \in DOMAIN inst THEN Front(ty) \o inst[Last(ty)]
  ELSE ty
SubstKey(key, inst) == <<key[1], [i \in DOMAIN key[2] |-> Subst(key[2][i], inst)]>>
InstOf(d, args) == [p \in ToSet(generics_of(d)) |->
                      args[CHOOSE i \in DOMAIN args : generics_of(d)[i] = p]]

-----------------------------------------------------------------------------
(* The instance of one requirement of another item: a requirement of the   *)
(* environment, or an implementation, whose associated type is an integer. *)
InEnv(key, env) == \E i \in DOMAIN caller_bounds(env) : generate_args_inst_key(caller_bounds(env)[i]) = key
Resolvable(key, env) == InEnv(key, env) \/ Last(key[2][1]) \notin DOMAIN ParamIndex

resolve_trait_requirement(req, inst, env, cs) ==
  LET key == SubstKey(req.key, inst)
      assoc == IF ~InEnv(key, env) THEN <<"Int">> ELSE translate_type(Proj(key), env, cs)
  IN  [key |-> key, origin |-> req.origin, quantified |-> InEnv(key, env),
       projs |-> IF InEnv(key, env) /\ key[1] \in HasAssoc /\ req.constr = << >> THEN {Proj(key)} ELSE {},
       assoc |-> IF key[1] \in HasAssoc /\ req.constr = << >> THEN <<assoc>> ELSE << >>]

(* The requirement of a method on its own trait, which a use through that  *)
(* trait does not pass.                                                    *)
IsSelfAssumption(d, req, inst) ==
  /\ trait_of_assoc(d) # ""
  /\ SubstKey(req.key, inst) = SubstKey(generate_args_inst_key(SelfBound(trait_of_assoc(d))), inst)

Skipped(d, req, inst, include_self) ==
  ~include_self /\ (req.is_self_in_trait_decl \/ IsSelfAssumption(d, req, inst))

(* The requirements of d at the arguments inst: surrounding ones first.    *)
(* rs is the order in which they were computed for this use.               *)
resolve_trait_requirements(d, rs, inst, include_self, env, cs) ==
  LET part(direct) ==
        LET passed == Chosen(rs, {i \in DOMAIN rs : /\ ~Skipped(d, rs[i], inst, include_self)
                                                     /\ (rs[i].origin = "Direct") = direct})
        IN  [i \in DOMAIN passed |-> resolve_trait_requirement(passed[i], inst, env, cs)]
  IN  part(FALSE) \o part(TRUE)

Unresolvable(d, rs, inst, include_self, env) ==
  \E i \in DOMAIN rs : ~Skipped(d, rs[i], inst, include_self)
                       /\ ~Resolvable(SubstKey(rs[i].key, inst), env)

-----------------------------------------------------------------------------
(* Building a scope: the passes of add_trait_requirements. *)
Running   == status = "running"
AllScopes == DOMAIN scopes = ToSet(program.order)

NewFromGenerics ==
  /\ Running /\ did = "" /\ ~AllScopes
  /\ did' = program.order[Cardinality(DOMAIN scopes) + 1] /\ pass' = "collect"
  /\ cells' = [k \in {} |-> Empty]
  /\ names' = [tys |-> [k \in {} |-> << >>], attrs |-> [k \in {} |-> << >>]]
  /\ UNCHANGED <<todo, reqs, scopes, status>>

CollectRequirements ==
  /\ Running /\ pass = "collect"
  /\ \E order \in get_trait_requirements_with_origin(did) :
       reqs' = order /\ todo' = order /\ pass' = "preregister"
  /\ UNCHANGED <<did, cells, names, scopes, status>>

SortForever ==
  /\ Running /\ pass = "collect"
  /\ get_trait_requirements_with_origin(did) = {}
  /\ status' = "loops"
  /\ UNCHANGED <<did, pass, todo, reqs, cells, names, scopes>>

NextPass(p) ==
  /\ pass' = p
  /\ todo' = IF p = "name" THEN reqs ELSE Reverse(reqs)

Visit(p) == Running /\ pass = p /\ todo # << >>

(* A second requirement with the same key replaces the cell of the first. *)
PreRegister ==
  /\ Visit("preregister")
  /\ LET req == Head(todo)
     IN  cells' = [k \in DOMAIN cells \cup {req.key} |->
                     IF k = req.key
                     THEN [Empty EXCEPT !.self_use = req.is_self_in_trait_decl]
                     ELSE cells[k]]
  /\ todo' = Tail(todo)
  /\ UNCHANGED <<did, pass, reqs, names, scopes, status>>

fill_trait_use ==
  /\ Visit("fill")
  /\ LET req == Head(todo)
         skip == req.is_self_in_trait_decl
         known == req.key[1] \in program.registered
     IN  /\ cells' = IF skip \/ ~known THEN cells
                     ELSE [cells EXCEPT ![req.key] =
                             [@ EXCEPT !.state = "filled", !.origin = req.origin,
                                       !.is_used_in_self_trait = req.is_used_in_self_trait,
                                       !.constr = << >>]]
         /\ status' = IF skip \/ known THEN status ELSE "error"
  /\ todo' = Tail(todo)
  /\ UNCHANGED <<did, pass, reqs, names, scopes>>

(* The constraints are translated in the scope as it is now. *)
ConstrainAssocTypes ==
  /\ Visit("constrain")
  /\ LET req == Head(todo)
         bad == req.constr # << >> /\ ReadsEmpty(req.constr, did, cells)
     IN  /\ cells' = IF req.is_self_in_trait_decl \/ bad THEN cells
                     ELSE [cells EXCEPT ![req.key].constr = IF req.constr = << >> THEN << >>
                                                            ELSE translate_type(req.constr, did, cells)]
         /\ status' = IF ~req.is_self_in_trait_decl /\ bad THEN "panic" ELSE status
  /\ todo' = Tail(todo)
  /\ UNCHANGED <<did, pass, reqs, names, scopes>>

(* The instance of the trait's own scope: its requirements are computed    *)
(* again and resolved in the environment of this item.                     *)
finalize_trait_use ==
  /\ Visit("finalize")
  /\ LET req  == Head(todo)
         tr   == req.key[1]
         inst == InstOf(tr, req.key[2])
     IN  IF req.is_self_in_trait_decl THEN UNCHANGED <<cells, status>>
         ELSE \E order \in get_trait_requirements_with_origin(tr) :
                IF Unresolvable(tr, order, inst, FALSE, did)
                THEN status' = "error" /\ UNCHANGED cells
                ELSE /\ cells' = [cells EXCEPT ![req.key] =
                          [@ EXCEPT !.state = "final", !.tys = req.key[2],
                                    !.reqs = resolve_trait_requirements(tr, order, inst, FALSE, did, cells)]]
                     /\ UNCHANGED status
  /\ todo' = Tail(todo)
  /\ UNCHANGED <<did, pass, reqs, names, scopes>>

(* T::Item denotes the type of the first requirement, T.attr that of the   *)
(* last.                                                                   *)
PrecomputeNames ==
  /\ Visit("name")
  /\ LET key  == Head(todo).key
         path == key[2][1]
         short == ~Head(todo).is_self_in_trait_decl /\ path \in {<<p>> : p \in DOMAIN ParamIndex}
         item == <<path[1], "Item">>
     IN  names' =
           [tys   |-> IF short /\ key[1] \in HasAssoc /\ item \notin DOMAIN names.tys
                      THEN [p \in DOMAIN names.tys \cup {item} |->
                              IF p = item THEN make_assoc_type_use(cells[key], key) ELSE names.tys[p]]
                      ELSE names.tys,
            attrs |-> IF short
                      THEN [p \in DOMAIN names.attrs \cup {<<path[1], a>> : a \in Attrs[key[1]]} |->
                              IF p[1] = path[1] /\ p[2] \in Attrs[key[1]] THEN key ELSE names.attrs[p]]
                      ELSE names.attrs]
  /\ todo' = Tail(todo)
  /\ UNCHANGED <<did, pass, reqs, cells, scopes, status>>

PassDone ==
  /\ Running /\ pass \in {"preregister", "fill", "constrain", "finalize"} /\ todo = << >>
  /\ NextPass(CASE pass = "preregister" -> "fill" [] pass = "fill" -> "constrain"
                [] pass = "constrain" -> "finalize" [] pass = "finalize" -> "name")
  /\ UNCHANGED <<did, reqs, cells, names, scopes, status>>

-----------------------------------------------------------------------------
(* The generic scope: parameters and requirements split by their origin.   *)
Requirement(key, cell) ==
  [key |-> key, is_used_in_self_trait |-> cell.is_used_in_self_trait,
   assoc |-> IF key[1] \in HasAssoc /\ cell.constr = << >> THEN <<AssocLit(key)>> ELSE << >>]

SurroundingParams(d) == IF HasParent(d) THEN ToSet(Item(Item(d).parent).params) ELSE {}

GenericScope(d, rs, cs, ns) ==
  LET of(direct) ==
        LET mine == SelectSeq(rs, LAMBDA r : ~cs[r.key].self_use
                                             /\ (cs[r.key].origin = "Direct") = direct)
        IN  [i \in DOMAIN mine |-> Requirement(mine[i].key, cs[mine[i].key])]
      tys(direct) == SelectSeq(generics_of(d), LAMBDA p : (p \notin SurroundingParams(d)) = direct)
  IN  [surrounding_tys |-> tys(FALSE), direct_tys |-> tys(TRUE),
       surrounding_reqs |-> of(FALSE), direct_reqs |-> of(TRUE),
       order |-> [i \in DOMAIN rs |-> rs[i].key], cells |-> cs, names |-> ns]

(* Every key is taken out of the map; a key that occurs twice is gone.     *)
SharedKey == \E i, j \in DOMAIN reqs : i # j /\ reqs[i].key = reqs[j].key

IntoGenericScope ==
  /\ Running /\ pass = "name" /\ todo = << >>
  /\ IF SharedKey
     THEN status' = "panic" /\ UNCHANGED <<did, pass, scopes>>
     ELSE /\ scopes' = [d \in DOMAIN scopes \cup {did} |->
                          IF d = did THEN GenericScope(did, reqs, cells, names) ELSE scopes[d]]
          /\ did' = "" /\ pass' = "none"
          /\ UNCHANGED status
  /\ UNCHANGED <<todo, reqs, cells, names>>

ScopesInit ==
  /\ did = "" /\ pass = "none" /\ todo = << >> /\ reqs = << >>
  /\ cells = [k \in {} |-> Empty]
  /\ names = [tys |-> [k \in {} |-> << >>], attrs |-> [k \in {} |-> << >>]]
  /\ scopes = [d \in {} |-> << >>]
  /\ status = "running"

BuildScope ==
  \/ NewFromGenerics
  \/ CollectRequirements \/ SortForever
  \/ PreRegister \/ fill_trait_use \/ ConstrainAssocTypes \/ finalize_trait_use \/ PrecomputeNames
  \/ PassDone \/ IntoGenericScope
=============================================================================
