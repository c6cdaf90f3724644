--------------------------- MODULE ScopeInstances --------------------------
(* The lists of parameters a definition declares and the lists of          *)
(* arguments its uses pass, position by position: scopes and their         *)
(* instances (radium/specs/mod.rs), the instances of traits                *)
(* (radium/specs/traits.rs) and the procedures a body uses                 *)
(* (radium/code.rs, types/local.rs).                                       *)
EXTENDS GenericScopes

VARIABLE
  used   \* collected_procedures: the uses in program.uses so far

(* A position of a list of types: a type, or an associated type of the     *)
(* requirement of.                                                         *)
Ty(t)      == [of |-> << >>, ty |-> t]
Tys(ps)    == [i \in DOMAIN ps |-> Ty(<<ps[i]>>)]
AssocTys(rs) == FlattenSeq([i \in DOMAIN rs |-> [j \in DOMAIN rs[i].assoc |-> [of |-> rs[i].key, ty |-> rs[i].assoc[j]]]])
Keys(rs)   == [i \in DOMAIN rs |-> rs[i].key]

get_direct_ty_params_with_assocs(s)      == Tys(s.direct_tys) \o AssocTys(s.direct_reqs)
get_surrounding_ty_params_with_assocs(s) == Tys(s.surrounding_tys) \o AssocTys(s.surrounding_reqs)
get_all_ty_params_with_assocs(s) ==
  get_surrounding_ty_params_with_assocs(s) \o get_direct_ty_params_with_assocs(s)
get_trait_req_parameters(s) == Keys(s.surrounding_reqs) \o Keys(s.direct_reqs)

(* What is passed fits what is declared: at each position the type or the  *)
(* requirement that the declaration has there, at the arguments inst,      *)
(* where tys are the same arguments as the frontend translates them.       *)
Fits(decl, given, inst, tys) ==
  /\ Len(decl) = Len(given)
  /\ \A i \in DOMAIN decl : IF decl[i].of = << >> THEN given[i] = Ty(Subst(decl[i].ty, tys))
                            ELSE given[i].of = SubstKey(decl[i].of, inst)
FitsKeys(decl, given, inst) == given = [i \in DOMAIN decl |-> SubstKey(decl[i], inst)]

Identity(d) == [p \in ToSet(generics_of(d)) |-> <<p>>]

-----------------------------------------------------------------------------
(* make_trait_instance applies the definition of method m to the scope of  *)
(* its trait, the associated types and the attributes of Self, and then to *)
(* the method's own parameters.                                            *)
SelfKey(tr) == generate_args_inst_key(SelfBound(tr))
self_assoc_types_inst(tr) ==
  IF tr \in HasAssoc THEN <<[of |-> SelfKey(tr), ty |-> AssocLit(SelfKey(tr))]>> ELSE << >>
surrounding_scope_instantiation(tr) == scopes[tr]

InstanceTys(tr, m) ==
  get_direct_ty_params_with_assocs(surrounding_scope_instantiation(tr))
    \o self_assoc_types_inst(tr) \o get_direct_ty_params_with_assocs(scopes[m])
InstanceAttrs(tr, m) ==
  Keys(scopes[tr].direct_reqs) \o <<SelfKey(tr)>> \o Keys(scopes[m].direct_reqs)

(* The lists of a cell for the trait's definitions. *)
get_ordered_params(tr) ==
  Tys(scopes[tr].direct_tys) \o self_assoc_types_inst(tr) \o AssocTys(scopes[tr].direct_reqs)
get_ordered_params_inst(key, cell) ==
  [i \in DOMAIN cell.tys |-> Ty(cell.tys[i])]
    \o (IF key[1] \in HasAssoc THEN <<[of |-> key, ty |-> make_assoc_type_use(cell, key)]>> ELSE << >>)
    \o AssocTys(cell.reqs)

-----------------------------------------------------------------------------
(* Uses.  A method of a trait that the caller assumes is used through the  *)
(* assumption; functions and methods of implementations by their own       *)
(* definition.                                                             *)
ThroughAssumption(u) == Item(u.callee).kind = "method"

split_trait_method_args(u) ==
  LET n == Len(Item(Item(u.callee).parent).params) IN <<SubSeq(u.args, 1, n), SubSeq(u.args, n + 1, Len(u.args))>>
determine_number_of_surrounding_params(d) == IF HasParent(d) THEN Len(Item(Item(d).parent).params) ELSE 0

Vars(ty) == IF ty[1] = "assoc" THEN {ty}
            ELSE IF Last(ty) \in DOMAIN ParamIndex THEN {<<Last(ty)>>} ELSE {}

(* The variables the use is abstracted over: the parameters that occur in  *)
(* the arguments, the associated types that are variables, and those of    *)
(* the projections that occur.                                             *)
Abstraction(u, reqs_of, cs) ==
  LET tys   == ToSet(u.args) \cup UNION {ToSet(reqs_of[i].key[2]) : i \in DOMAIN reqs_of}
      projs == {t \in tys : IsProj(t)} \cup UNION {reqs_of[i].projs : i \in DOMAIN reqs_of}
      literal(t) == IF t[1] = "assoc" \/ (Len(t) = 1 /\ t[1] \in DOMAIN ParamIndex) THEN {t} ELSE {}
  IN  UNION {Vars(t) : t \in {x \in tys : ~IsProj(x)}}
      \cup UNION {literal(t) : t \in UNION {ToSet(reqs_of[i].assoc) : i \in DOMAIN reqs_of}}
      \cup UNION {literal(make_assoc_type_use(cs[ProjKey(t)], ProjKey(t))) : t \in projs}

get_generic_abstraction(u, reqs_of) ==
  LET cs     == scopes[u.caller].cells
      ty(t)  == Ty(translate_type(t, u.caller, cs))
      n      == determine_number_of_surrounding_params(u.callee)
      args   == IF ThroughAssumption(u) THEN split_trait_method_args(u)[2] ELSE u.args
      first  == IF ThroughAssumption(u) THEN 0 ELSE n
      part(direct) == SelectSeq(reqs_of, LAMBDA r : (r.origin = "Direct") = direct)
  IN  [surrounding_tys  |-> [i \in 1 .. first |-> ty(args[i])],
       direct_tys       |-> [i \in 1 .. Len(args) - first |-> ty(args[first + i])],
       surrounding_reqs |-> part(FALSE), direct_reqs |-> part(TRUE),
       bound            |-> Abstraction([u EXCEPT !.args = args], reqs_of, cs)]

(* What the use applies the specification to. *)
\* Mutant: the direct parameters before the surrounding ones.
mut_direct_first(inst, all) ==
  inst.direct_tys \o AssocTys(inst.direct_reqs)
    \o (IF all THEN inst.surrounding_tys \o AssocTys(inst.surrounding_reqs) ELSE << >>)
UsedTys(inst, all) ==
  (IF all THEN inst.surrounding_tys \o AssocTys(inst.surrounding_reqs) ELSE << >>)
    \o inst.direct_tys \o AssocTys(inst.direct_reqs)
UsedAttrs(inst, all) ==
  (IF all THEN Keys(inst.surrounding_reqs) ELSE << >>) \o Keys(inst.direct_reqs)
needs_surrounding_trait_reqs(u) == ~ThroughAssumption(u)

NextUse == program.uses[Len(used) + 1]
SkippedKeys(u, rs) ==
  {rs[i].key : i \in {j \in DOMAIN rs : Skipped(u.callee, rs[j], InstOf(u.callee, u.args), ~ThroughAssumption(u))}}

RegisterUse ==
  /\ Running /\ did = "" /\ AllScopes /\ Len(used) < Len(program.uses)
  /\ LET u == NextUse
         sub == InstOf(u.callee, u.args)
         self == ~ThroughAssumption(u)
     IN  \E order \in get_trait_requirements_with_origin(u.callee) :
           IF Unresolvable(u.callee, order, sub, self, u.caller)
           THEN status' = "error" /\ UNCHANGED used
           ELSE LET rs == resolve_trait_requirements(u.callee, order, sub, self, u.caller,
                                                     scopes[u.caller].cells)
                IN  /\ used' = Append(used, get_generic_abstraction(u, rs) @@ [skipped |-> SkippedKeys(u, order)])
                    /\ UNCHANGED status
  /\ UNCHANGED <<did, pass, todo, reqs, cells, names, scopes>>
=============================================================================
