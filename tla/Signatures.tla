----------------------------- MODULE Signatures ----------------------------
(* One run of the frontend over the signatures of a crate: the scopes of   *)
(* all items are built, then one function gets its specification from its  *)
(* attributes and the bodies register the procedures they use.             *)
EXTENDS SpecAttributes

CONSTANT Programs

(* What rustc and the attributes give: lists, items that are there, and    *)
(* type parameters that have an index.                                     *)
IsList(s) == s \in Seq(ToSet(s))
ASSUME ProgramsAssumption ==
  \A p \in Programs :
    /\ IsList(p.order) /\ ToSet(p.order) \subseteq DOMAIN p.items
    /\ IsList(p.fn.attrs) /\ IsList(p.fn.captures)
    /\ p.fn.did # "" => p.fn.did \in ToSet(p.order)
    /\ \A d \in DOMAIN p.items :
         /\ IsList(p.items[d].bounds) /\ IsList(p.items[d].params)
         /\ ToSet(p.items[d].params) \subseteq DOMAIN ParamIndex
         /\ p.items[d].parent # "" => p.items[d].parent \in DOMAIN p.items

(* Bounds are on traits that are there; one with an associated type is on  *)
(* a parameter, and so are projections and equalities.                     *)
OnParameter(args) == args \in {<<<<x>>>> : x \in DOMAIN ParamIndex}
ASSUME AssocAssumption ==
  /\ HasAssoc \cap Builtin = {}
  /\ \A p \in Programs : \A d \in DOMAIN p.items :
       /\ p.items[d].kind = "trait" /\ d \in HasAssoc => p.items[d].params = <<"Self">>
       /\ \A b \in ToSet(p.items[d].bounds) :
            /\ b.tr \in DOMAIN p.items
            /\ b.tr \in HasAssoc => OnParameter(b.args)
       /\ IsFiniteSet(p.items[d].eqs)
       /\ \A e \in p.items[d].eqs :
            /\ OnParameter(e.args) /\ e.ty # << >> /\ e.ty[1] # "assoc"
            /\ IsProj(e.ty) => e.ty \in {<<"proj", tr, x>> : tr \in HasAssoc, x \in DOMAIN ParamIndex}

vars == <<program, orders, scopevars, used, specvars>>

Init == program \in Programs /\ OrdersInit /\ ScopesInit /\ SpecInit /\ used = << >>

Next ==
  \/ BuildScope /\ UNCHANGED <<program, orders, used, specvars>>
  \/ ParseSpec /\ UNCHANGED <<program, orders>>
  \/ parsed \in {"none", "yes", "error"} /\ RegisterUse /\ UNCHANGED <<program, orders, specvars>>

(* The frontend is one thread that runs to its end. *)
Spec == Init /\ [][Next]_vars /\ WF_vars(Next)

-----------------------------------------------------------------------------
Use(i)  == program.uses[i]
Inst(i) == InstOf(Use(i).callee, Use(i).args)
Translated(i) ==
  [p \in DOMAIN Inst(i) |-> translate_type(Inst(i)[p], Use(i).caller, scopes[Use(i).caller].cells)]

(* The requirements that a use leaves out are the one of the trait on Self.*)
(* The comparison of resolve_trait_requirements_in_state ("if they match,  *)
(* this is the Self assumption, so skip") also matches a requirement of    *)
(* the method on its own trait when the method is used at the same type,   *)
(* as in T::m::<T> for fn m<V: Tr>() in trait Tr.                          *)
OnlySelf(i) ==
  \A k \in used[i].skipped : is_trait(k[1]) /\ k = SelfKey(trait_of_assoc(Use(i).callee))

Closed(i) ==
  LET passed == UsedTys(used[i], TRUE)
  IN  UNION {Vars(passed[j].ty) : j \in DOMAIN passed} \subseteq used[i].bound

(* What a use passes fits, position by position, what the definition of    *)
(* the callee declares: types, associated types and attributes             *)
(* (radium/code.rs, radium/specs/mod.rs), although the declaration and the *)
(* use order the requirements independently of each other; and all its     *)
(* variables are bound where the use is abstracted over them               *)
(* (get_generic_abstraction_for_procedure).  Excluded are requirements     *)
(* that have no order, left out by mistake (OnlySelf), and, for the        *)
(* variables, equalities of the caller.                                    *)
UsesAligned ==
  \A i \in DOMAIN used :
    LET callee == scopes[Use(i).callee]
        all    == needs_surrounding_trait_reqs(Use(i))
    IN  /\ Comparable(Use(i).callee) /\ OnlySelf(i) =>
             /\ Fits(IF all THEN get_all_ty_params_with_assocs(callee) ELSE get_direct_ty_params_with_assocs(callee),
                     UsedTys(used[i], all), Inst(i), Translated(i))
             /\ FitsKeys(IF all THEN get_trait_req_parameters(callee) ELSE Keys(callee.direct_reqs),
                         UsedAttrs(used[i], all), Inst(i))
        /\ Equalities(Use(i).caller) = {} => Closed(i)

Methods == {m \in DOMAIN scopes : trait_of_assoc(m) # ""}

(* A method that neither constrains a requirement of its trait nor bounds  *)
(* a parameter by a trait that one of them depends on.                     *)
Undisturbed(m) ==
  LET own == {OwnBounds(m)[i].tr : i \in DOMAIN OwnBounds(m)}
  IN  /\ Item(m).eqs = {}
      /\ \A i \in DOMAIN OwnBounds(trait_of_assoc(m)) :
           LET tr == OwnBounds(trait_of_assoc(m))[i].tr IN tr = trait_of_assoc(m) \/ own \cap trait_get_deps(tr) = {}

(* make_trait_instance (radium/specs/traits.rs) passes the parameters of   *)
(* the trait's scope to the definition of a method in the order of the     *)
(* trait, with Self last; the method declares them in its own.  The order  *)
(* of a method has Self last whatever its requirements are (cmp_trait_ref, *)
(* get_nontrivial), and agrees with the trait's if the method does not     *)
(* disturb it.  What a requirement passes to the definitions of its trait  *)
(* fits their declaration.                                                 *)
InstanceAligned ==
  \A m \in Methods :
    LET tr == trait_of_assoc(m) IN
    /\ scopes[m].surrounding_reqs # << >>
    /\ Last(scopes[m].surrounding_reqs).key = SelfKey(tr)
    /\ Undisturbed(m) /\ Comparable(m) /\ Comparable(tr) =>
         /\ Fits(get_all_ty_params_with_assocs(scopes[m]), InstanceTys(tr, m), Identity(m), Identity(m))
         /\ FitsKeys(get_trait_req_parameters(scopes[m]), InstanceAttrs(tr, m), Identity(m))
    /\ Comparable(tr) => \A k \in DOMAIN scopes[m].cells :
         k[1] = tr /\ scopes[m].cells[k].state = "final" =>
           Fits(get_ordered_params(tr), get_ordered_params_inst(k, scopes[m].cells[k]),
                InstOf(tr, k[2]), InstOf(tr, k[2]))

Chained(d) == \E e, f \in Equalities(d) : IsProj(e.ty) /\ <<f.tr, f.args>> = ProjKey(e.ty)

(* An associated type that an equality determines is no parameter of the   *)
(* generated definitions, and no type in a finished scope names it as if   *)
(* it were one (the TODO at the constraints in scope.rs), if no chain of   *)
(* equalities is to be followed.                                           *)
ConstraintsQuantified ==
  \A d \in DOMAIN scopes : ~Chained(d) =>
    LET cs     == scopes[d].cells
        fixed  == {AssocLit(k) : k \in {q \in DOMAIN cs : cs[q].constr # << >>}}
        listed == UNION {UNION {ToSet(cs[k].reqs[i].assoc) : i \in DOMAIN cs[k].reqs} : k \in DOMAIN cs}
    IN  fixed \cap (listed \cup {cs[k].constr : k \in DOMAIN cs}
                           \cup {scopes[d].names.tys[p] : p \in DOMAIN scopes[d].names.tys}) = {}

(* The clauses of the attributes that go to the specification, before or   *)
(* after rr::ok.                                                           *)
ClauseNumbers(kinds, after) ==
  {n \in DOMAIN fn.attrs :
     /\ fn.attrs[n].kind \in kinds
     /\ fn.attrs[n].kind = "requires" => fn.attrs[n].form \notin {"linktime", "trait"}
     /\ after <=> \E o \in 1 .. (n - 1) : fn.attrs[o].kind = "ok"}
InOrder(s, S) == ToSet(s) = S /\ \A i, j \in DOMAIN s : i < j => s[i] < s[j]

At(post, field) == {i \in DOMAIN post : field \in DOMAIN post[i]}

(* The postconditions of one that may fail tell the cases apart.           *)
CasesKept(post) ==
  \E i \in At(post, "ensures"), j \in At(post, "negated") :
    /\ At(post, "ensures") = {i} /\ At(post, "negated") = {j}
    /\ post[i].case = "success" /\ post[j].case = "failure"
    /\ InOrder(post[i].requires, ClauseNumbers({"requires"}, TRUE))
    /\ InOrder(post[i].ensures, ClauseNumbers({"ensures"}, TRUE))
    /\ post[i].exists = spec.ok_exists
    /\ post[j].negated = post[i].requires

PostKept(post) ==
  LET clauses == At(post, "clause")
  IN  /\ {post[i].clause : i \in clauses} =
           ClauseNumbers({"ensures", "observe"}, FALSE) \cup ClauseNumbers({"observe"}, TRUE)
      /\ \A i, j \in clauses : i < j => post[i].clause < post[j].clause
      /\ IF \E n \in DOMAIN fn.attrs : fn.attrs[n].kind = "ok" THEN CasesKept(post)
         ELSE At(post, "ensures") = {} /\ At(post, "negated") = {}

OfTrait(attr) == attr.kind = "requires" /\ attr.form = "trait"
Declaring(path) ==
  {k \in DOMAIN scopes[fn.did].cells : k[2][1] = <<path[1]>> /\ path[2] \in Attrs[k[1]]}

(* Every clause of the attributes is in the finished specification, once,  *)
(* in its order and where it belongs: conditions written before rr::ok     *)
(* hold in all cases, those written after it tell success from failure     *)
(* (assemble_fallible_spec); and the attribute of a trait that is          *)
(* specialized is the one its name denotes in the other clauses, if no two *)
(* requirements declare that name (determine_trait_attr_requirement_origin:*)
(* "order of iteration doesn't matter for result").                        *)
ClausesKept ==
  parsed = "yes" =>
    /\ InOrder(builder.pre, ClauseNumbers({"requires"}, FALSE))
    /\ PostKept(builder.post)
    /\ \A n \in DOMAIN fn.attrs : OfTrait(fn.attrs[n]) =>
         LET path == <<fn.attrs[n].path[1], fn.attrs[n].path[2]>>
             s    == scopes[fn.did]
         IN  (\A k, l \in Declaring(path) : k = l) =>
               path \in DOMAIN s.names.attrs /\ s.cells[s.names.attrs[path]].overridden

(* The run ends, unless two traits depend on each other: then the loop of  *)
(* get_nontrivial does not, when a requirement on both is met.             *)
Done    == did = "" /\ AllScopes /\ Len(used) = Len(program.uses) /\ parsed \in {"none", "yes", "error"}
Mutual  == \E p, q \in DOMAIN program.items : p # q /\ is_trait(p) /\ is_trait(q)
             /\ p \in trait_get_deps(q) /\ q \in trait_get_deps(p)
Ends == <>(Done \/ status \in {"error", "panic"} \/ Mutual)
=============================================================================
