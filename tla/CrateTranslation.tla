-------------------------- MODULE CrateTranslation --------------------------
(* The translation of a crate (generate_coq_code in lib.rs): libraries are *)
(* loaded, their shims registered, then the functions, traits, trait impls *)
(* and closure impls of the crate; closures and functions are translated   *)
(* one after the other, and the trait impls are assembled from the result. *)
(* The compiler's part (names, types, bodies) is the constant shape of the *)
(* crate and the `program`, which says how its items are annotated.        *)
EXTENDS ProcedureRegistry, ShimLibraries, DefOrder, FiniteSetsExt, SequencesExt

CONSTANTS
  FunctionOrder,   \* the functions with a body, in the order of the compiler
  ClosureOrder,    \* the closures, an outer one before those inside it
  Kind,            \* the most special closure trait of a closure
  ImplOrder,       \* the trait impls of the crate
  ImplOf,          \* the impl an item belongs to, if any
  Traits,          \* the traits of the crate
  TraitOf,         \* the trait of an impl
  AssocFns,        \* the functions a trait declares
  TraitDeps,       \* the other traits a trait's bounds mention
  DerivePlain,     \* the derived traits that need no attributes on the type
  DeriveTraits,    \* those that do
  SelfType,        \* the type an impl is for
  NoItem

Functions == Range(FunctionOrder)
Impls     == Range(ImplOrder)
Closures  == Range(ClosureOrder)
Bodies    == Functions \cup Closures

AssocItems == UNION {AssocFns[t] : t \in Traits}

(* The compiler lists every body once, and a function is declared by one   *)
(* trait; libraries have shims for the items of other crates.              *)
ASSUME CrateAssumption ==
  /\ IsFiniteSet(Traits) /\ NoItem \notin Traits
  /\ \A t \in Traits : IsFiniteSet(TraitDeps[t])
  /\ \A s, t \in Traits : s # t => AssocFns[s] \cap AssocFns[t] = {}
  /\ FunctionOrder \in Seq(Functions) /\ ClosureOrder \in Seq(Closures) /\ ImplOrder \in Seq(Impls)
  /\ LET bodies == ClosureOrder \o FunctionOrder
     IN  \A i, j \in DOMAIN bodies : bodies[i] = bodies[j] => i = j
  /\ \A lib \in FoundLibs : \A shim \in Shims[lib] :
       CASE shim[1] = "function" -> shim[2] \notin Bodies \cup AssocItems
         [] shim[1] = "trait" -> shim[2] \notin Traits
         [] shim[1] = "trait_impl" ->
              \A d \in DOMAIN ImplOf : ImplOf[d] = shim[2] => d \notin Bodies \cup AssocItems
         [] OTHER -> TRUE

VARIABLES
  program,    \* the annotated crate, see Programs in the instances
  phase,
  scope,      \* the procedure registry
  traits,     \* the trait registry
  todo,       \* the bodies that are still to be translated
  skipped,    \* what was skipped with a message
  trait_impls \* the trait impls that were assembled

cratevars == <<phase, scope, traits, todo, skipped, trait_impls>>

NoTraits == [literals |-> {}, decls |-> {}, impl_literals |-> {}, closure_impls |-> {}]

attrs(item) == program.attrs[item]

-----------------------------------------------------------------------------
(* Registration.                                                           *)

TraitOfAssoc(d) == IF \E t \in Traits : d \in AssocFns[t]
                   THEN CHOOSE t \in Traits : d \in AssocFns[t] ELSE NoItem

(* register_shims: the functions, the traits, and the trait impls with     *)
(* their methods.  A second shim for the same item is an error, except for *)
(* types.  What the crate does not know of is reported and skipped.        *)
ShimMetas(names) == [d \in names |-> Meta(<<"lib", d>>, "shim", FALSE, FALSE)]

Repeated(sets) == \E i, j \in DOMAIN sets : i # j /\ sets[i] \cap sets[j] # {}

RegisterShims ==
  /\ phase = "libraries"
  /\ LibrariesLoaded
  /\ LET fn      == SourceShims("function")
         tr      == SourceShims("trait")
         im      == SourceShims("trait_impl")
         methods == {d \in DOMAIN ImplOf : ImplOf[d] \in UNION Range(im)}
         named   == register_functions(scope, ShimMetas(UNION Range(fn)), program.no_assumption)
         all     == register_functions(named, ShimMetas(methods), program.no_assumption)
         ok      == all.ok /\ ~Repeated(fn) /\ ~Repeated(tr) /\ ~Repeated(im)
     IN  /\ scope'  = [all EXCEPT !.ok = ok]
         /\ traits' = [traits EXCEPT !.literals = UNION Range(tr),
                                     !.impl_literals = UNION Range(im)]
         /\ phase'  = IF ok THEN "functions" ELSE "failed"
  /\ UNCHANGED <<program, todo, skipped, trait_impls>>
  /\ UNCHANGED libvars

(* Annotations that say how a function is treated, the strongest first. *)
ModeAttrs == <<"shim", "trust_me", "code_shim", "only_spec", "ignore">>

get_most_restrictive_function_mode(item) ==
  LET given == {i \in DOMAIN ModeAttrs : ModeAttrs[i] \in attrs(item)}
  IN  IF given = {} THEN "prove" ELSE ModeAttrs[Min(given)]

(* Whether the attributes of a type are those its derived impl needs; they *)
(* are matched with the trait's, which has to be registered.               *)
check_for_derive_trait_attrs(impl) ==
  IF TraitOf[impl] \notin traits.literals THEN "error"
  ELSE IF "derive_spec" \in attrs(SelfType[impl]) THEN "yes" ELSE "no"

(* A function counts if it, its trait impl, or the type of a derived impl  *)
(* is annotated.                                                           *)
Derived(f) ==
  LET impl == ImplOf[f]
      type == SelfType[impl]
  IN  IF attrs(type) = {} \/ "skip" \in attrs(type) THEN "no"
      ELSE IF TraitOf[impl] \in DerivePlain THEN "yes"
      ELSE IF TraitOf[impl] \in DeriveTraits THEN check_for_derive_trait_attrs(impl)
      ELSE "no"

check_consider_function(f) ==
  LET impl == ImplOf[f]
  IN  IF "skip" \in attrs(f) \/ (impl # NoItem /\ "skip" \in attrs(impl)) THEN "no"
      ELSE IF attrs(f) # {} \/ (impl # NoItem /\ attrs(impl) # {}) THEN "yes"
      ELSE IF impl = NoItem THEN "no" ELSE Derived(f)

(* A mode that an annotation on the function itself leaves open comes from *)
(* the impl; an impl cannot be a shim.                                     *)
FunctionMode(f) ==
  LET own     == get_most_restrictive_function_mode(f)
      default == TraitOfAssoc(f) # NoItem
      mode    == IF own = "shim" /\ default THEN "prove" ELSE own
      outer   == IF mode = "prove" /\ ImplOf[f] # NoItem
                 THEN get_most_restrictive_function_mode(ImplOf[f]) ELSE mode
  IN  IF mode \in {"shim", "code_shim"} THEN mode
      ELSE IF outer \in {"shim", "code_shim"} THEN "prove" ELSE outer

(* One turn of register_functions.  A function that is exported under the  *)
(* path of another item stands for that item too.                          *)
register_one(s, f) ==
  LET mode    == FunctionMode(f)
      default == TraitOfAssoc(f) # NoItem
      closure == f \in Closures
      name    == IF mode = "shim" THEN <<"annotated", f>> ELSE <<"type_of", f>>
      export  == program.export_as[f]
      Registered(r) == register_function(r, f, Meta(name, mode, default, closure),
                                         program.no_assumption)
  IN  IF ~s.ok \/ check_consider_function(f) = "no" THEN s
      ELSE IF check_consider_function(f) = "error" THEN [s EXCEPT !.ok = FALSE]
      ELSE IF mode \in {"shim", "code_shim"} \/ export = NoItem THEN Registered(s)
      ELSE Registered(register_function(s, export, Meta(name, "shim", default, closure),
                                        program.no_assumption))

RegisterFunctions ==
  /\ phase = "functions"
  /\ LET registered == FoldLeft(register_one, scope, FunctionOrder \o ClosureOrder)
     IN  /\ scope' = registered
         /\ phase' = IF registered.ok THEN "traits" ELSE "failed"
  /\ UNCHANGED <<program, traits, todo, skipped, trait_impls>>
  /\ UNCHANGED libvars

(* A trait is registered if all functions it declares are annotated.  All  *)
(* of them are pre-registered first; a cycle among the traits, or a bound  *)
(* on one that is not registered, ends the translation of the crate.       *)
Annotated(t) == \A d \in AssocFns[t] : attrs(d) # {}

preregister_traits(ts) == [traits EXCEPT !.literals = @ \cup ts]

register_trait_succeeds(ts) ==
  ~cyclic(TraitDeps) /\ \A t \in ts : TraitDeps[t] \subseteq traits.literals \cup ts

RegisterTraits ==
  /\ phase = "traits"
  /\ LET ts    == {t \in Traits : Annotated(t)}
     IN  /\ scope'  = [override_trait_default_impl_names(scope, UNION {AssocFns[t] : t \in ts})
                      EXCEPT !.panic = @ \/ cyclic(TraitDeps)]
         /\ traits' = [preregister_traits(ts) EXCEPT !.decls = ts]
         /\ phase'  = IF register_trait_succeeds(ts) THEN "impls" ELSE "failed"
  /\ UNCHANGED <<program, todo, skipped, trait_impls>>
  /\ UNCHANGED libvars

(* An impl is registered if its trait is, and if all its functions are     *)
(* going to have a specification.                                          *)
ImplFns(impl) == {f \in Functions : ImplOf[f] = impl}

Specified(s, f) == lookup_function(s, f) /\ needs_spec(s.name_map[f].mode)

register_trait_impls ==
  {impl \in Impls : /\ TraitOf[impl] \in traits.literals
                    /\ \A f \in ImplFns(impl) : Specified(scope, f)}

(* The closure traits a closure of a given kind implements; they come with *)
(* a library.                                                              *)
ClosureTraits == <<"FnOnce", "FnMut", "Fn">>
KindsBelow(kind) ==
  {ClosureTraits[i] : i \in 1 .. (CHOOSE j \in 1 .. 3 : ClosureTraits[j] = kind)}

are_closures_available == Range(ClosureTraits) \subseteq traits.literals

register_closure_impls ==
  IF ~are_closures_available THEN {}
  ELSE UNION {{<<c, kind>> : kind \in KindsBelow(Kind[c])} :
                c \in {d \in Closures : Specified(scope, d)}}

\* Mutant: functions before closures.
mut_functions_first == FunctionOrder \o ClosureOrder

(* Closures come first: a function takes the closures in it for translated. *)
translate_functions == ClosureOrder \o FunctionOrder

RegisterImpls ==
  /\ phase = "impls"
  /\ traits' = [traits EXCEPT !.impl_literals = @ \cup register_trait_impls,
                              !.closure_impls = register_closure_impls]
  /\ todo'  = translate_functions
  /\ phase' = "translate"
  /\ UNCHANGED <<program, scope, skipped, trait_impls>>
  /\ UNCHANGED libvars

-----------------------------------------------------------------------------
(* Translation.                                                            *)

(* The trait, or the impl, that the function belongs to has to be          *)
(* registered, for its generics are part of the scope.                     *)
setup_local_scope(f) ==
  /\ TraitOfAssoc(f) # NoItem => TraitOfAssoc(f) \in traits.literals
  /\ ImplOf[f] # NoItem => ImplOf[f] \in traits.impl_literals

(* Parameters, pre- or postconditions of its own. *)
function_has_nontrivial_annotations(f) == "spec" \in attrs(f)

(* The specification that the trait has for the method of an impl. *)
make_trait_instance_spec(f) == TraitOf[ImplOf[f]] \in traits.literals

(* The attributes that are read as a specification; `verify` is inherited  *)
(* from the impl.  All of them have to be known ones.                      *)
process_closure_attrs(c) == attrs(c) \subseteq {"spec", "verify", "only_spec", "trust_me"}

process_attrs(f) == attrs(f) \subseteq {"spec", "verify", "only_spec", "trust_me", "code_shim"}

(* A function of a trait impl without a specification of its own takes the *)
(* one of the trait, otherwise the attributes are parsed; for a closure    *)
(* they always are.                                                        *)
new_closure(c) == setup_local_scope(c) /\ process_closure_attrs(c)

new(f) ==
  /\ setup_local_scope(f)
  /\ IF ImplOf[f] # NoItem /\ ~function_has_nontrivial_annotations(f)
     THEN make_trait_instance_spec(f)
     ELSE process_attrs(f)

SpecTranslated(f) == IF f \in Closures THEN new_closure(f) ELSE new(f)

Callees(f)        == program.calls[f] \ Closures
CalledClosures(f) == program.calls[f] \cap Closures

(* The callees of a body have to be registered, and a closure it calls as  *)
(* an impl of its closure trait.                                           *)
register_use_procedure(d) == lookup_function(scope, d)

get_closure_impl_spec_term(c) == <<c, Kind[c]>> \in traits.closure_impls

BodyTranslated(f) ==
  /\ \A d \in Callees(f) : register_use_procedure(d)
  /\ \A c \in CalledClosures(f) : get_closure_impl_spec_term(c)

(* register_use_closure takes it for granted that a closure has been       *)
(* translated when a call of it is; its traits are resolved before.        *)
register_use_closure_panics(c) ==
  get_closure_impl_spec_term(c) /\ c \notin DOMAIN scope.closure_info

ClosureMissing(f) == \E c \in CalledClosures(f) : register_use_closure_panics(c)

(* What comes of the translation of a body: it is done, it fails and is    *)
(* skipped, an error is emitted to the compiler, or the frontend panics.   *)
Outcomes(f) ==
  LET bodied == scope.name_map[f].mode # "only_spec"
  IN  IF f \in program.fatal THEN {"fatal"}
      ELSE IF f \in program.unsupported \/ ~SpecTranslated(f) THEN {"skipped"}
      ELSE IF bodied /\ ClosureMissing(f)
           THEN {"panic"} \cup (IF BodyTranslated(f) THEN {} ELSE {"skipped"})
      ELSE IF bodied /\ ~BodyTranslated(f) THEN {"skipped"} ELSE {"done"}

(* The specification, and for most modes the code, of a function that has  *)
(* been translated; a closure leaves what its impls are made from.         *)
Provided(f) ==
  LET with_spec == IF scope.name_map[f].mode = "only_spec"
                   THEN provide_specced_function(scope, f)
                   ELSE provide_translated_function(scope, f)
  IN  IF f \in Closures THEN provide_closure_info(with_spec, f) ELSE with_spec

(* An error of the compiler, of this function or of an earlier phase, ends *)
(* the loop over the functions; what follows the loop still happens.       *)
translate_function(f, outcome) ==
  /\ skipped' = IF outcome = "skipped" THEN skipped \cup {f} ELSE skipped
  /\ scope' = CASE outcome = "fatal" -> [scope EXCEPT !.errors = TRUE]
                [] outcome = "panic" -> [scope EXCEPT !.panic = TRUE]
                [] outcome = "done" /\ ~scope.errors -> Provided(f)
                [] OTHER -> scope
  /\ phase' = CASE outcome = "panic" -> "failed"
                [] outcome = "skipped" /\ ~program.skip_unsupported -> "failed"
                [] outcome = "fatal" -> "assemble"
                [] outcome = "done" /\ scope.errors -> "assemble"
                [] OTHER -> phase

TranslateNext ==
  /\ phase = "translate"
  /\ todo # << >>
  /\ LET f == Head(todo)
     IN  IF lookup_function(scope, f) /\ scope.name_map[f].mode \notin {"shim", "ignore"}
         THEN \E outcome \in Outcomes(f) : translate_function(f, outcome)
         ELSE UNCHANGED <<scope, skipped, phase>>
  /\ todo' = Tail(todo)
  /\ UNCHANGED <<program, traits, trait_impls>>
  /\ UNCHANGED libvars

TranslateEnd ==
  /\ phase = "translate" /\ todo = << >>
  /\ phase' = "assemble"
  /\ UNCHANGED <<program, scope, traits, todo, skipped, trait_impls>>
  /\ UNCHANGED libvars

-----------------------------------------------------------------------------
(* Assembly of the impls from the specifications that are there now.       *)

Assembled(impl) == \A f \in ImplFns(impl) : lookup_function_spec(scope, f)

assemble_trait_impls ==
  {impl \in Impls \cap traits.impl_literals : Assembled(impl)}

(* What an impl for a closure is made from: the closure trait and the impl *)
(* have to be registered.                                                  *)
get_closure_trait_impl_info(c, kind) ==
  kind \in traits.literals /\ <<c, kind>> \in traits.closure_impls

(* The call functions that are generated for a closure, with the impls of  *)
(* its traits.                                                             *)
assemble_closure_impls ==
  [c \in DOMAIN scope.closure_info |->
     IF /\ are_closures_available
        /\ <<c, Kind[c]>> \in traits.closure_impls
        /\ lookup_function_spec(scope, c)
     THEN {kind \in KindsBelow(Kind[c]) : get_closure_trait_impl_info(c, kind)} ELSE {}]

Assemble ==
  /\ phase = "assemble"
  /\ trait_impls' = assemble_trait_impls
  /\ skipped' = skipped \cup ((Impls \cap traits.impl_literals) \ assemble_trait_impls)
  /\ scope' = [scope EXCEPT !.closure_info = assemble_closure_impls]
  /\ phase' = "write"
  /\ UNCHANGED <<program, traits, todo>>
  /\ UNCHANGED libvars

-----------------------------------------------------------------------------

NothingTranslated ==
  /\ phase = "idle"
  /\ scope = EmptyScope /\ traits = NoTraits
  /\ todo = << >> /\ skipped = {} /\ trait_impls = {}
  /\ NoLibraries

(* The run of the frontend on a crate begins. *)
Begin ==
  /\ phase = "idle"
  /\ phase' = "libraries"
  /\ includes' = program.includes
  /\ export_includes' = program.export_includes
  /\ UNCHANGED <<program, scope, traits, todo, skipped, trait_impls>>
  /\ UNCHANGED <<included_libs, export_included_libs, sources>>

LoadLibraries ==
  /\ phase = "libraries"
  /\ IncludeLibrary \/ ExportLibrary
  /\ UNCHANGED program
  /\ UNCHANGED cratevars

TranslateCrate ==
  \/ LoadLibraries
  \/ RegisterShims \/ RegisterFunctions \/ RegisterTraits \/ RegisterImpls
  \/ TranslateNext \/ TranslateEnd \/ Assemble
=============================================================================
