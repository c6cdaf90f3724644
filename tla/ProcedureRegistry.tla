------------------------- MODULE ProcedureRegistry -------------------------
(* The procedure registry of the frontend (procedures.rs): what is to be   *)
(* done with every function, which of them have been translated, and which *)
(* closures have left the information their trait impls are built from.    *)
(* A registry is a value: `ok` says that no registration has failed,       *)
(* `errors` that an error was emitted to the compiler, and `panic` that an *)
(* assertion of the registry failed.                                       *)
(* The modes of a function, and what each demands. *)
Modes == {"prove", "only_spec", "trust_me", "shim", "code_shim", "ignore"}

is_assumed(mode)  == mode \in {"only_spec", "trust_me"}
needs_proof(mode) == mode \in {"prove", "code_shim"}
needs_def(mode)   == mode \in {"prove", "trust_me"}
needs_spec(mode)  == mode \in {"prove", "trust_me", "only_spec", "code_shim"}

(* What is known of a function before it is translated; the name of its    *)
(* specification is all that other functions use of it.                    *)
Meta(spec_name, mode, default, closure) ==
  [spec_name |-> spec_name, mode |-> mode,
   is_default_trait_impl |-> default, is_closure |-> closure]

NoEntries == [d \in {} |-> {}]

EmptyScope ==
  [name_map |-> NoEntries, translated_functions |-> {}, specced_functions |-> {},
   closure_info |-> NoEntries, ok |-> TRUE, errors |-> FALSE, panic |-> FALSE]

lookup_function(scope, did) == did \in DOMAIN scope.name_map

lookup_function_spec(scope, did) ==
  did \in scope.translated_functions \cup scope.specced_functions

(* Entries are added, and those of them that are there already replaced.   *)
Inserted(name_map, metas) ==
  [d \in DOMAIN name_map \cup DOMAIN metas |->
     IF d \in DOMAIN metas THEN metas[d] ELSE name_map[d]]

\* Mutant: a second entry for a function is no error.
mut_shared_entry(scope, metas, no_assumption) ==
  IF ~scope.ok THEN scope
  ELSE [scope EXCEPT !.name_map = Inserted(@, metas)]

(* register_function, for several functions: an entry that replaces one is *)
(* an error.                                                               *)
register_functions(scope, metas, no_assumption) ==
  IF ~scope.ok THEN scope
  ELSE [scope EXCEPT !.name_map = Inserted(@, metas),
                     !.errors = @ \/ (no_assumption /\ \E d \in DOMAIN metas : is_assumed(metas[d].mode)),
                     !.ok = DOMAIN scope.name_map \cap DOMAIN metas = {}]

register_function(scope, did, meta, no_assumption) ==
  register_functions(scope, [d \in {did} |-> meta], no_assumption)

(* The default bodies of the methods of traits are specified by the trait. *)
override_trait_default_impl_names(scope, dids) ==
  LET defaults == dids \cap DOMAIN scope.name_map
      Default(d) == [scope.name_map[d] EXCEPT !.spec_name = <<"base_spec", d>>]
  IN  [scope EXCEPT !.name_map = Inserted(@, [d \in defaults |-> Default(d)]),
                    !.panic = @ \/ \E d \in defaults : ~scope.name_map[d].is_default_trait_impl]

provide_translated_function(scope, did) ==
  LET mode == scope.name_map[did].mode
  IN  [scope EXCEPT !.translated_functions = @ \cup {did},
                    !.panic = @ \/ did \in scope.translated_functions
                                \/ ~(needs_def(mode) \/ mode = "code_shim")]

provide_specced_function(scope, did) ==
  [scope EXCEPT !.specced_functions = @ \cup {did},
                !.panic = @ \/ did \in scope.specced_functions
                            \/ scope.name_map[did].mode # "only_spec"]

(* The information a closure leaves; no impl has been generated from it.  *)
provide_closure_info(scope, did) ==
  [scope EXCEPT !.closure_info = Inserted(@, [c \in {did} |-> {}])]
=============================================================================
