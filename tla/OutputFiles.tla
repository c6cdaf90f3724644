---------------------------- MODULE OutputFiles ----------------------------
(* The files the frontend leaves (write_coq_files in lib.rs), over several *)
(* runs on a crate that is edited between them.  A run can be killed while *)
(* it writes; the generated directory is purged by every run, the files of *)
(* the proof directory are created once and edited by hand.                *)
EXTENDS CrateTranslation

CONSTANTS
  ItemPath,    \* the path of a body: a sequence of identifiers, each the
               \* sequence of the words its underscores separate
  Public,      \* the items that are visible to other crates
  Flattened,   \* the trait impls whose trait and type have a flat form
  Programs,    \* the annotated crates
  Edits,       \* what a crate may become when it is edited
  MaxRuns,     \* bound on the runs of the frontend
  MaxEdited    \* bound on the proofs that are edited by hand

(* What a crate exports under another path is no method of its own traits. *)
(* The path is that of an item of another crate, or of a function of this  *)
(* one that is registered by itself too, which is an error.                *)
ASSUME ProgramAssumption ==
  \A crate \in Programs \cup Edits : \A f \in Bodies :
    LET d == crate.export_as[f]
    IN  d # NoItem =>
          /\ f \notin AssocItems
          /\ d \in Bodies \cup AssocItems =>
               /\ d \in Bodies
               /\ crate.attrs[d] # {} /\ "skip" \notin crate.attrs[d]
               /\ ImplOf[d] # NoItem => "skip" \notin crate.attrs[ImplOf[d]]

VARIABLES
  interface,   \* the names interface.rrlib lists
  specs,       \* the functions whose specification is in generated_specs
  code,        \* the functions whose code is in generated_code
  order,       \* the layers of trait declarations in generated_specs
  templates,   \* what generated_template_<name> holds
  proofs,      \* the state of the files of the proof directory
  modules,     \* the modules the dune file of the proof directory lists
  todo_proofs, \* the proof files that are still to be written
  listed,      \* those that this run has written or found
  status,      \* how the last run ended
  runs

files  == <<interface, specs, code, order, templates, proofs, modules>>
process == <<todo_proofs, listed, status, runs>>
memory  == <<scope, traits, todo, skipped, trait_impls, libvars>>
allvars == <<program, cratevars, libvars, files, process>>

NoFiles == [n \in {} |-> {}]

-----------------------------------------------------------------------------
(* Names.  A path loses the separators of its identifiers.                 *)

strip_coq_ident(path) == FlattenSeq(path)

Ident(f) == strip_coq_ident(ItemPath[f])

(* The call functions generated for the closures, and their impls. *)
CallWord == [FnOnce |-> "call_once", FnMut |-> "call_mut", Fn |-> "call"]

GeneratedOrder ==
  FlattenSeq([i \in DOMAIN ClosureOrder |->
    [k \in DOMAIN ClosureTraits |-> <<ClosureOrder[i], ClosureTraits[k]>>]])

(* What is written is a body of the crate, or generated for a closure.     *)
Own(f) == <<f, "own">>

IsGenerated(g) ==
  /\ g[2] # "own"
  /\ g[1] \in DOMAIN scope.closure_info
  /\ g[2] \in scope.closure_info[g[1]]

Generated == {g \in Range(GeneratedOrder) : IsGenerated(g)}

name(g) == IF g[2] = "own" THEN Ident(g[1]) ELSE Append(Ident(g[1]), CallWord[g[2]])

proof_file(n)  == <<"proof", n>>
trait_incl(i)  == <<"trait_incl", i>>

mode(f) == scope.name_map[f].mode

ImplMethod(f) == ImplOf[f] # NoItem

-----------------------------------------------------------------------------
(* generate_module_summary: the functions that are public are listed; the  *)
(* methods of an impl come with it.                                        *)
Written == scope.translated_functions \cup scope.specced_functions

ShimFunctions ==
  {f \in Written : ~ImplMethod(f) /\ mode(f) \in {"prove", "only_spec", "trust_me", "code_shim"}}

(* Traits are listed if others can name them, impls if what they are for,  *)
(* and the trait with its arguments, has a flat form.                      *)
TraitShims     == traits.decls \cap Public
TraitImplShims == trait_impls \cap Flattened

write_shims == (ShimFunctions \cap Public) \cup TraitShims \cup TraitImplShims

WriteInterface ==
  /\ phase = "write"
  /\ interface' = write_shims
  /\ phase' = "purge"
  /\ UNCHANGED <<program, memory>>
  /\ UNCHANGED <<specs, code, order, templates, proofs, modules, process>>

(* The generated directory is emptied, with the dune file of the proofs    *)
(* left as it was.                                                         *)
PurgeGenerated ==
  /\ phase = "purge"
  /\ specs' = {} /\ code' = {} /\ order' = << >> /\ templates' = NoFiles
  /\ phase' = "specs"
  /\ UNCHANGED <<program, memory>>
  /\ UNCHANGED <<interface, proofs, modules, process>>

(* write_specifications: the trait declarations in the order of their      *)
(* dependencies, the code of the functions that need it, and the           *)
(* specifications; that of a default method is part of its trait.          *)
get_registered_trait_deps == [t \in traits.decls |-> TraitDeps[t]]

CodeWritten ==
  {Own(f) : f \in {d \in scope.translated_functions : needs_def(mode(d))}} \cup Generated

SpecsWritten ==
  {Own(f) : f \in {d \in Written : ~scope.name_map[d].is_default_trait_impl}} \cup Generated

WriteSpecifications ==
  /\ phase = "specs"
  /\ order' = order_defs_with_deps(get_registered_trait_deps)
  /\ code'  = CodeWritten
  /\ specs' = SpecsWritten
  /\ phase' = "templates"
  /\ UNCHANGED <<program, memory>>
  /\ UNCHANGED <<interface, templates, proofs, modules, process>>

(* write_templates: one file for every translated function, with the lemma *)
(* to be proved if the function is not trusted.  A file is overwritten by  *)
(* the next one of the same name.                                          *)
OwnOrder == LET order_ == ClosureOrder \o FunctionOrder
            IN  [i \in DOMAIN order_ |-> Own(order_[i])]

(* The elements of a set, in the order of the sequence. *)
Kept(s, set) == FlattenSeq([i \in DOMAIN s |-> IF s[i] \in set THEN <<s[i]>> ELSE << >>])

Translated ==
  Kept(OwnOrder, {Own(f) : f \in scope.translated_functions}) \o Kept(GeneratedOrder, Generated)

\* Mutant: what a closure that is trusted implements is trusted as well.
mut_trusts_closures(g) == needs_proof(mode(g[1]))

check_function_needs_proof(g) == g[2] = "own" => needs_proof(mode(g[1]))

Lemma(f)   == <<"lemma", f>>
Trusted(f) == <<"trusted", f>>

Templates ==
  LET LastOf(n) == Translated[Max({i \in DOMAIN Translated : name(Translated[i]) = n})]
  IN  [n \in {name(g) : g \in Range(Translated)} |->
         IF check_function_needs_proof(LastOf(n)) THEN Lemma(LastOf(n)) ELSE Trusted(LastOf(n))]

(* The proofs there have to be: of the functions, and of the impls. *)
ProofFiles ==
  LET proved == Kept(Translated, {g \in Range(Translated) : check_function_needs_proof(g)})
      impls  == Kept([i \in DOMAIN ImplOrder |-> Own(ImplOrder[i])], {Own(i) : i \in trait_impls})
                  \o Kept(GeneratedOrder, Generated)
  IN  [i \in DOMAIN proved |-> proof_file(name(proved[i]))]
        \o [i \in DOMAIN impls |-> trait_incl(impls[i])]

WriteTemplates ==
  /\ phase = "templates"
  /\ templates' = Inserted(templates, Templates)
  /\ phase' = "proofs"
  /\ todo_proofs' = ProofFiles
  /\ listed' = << >>
  /\ UNCHANGED <<program, memory>>
  /\ UNCHANGED <<interface, specs, code, order, proofs, modules, status, runs>>

(* write_proofs: a file that exists is left alone.  One that does not is   *)
(* created empty, and its buffered script reaches it when it is closed.    *)
Created(file) ==
  [f \in DOMAIN proofs \cup {file} |-> IF f = file THEN "torn" ELSE proofs[f]]

\* Mutant: a proof is created although it exists.
mut_overwrites ==
  /\ phase = "proofs" /\ todo_proofs # << >>
  /\ proofs' = Created(Head(todo_proofs))
  /\ phase' = "fill"
  /\ UNCHANGED <<program, memory, process>>
  /\ UNCHANGED <<interface, specs, code, order, templates, modules>>

CreateProof ==
  /\ phase = "proofs" /\ todo_proofs # << >>
  /\ LET file == Head(todo_proofs)
     IN  IF file \in DOMAIN proofs
         THEN /\ todo_proofs' = Tail(todo_proofs)
              /\ listed' = Append(listed, file)
              /\ UNCHANGED <<phase, proofs>>
         ELSE /\ proofs' = Created(file)
              /\ phase' = "fill"
              /\ UNCHANGED <<todo_proofs, listed>>
  /\ UNCHANGED <<program, memory, status, runs>>
  /\ UNCHANGED <<interface, specs, code, order, templates, modules>>

FillProof ==
  /\ phase = "fill"
  /\ proofs' = [proofs EXCEPT ![Head(todo_proofs)] = "script"]
  /\ todo_proofs' = Tail(todo_proofs)
  /\ listed' = Append(listed, Head(todo_proofs))
  /\ phase' = "proofs"
  /\ UNCHANGED <<program, memory, status, runs>>
  /\ UNCHANGED <<interface, specs, code, order, templates, modules>>

(* The modules to be built are spelled out. *)
WriteProofsDune ==
  /\ phase = "proofs" /\ todo_proofs = << >>
  /\ modules' = listed
  /\ phase' = "done"
  /\ UNCHANGED <<program, memory, process>>
  /\ UNCHANGED <<interface, specs, code, order, templates, proofs>>

-----------------------------------------------------------------------------
(* Runs.  What a run knows is lost when it ends; it ends as the translation *)
(* did, with an error, or killed while it writes.                           *)
Writing == phase \in {"purge", "specs", "templates", "proofs", "fill"}

Forget ==
  /\ phase' = "idle"
  /\ scope' = EmptyScope /\ traits' = NoTraits
  /\ todo' = << >> /\ skipped' = {} /\ trait_impls' = {}
  /\ includes' = {} /\ export_includes' = {}
  /\ included_libs' = {} /\ export_included_libs' = {} /\ sources' = << >>
  /\ todo_proofs' = << >> /\ listed' = << >>
  /\ UNCHANGED <<program, files>>

Exit ==
  /\ phase \in {"done", "failed"}
  /\ status' = phase
  /\ Forget
  /\ UNCHANGED runs

Kill ==
  /\ Writing
  /\ status' = "killed"
  /\ Forget
  /\ UNCHANGED runs

(* Between runs the crate is edited, and so are the proofs. *)
Edit ==
  /\ phase = "idle" /\ 0 < runs /\ runs < MaxRuns
  /\ program' \in Edits
  /\ UNCHANGED <<cratevars, libvars, files, process>>

EditProof ==
  /\ phase = "idle" /\ runs < MaxRuns
  /\ Cardinality({file \in DOMAIN proofs : proofs[file] = "edited"}) < MaxEdited
  /\ \E file \in DOMAIN proofs :
       /\ proofs[file] = "script"
       /\ proofs' = [proofs EXCEPT ![file] = "edited"]
  /\ UNCHANGED <<program, cratevars, libvars, process>>
  /\ UNCHANGED <<interface, specs, code, order, templates, modules>>

Start ==
  /\ runs < MaxRuns
  /\ Begin
  /\ runs' = runs + 1
  /\ UNCHANGED <<files, todo_proofs, listed, status>>

Init ==
  /\ program \in Programs
  /\ NothingTranslated
  /\ interface = {} /\ specs = {} /\ code = {} /\ order = << >>
  /\ templates = NoFiles /\ proofs = NoFiles /\ modules = << >>
  /\ todo_proofs = << >> /\ listed = << >>
  /\ status = "none" /\ runs = 0

Write ==
  \/ WriteInterface \/ PurgeGenerated \/ WriteSpecifications \/ WriteTemplates
  \/ CreateProof \/ FillProof \/ WriteProofsDune

Next ==
  \/ Start
  \/ TranslateCrate /\ UNCHANGED <<files, process>>
  \/ Write \/ Exit \/ Kill \/ Edit \/ EditProof

Spec == Init /\ [][Next]_allvars

-----------------------------------------------------------------------------

(* A library is added once, however the includes and the exports of the    *)
(* libraries refer to each other, and every library that is included,      *)
(* directly or through the exports of another, is added: the loops of      *)
(* generate_coq_code over the work lists.                                  *)
LibrariesLoadedOnce ==
  phase = "libraries" /\ LibrariesLoaded =>
    /\ \A i, j \in DOMAIN sources : sources[i] = sources[j] => i = j
    /\ BroughtIn(program.includes \cup program.export_includes, Range(sources))

(* What a finished run leaves hangs together.  The templates are those of  *)
(* the functions it translated and no others; each function that is        *)
(* specified, by itself or by its trait, and not trusted has its lemma and *)
(* a proof that is built, and each impl the proof that it meets its trait; *)
(* a trait is declared after those it depends on.                          *)
Proved(g) == templates[name(g)] = Lemma(g) /\ proof_file(name(g)) \in Range(modules)

SpecsProvedOrAssumed ==
  phase = "done" =>
    /\ DepsEarlier(order, [t \in traits.decls |-> TraitDeps[t]])
    /\ DOMAIN templates = {name(g) : g \in Range(Translated)}
    /\ \A g \in specs \cup Range(Translated) :
         (g[2] = "own" => ~is_assumed(mode(g[1]))) => Proved(g)
    /\ \A i \in {Own(i) : i \in trait_impls} \cup Generated : trait_incl(i) \in Range(modules)

(* The specification a translated body uses for a function it calls is     *)
(* one for that function, and there: in a library, the user's own, in the  *)
(* generated file, or in a trait declaration.  Where it is missing, the    *)
(* user was told, or has said that the function is to be ignored.          *)
SpecFor(d, spec_name) ==
  \/ spec_name[2] = d
  \/ d \notin Bodies /\ program.export_as[spec_name[2]] = d

Available(spec_name) ==
  CASE spec_name[1] \in {"lib", "annotated"} -> TRUE
    [] spec_name[1] = "type_of"   -> Own(spec_name[2]) \in specs
    [] spec_name[1] = "base_spec" -> TraitOfAssoc(spec_name[2]) \in traits.decls

Reported(f) ==
  \/ f \in skipped \/ "ignore" \in attrs(f) \/ scope.errors
  \/ ImplOf[f] # NoItem /\ "ignore" \in attrs(ImplOf[f])

CallsSpecified ==
  phase = "done" =>
    \A f \in {f \in Bodies : Own(f) \in code} : \A d \in Callees(f) :
      LET spec_name == scope.name_map[d].spec_name
      IN  /\ SpecFor(d, spec_name)
          /\ Available(spec_name) \/ Reported(spec_name[2])

(* A closure is translated before the function that calls it.  The         *)
(* frontend panics for want of a closure only if the translation of the    *)
(* closure had failed, or if it is called from within another closure.     *)
ClosuresFirst ==
  phase = "failed" /\ scope.panic =>
    \/ cyclic(TraitDeps)
    \/ \E f \in Bodies : \E c \in CalledClosures(f) : c \in skipped \/ f \in Closures

(* Proofs that were edited by hand are never changed by the frontend, nor  *)
(* removed, whatever becomes of the crate (README.md, Proof editing).      *)
ProofsKept ==
  [][\A file \in DOMAIN proofs :
       proofs[file] = "edited" => file \in DOMAIN proofs' /\ proofs'[file] = "edited"]_allvars

=============================================================================
