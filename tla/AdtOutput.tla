----------------------------- MODULE AdtOutput -----------------------------
(* The functions of a crate are translated one after the other over one    *)
(* registry of ADTs, and then the definitions are written.                 *)
EXTENDS AdtRegistry

CONSTANT Crates  \* definitions, libraries and functions, see MCTypes

Variants == Seq([fields : Seq([ty : Types, annotated : BOOLEAN])])
Requests == Types \cup [k : {"construct"}, adt : Adt, i : Nat]

ASSUME AdtAssumption == IsFiniteSet(Adt)

(* Types are finite trees; the ADTs at their nodes are those of the crate. *)
ASSUME TypesAssumption ==
  \A t \in Types :
    /\ t.k \in {"adt", "compound", "reference", "simple", "unsupported"}
    /\ t.args \in Seq(Types)
    /\ t.k = "adt" => t.adt \in Adt

(* A struct has one variant, and the attributes of a definition list ADTs. *)
ASSUME CratesAssumption ==
  \A c \in Crates :
    /\ c.shims \subseteq Adt
    /\ c.functions \in Seq(Seq(Requests))
    /\ \A d \in Adt :
         /\ c.adts[d].bounds \in Seq(Types)
         /\ c.adts[d].variants \in Variants
         /\ c.adts[d].kind = "struct" => Len(c.adts[d].variants) = 1
         /\ c.adts[d].extra_deps \subseteq Adt
         /\ c.adts[d].attrs_ok \in BOOLEAN
         /\ c.adts[d].repr_ok \in BOOLEAN
         /\ c.adts[d].invariant \in BOOLEAN

VARIABLES
  results,  \* the outcome and the literals of the functions so far
  phase,    \* translate, written or panic
  layers    \* the definitions in the order they are written

vars == <<adtvars, results, phase, layers>>

functions == crate.functions
stopped   == \E i \in DOMAIN results : results[i].outcome = "fatal"

(* What a signature and a body ask for: a type, or a place or aggregate of *)
(* an ADT, which is registered before its literal is looked up.            *)
RequestTasks(rs) ==
  FlattenSeq([n \in DOMAIN rs |->
                IF rs[n].k = "construct"
                THEN <<[k |-> "register", adt |-> rs[n].adt],
                       [k |-> "construct", did |-> VariantDid(rs[n].adt, rs[n].i)]>>
                ELSE TypeTasks(<<rs[n]>>, InFunction)])

StartFunction ==
  /\ phase = "translate" /\ outcome = "idle" /\ ~stopped
  /\ Len(results) < Len(functions)
  /\ tasks' = RequestTasks(functions[Len(results) + 1])
  /\ uses' = {}
  /\ outcome' = "none"
  /\ UNCHANGED <<crate, registry, results, phase, layers>>

(* An unsupported function is skipped, an error to the compiler ends the   *)
(* translation; a panic ends the frontend.                                 *)
EndFunction ==
  /\ phase = "translate"
  /\ (outcome = "none" /\ tasks = << >>) \/ outcome \in {"skipped", "fatal", "panic"}
  /\ results' = Append(results, [outcome |-> IF outcome = "none" THEN "done" ELSE outcome,
                                 uses |-> IF outcome = "none" THEN uses ELSE {}])
  /\ phase' = IF outcome = "panic" THEN "panic" ELSE phase
  /\ outcome' = "idle"
  /\ UNCHANGED <<crate, registry, tasks, uses, layers>>

(* Those in the order that have no entry are passed over. *)
Writable(ls) ==
  {d \in UNION {ls[n] : n \in DOMAIN ls} :
     IF is_struct(d) THEN Did(d) \in DOMAIN variant_registry ELSE d \in DOMAIN enum_registry}

(* The cells that are looked into when d is written; the bounds are        *)
(* written with an invariant.                                              *)
Rendered(d) ==
  LET c == CellOf(d)
  IN  {c} \cup cells[c].refs
        \cup (IF is_struct(d) /\ def(d).invariant THEN cells[c].bounds ELSE {})

WriteDefinitions ==
  /\ phase = "translate" /\ outcome = "idle"
  /\ stopped \/ Len(results) = Len(functions)
  /\ LET ls == order_defs_with_deps(adt_deps)
     IN  IF cyclic(adt_deps) \/ \E d \in Writable(ls) : \E c \in Rendered(d) : ~cells[c].filled
         THEN phase' = "panic" /\ UNCHANGED layers
         ELSE /\ phase' = "written"
              /\ layers' = [n \in DOMAIN ls |-> ls[n] \cap Writable(ls)]
  /\ UNCHANGED <<adtvars, results>>

Init ==
  /\ crate \in Crates
  /\ EmptyRegistry
  /\ tasks = << >> /\ uses = {} /\ outcome = "idle"
  /\ results = << >> /\ phase = "translate" /\ layers = << >>

Next ==
  \/ TranslateTypes /\ UNCHANGED <<results, phase, layers>>
  \/ StartFunction
  \/ EndFunction
  \/ WriteDefinitions

Spec == Init /\ [][Next]_vars

-----------------------------------------------------------------------------
(* A definition that is written mentions in its fields only itself and     *)
(* definitions that come earlier (write_specifications): what a field      *)
(* needs is known through arrays, references, arguments and variants.      *)
(* After an error to the compiler definitions may be missing.              *)
DefinedBeforeUse ==
  ~stopped =>
    \A n \in DOMAIN layers : \A d \in layers[n] : \A r \in cells[CellOf(d)].refs :
      cells[r].adt \in {d} \cup UNION {layers[m] : m \in 1 .. n - 1}

(* The literals that translated functions assume to be layoutable belong   *)
(* to a library or to a definition that is written, also when registering  *)
(* an ADT failed for an earlier function.                                  *)
UsesDefined ==
  phase = "written" =>
    \A i \in DOMAIN results : \A did \in results[i].uses :
      did \in {Did(d) : d \in crate.shims} \/ did[1] \in UNION {layers[n] : n \in DOMAIN layers}

=============================================================================
