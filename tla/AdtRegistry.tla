---------------------------- MODULE AdtRegistry ----------------------------
(* The registry of struct and enum definitions (TX in types/translator.rs). *)
(* Translating a type registers the ADTs it mentions, which translates the *)
(* types of their fields.  The call stack is the variable `tasks`.  An ADT *)
(* is entered with an empty cell before its fields are translated, so that *)
(* recursive occurrences can refer to it; the cell is filled at the end.   *)
EXTENDS DefOrder, SequencesExt

CONSTANTS
  Adt,       \* the structs and enums
  Types,     \* the types that definitions and functions are written with
  MaxDepth   \* bound on the call stack, beyond which it overflows

VARIABLES
  crate,            \* the definitions and the functions, see MCTypes
  variant_registry, \* the cells of structs and of the variants of enums
  enum_registry,    \* the cells of enums
  cells,            \* the arena of definitions
  adt_deps,
  adt_shims,        \* literals by which functions refer to an ADT
  tasks,            \* what is to be done, the innermost call first
  uses,             \* the literals the function at hand refers to
  outcome           \* how its translation ended, if it has

registry == <<variant_registry, enum_registry, cells, adt_deps, adt_shims>>
adtvars  == <<crate, registry, tasks, uses, outcome>>

(* Types: of an ADT with arguments; an array or tuple of others; a         *)
(* reference; an integer, type parameter or raw pointer; or one without    *)
(* support.                                                                *)
Use(d, args)  == [k |-> "adt", adt |-> d, args |-> args]
Compound(args) == [k |-> "compound", args |-> args]
Reference(t)  == [k |-> "reference", args |-> <<t>>]
Simple        == [k |-> "simple", args |-> << >>]
Unsupported   == [k |-> "unsupported", args |-> << >>]

def(d)       == crate.adts[d]
is_struct(d) == def(d).kind = "struct"
variants(d)  == def(d).variants

(* A struct has the name of its variant. *)
Did(d)        == <<d, 0>>
VariantDid(d, i) == IF is_struct(d) THEN Did(d) ELSE <<d, i>>

is_registered_local_adt(d) ==
  Did(d) \in DOMAIN variant_registry \/ d \in DOMAIN enum_registry
is_registered_remote_adt(d) == Did(d) \in adt_shims /\ ~is_registered_local_adt(d)
is_registered_adt(d)        == Did(d) \in adt_shims \/ is_registered_local_adt(d)

CellOf(d) == IF is_struct(d) THEN variant_registry[Did(d)] ELSE enum_registry[d]

With(f, x, y)  == [d \in DOMAIN f \cup {x} |-> IF d = x THEN y ELSE f[d]]
Without(f, ds) == [d \in DOMAIN f \ ds |-> f[d]]

(* A cell: the definition it is for, the cell of the ADT that collects the *)
(* dependencies, and the cells that its fields and bounds refer to.        *)
NewCell(d, owner) ==
  [adt |-> d, owner |-> owner, filled |-> FALSE, deps |-> {},
   field |-> {}, refs |-> {}, bounds |-> {}]

(* Where a type occurs: in a function, in a field, or in the bounds of an  *)
(* ADT, which are translated in a state of their own.                      *)
InFunction      == [k |-> "function", cell |-> 0]
TranslateAdt(c) == [k |-> "adt", cell |-> c]
TraitReqs(c)    == [k |-> "bounds", cell |-> c]

-----------------------------------------------------------------------------
Top(k) == outcome = "none" /\ tasks # << >> /\ Head(tasks).k = k /\ Len(tasks) <= MaxDepth
task   == Head(tasks)

Push(ts) == tasks' = ts \o Tail(tasks)

TypeTasks(ts, ctx) == [i \in DOMAIN ts |-> [k |-> "type", ty |-> ts[i], ctx |-> ctx]]

Panic == outcome' = "panic" /\ tasks' = << >> /\ UNCHANGED <<crate, registry, uses>>

(* An error is passed up to the function; on the way each ADT that is      *)
(* being registered takes back its own entry.                              *)
Pending(ts) ==
  {ts[i].cell : i \in {j \in DOMAIN ts : ts[j].k \in {"build_struct", "build_enum"}}}

Fail(failed, how) ==
  LET ds == {cells[c].adt : c \in failed}
  IN  /\ outcome' = how
      /\ tasks' = << >>
      /\ variant_registry' = Without(variant_registry, {Did(d) : d \in {e \in ds : is_struct(e)}})
      /\ enum_registry' = Without(enum_registry, {d \in ds : ~is_struct(d)})

StackOverflow == outcome = "none" /\ Len(tasks) > MaxDepth /\ Panic

-----------------------------------------------------------------------------
(* translate_type_in_state.                                                *)

TranslateUnsupported ==
  /\ Top("type") /\ task.ty.k = "unsupported"
  /\ Fail(Pending(tasks), "skipped")
  /\ UNCHANGED <<crate, cells, adt_deps, adt_shims, uses>>

TranslateCompound ==
  /\ Top("type") /\ task.ty.k \in {"simple", "compound", "reference"}
  /\ Push(TypeTasks(task.ty.args, task.ctx))
  /\ UNCHANGED <<crate, registry, uses, outcome>>

(* An ADT of another crate is known by its literal; one of this crate is   *)
(* registered.  The arguments are translated before the use is recorded.   *)
TranslateAdtUse ==
  /\ Top("type") /\ task.ty.k = "adt"
  /\ LET d == task.ty.adt
     IN  Push((IF is_registered_remote_adt(d) THEN << >> ELSE <<[k |-> "register", adt |-> d]>>)
                \o TypeTasks(task.ty.args, task.ctx)
                \o <<[k |-> "use", adt |-> d, ctx |-> task.ctx]>>)
  /\ UNCHANGED <<crate, registry, uses, outcome>>

\* Mutant: only the first dependency of a definition is noted.
mut_first_dependency ==
  LET d   == task.adt
      c   == task.ctx.cell
      ref == IF is_registered_local_adt(d) THEN {CellOf(d)} ELSE {}
  IN  /\ Top("use") /\ task.ctx.k # "function"
      /\ cells' = IF task.ctx.k = "adt"
                  THEN [cells EXCEPT ![c].field = @ \cup ref,
                          ![cells[c].owner].deps = IF @ = {} THEN {d} ELSE @]
                  ELSE [cells EXCEPT ![c].bounds = @ \cup ref]
      /\ Push(<< >>)
      /\ UNCHANGED <<crate, variant_registry, enum_registry, adt_deps, adt_shims, uses, outcome>>

(* register_adt_use, and the cell that the translated type refers to.  A   *)
(* function refers to an ADT by its literal, which has to be there.        *)
UseInDefinition ==
  LET d   == task.adt
      c   == task.ctx.cell
      ref == IF is_registered_local_adt(d) THEN {CellOf(d)} ELSE {}
  IN  /\ Top("use") /\ task.ctx.k # "function"
      /\ cells' = IF task.ctx.k = "adt"
                  THEN [cells EXCEPT ![c].field = @ \cup ref, ![cells[c].owner].deps = @ \cup {d}]
                  ELSE [cells EXCEPT ![c].bounds = @ \cup ref]
      /\ Push(<< >>)
      /\ UNCHANGED <<crate, variant_registry, enum_registry, adt_deps, adt_shims, uses, outcome>>

UseInFunction ==
  /\ Top("use") /\ task.ctx.k = "function"
  /\ IF Did(task.adt) \in adt_shims
     THEN /\ uses' = uses \cup {Did(task.adt)}
          /\ Push(<< >>)
          /\ UNCHANGED <<crate, registry, outcome>>
     ELSE Panic

(* A place or an aggregate in a body (generate_structlike_use and          *)
(* generate_enum_use); a literal that is missing is an error to the compiler. *)
Construct ==
  /\ Top("construct")
  /\ LET did == task.did
     IN  IF did \in adt_shims
         THEN /\ uses' = uses \cup {did}
              /\ Push(<< >>)
              /\ UNCHANGED <<crate, registry, outcome>>
         ELSE /\ Fail({}, "fatal")
              /\ UNCHANGED <<crate, cells, adt_deps, adt_shims, uses>>

-----------------------------------------------------------------------------
(* register_adt.                                                           *)

(* The bounds of the ADT come first. *)
RegisterAdt ==
  /\ Top("register")
  /\ LET d == task.adt
         c == Len(cells) + 1
     IN  IF is_registered_adt(d) THEN Push(<< >>) /\ UNCHANGED cells
         ELSE /\ cells' = Append(cells, NewCell(d, c))
              /\ Push(TypeTasks(def(d).bounds, TraitReqs(c)) \o <<[k |-> "enter", cell |-> c]>>)
  /\ UNCHANGED <<crate, variant_registry, enum_registry, adt_deps, adt_shims, uses, outcome>>

(* make_adt_variant: the fields, each translated and then annotated. *)
FieldTasks(c, fields) ==
  FlattenSeq([i \in DOMAIN fields |->
                TypeTasks(<<fields[i].ty>>, TranslateAdt(c))
                  \o <<[k |-> "field", cell |-> c, ty |-> fields[i].ty,
                          annotated |-> fields[i].annotated]>>])

\* Mutant: a struct is entered only after its fields are translated.
mut_enters_late ==
  /\ Top("enter")
  /\ LET c == task.cell
         d == cells[c].adt
     IN  \/ /\ is_struct(d) /\ def(d).repr_ok
            /\ Push(FieldTasks(c, variants(d)[1].fields) \o <<[k |-> "build_struct", cell |-> c]>>)
            /\ UNCHANGED <<variant_registry, enum_registry, outcome>>
         \/ /\ is_struct(d) /\ ~def(d).repr_ok
            /\ Fail(Pending(tasks) \cup {c}, "skipped")
         \/ /\ ~is_struct(d)
            /\ enum_registry' = With(enum_registry, d, c)
            /\ Push([i \in DOMAIN variants(d) |-> [k |-> "variant", cell |-> c, i |-> i]]
                      \o <<[k |-> "build_enum", cell |-> c]>>)
            /\ UNCHANGED <<variant_registry, outcome>>
  /\ UNCHANGED <<crate, cells, adt_deps, adt_shims, uses>>

(* The empty cell is entered, for recursive occurrences. *)
EnterAdt ==
  /\ Top("enter")
  /\ LET c == task.cell
         d == cells[c].adt
     IN  \/ /\ is_struct(d) /\ def(d).repr_ok
            /\ variant_registry' = With(variant_registry, Did(d), c)
            /\ Push(FieldTasks(c, variants(d)[1].fields) \o <<[k |-> "build_struct", cell |-> c]>>)
            /\ UNCHANGED <<enum_registry, outcome>>
         \/ /\ is_struct(d) /\ ~def(d).repr_ok
            /\ Fail(Pending(tasks) \cup {c}, "skipped")
         \/ /\ ~is_struct(d)
            /\ enum_registry' = With(enum_registry, d, c)
            /\ Push([i \in DOMAIN variants(d) |-> [k |-> "variant", cell |-> c, i |-> i]]
                      \o <<[k |-> "build_enum", cell |-> c]>>)
            /\ UNCHANGED <<variant_registry, outcome>>
  /\ UNCHANGED <<crate, cells, adt_deps, adt_shims, uses>>

(* A variant of an enum has a cell of its own, entered under its own name. *)
(* It stays there when the representation is not supported.                *)
EnterVariant ==
  /\ Top("variant")
  /\ LET v     == Len(cells) + 1
         d     == cells[task.cell].adt
         did   == VariantDid(d, task.i)
     IN  /\ cells' = Append(cells, NewCell(d, task.cell))
         /\ \/ /\ def(d).repr_ok
               /\ variant_registry' = With(variant_registry, did, v)
               /\ Push(FieldTasks(v, variants(d)[task.i].fields)
                         \o <<[k |-> "build_variant", cell |-> v, i |-> task.i]>>)
               /\ UNCHANGED <<enum_registry, outcome>>
            \/ /\ ~def(d).repr_ok
               /\ LET ds == {cells[c].adt : c \in Pending(tasks)}
                  IN  variant_registry' = With(Without(variant_registry, {Did(e) : e \in ds}), did, v)
               /\ enum_registry' = Without(enum_registry, {cells[c].adt : c \in Pending(tasks)})
               /\ outcome' = "skipped" /\ tasks' = << >>
  /\ UNCHANGED <<crate, adt_deps, adt_shims, uses>>

(* The ADTs whose layouts make up that of a type: a reference is a pointer, *)
(* whatever it refers to.                                                  *)
LaidOut[t \in Types] ==
  (IF t.k = "adt" THEN {t.adt} ELSE {})
    \cup IF t.k = "reference" THEN {} ELSE UNION {LaidOut[t.args[i]] : i \in DOMAIN t.args}

(* parse_field_spec: an annotated type stands for the field, and the layout *)
(* of the Rust type is written out at once, which needs the definitions of *)
(* the ADTs in it.                                                         *)
BuildField ==
  /\ Top("field")
  /\ LET c == task.cell
     IN  IF /\ task.annotated
           /\ \E r \in cells[c].field : ~cells[r].filled /\ cells[r].adt \in LaidOut[task.ty]
         THEN Panic
         ELSE /\ cells' = [cells EXCEPT ![c].field = {},
                             ![c].refs = IF task.annotated THEN @ ELSE @ \cup cells[c].field]
              /\ Push(<< >>)
              /\ UNCHANGED <<crate, variant_registry, enum_registry, adt_deps, adt_shims,
                             uses, outcome>>

(* The literal of an ADT is registered last; a second one is an error. *)
register_adt_shim(did) ==
  IF did \in adt_shims
  THEN Fail(Pending(Tail(tasks)), "fatal") /\ UNCHANGED adt_shims
  ELSE /\ adt_shims' = adt_shims \cup {did}
       /\ Push(<< >>)
       /\ UNCHANGED <<variant_registry, enum_registry, outcome>>

\* Mutant: the literal is there before a recursive struct is rejected.
mut_literal_first(d) ==
  /\ Fail(Pending(tasks), "skipped")
  /\ adt_shims' = adt_shims \cup {Did(d)}
  /\ UNCHANGED <<cells, adt_deps>>

RecursiveTypeWithoutInvariant(d) ==
  /\ Fail(Pending(tasks), "skipped")
  /\ UNCHANGED <<cells, adt_deps, adt_shims>>

(* A struct that depends on itself needs an invariant.  An error in the    *)
(* attribute that lists further dependencies leaves the entry behind.      *)
BuildStruct ==
  /\ Top("build_struct")
  /\ LET c    == task.cell
         d    == cells[c].adt
         deps == cells[c].deps \cup def(d).extra_deps
     IN  \/ /\ ~def(d).attrs_ok
            /\ Fail(Pending(Tail(tasks)), "skipped")
            /\ UNCHANGED <<cells, adt_deps, adt_shims>>
         \/ /\ def(d).attrs_ok
            /\ d \in deps /\ ~def(d).invariant
            /\ RecursiveTypeWithoutInvariant(d)
         \/ /\ def(d).attrs_ok
            /\ d \in deps => def(d).invariant
            /\ cells' = [cells EXCEPT ![c].filled = TRUE]
            /\ adt_deps' = With(adt_deps, d, deps \ {d})
            /\ register_adt_shim(Did(d))
  /\ UNCHANGED <<crate, uses>>

BuildVariant ==
  /\ Top("build_variant")
  /\ LET v == task.cell
     IN  /\ cells' = [cells EXCEPT ![v].filled = TRUE]
         /\ register_adt_shim(VariantDid(cells[v].adt, task.i))
  /\ UNCHANGED <<crate, adt_deps, uses>>

(* Annotations of an enum that cannot be read are an error to the compiler. *)
BuildEnum ==
  /\ Top("build_enum")
  /\ LET c == task.cell
         d == cells[c].adt
         vs == {variant_registry[VariantDid(d, i)] : i \in DOMAIN variants(d)}
     IN  \/ /\ ~def(d).attrs_ok
            /\ Fail(Pending(tasks), "fatal")
            /\ UNCHANGED <<cells, adt_deps, adt_shims>>
         \/ /\ def(d).attrs_ok
            /\ cells' = [cells EXCEPT ![c].filled = TRUE,
                                      ![c].refs = UNION {cells[v].refs : v \in vs}]
            /\ adt_deps' = IF Did(d) \in adt_shims THEN adt_deps
                           ELSE With(adt_deps, d, cells[c].deps \ {d})
            /\ register_adt_shim(Did(d))
  /\ UNCHANGED <<crate, uses>>

EmptyRegistry ==
  /\ variant_registry = << >> /\ enum_registry = << >> /\ cells = << >>
  /\ adt_deps = << >>
  /\ adt_shims = {Did(d) : d \in crate.shims}

TranslateTypes ==
  \/ TranslateUnsupported \/ TranslateCompound \/ TranslateAdtUse
  \/ UseInDefinition \/ UseInFunction \/ Construct
  \/ RegisterAdt \/ EnterAdt \/ EnterVariant
  \/ BuildField \/ BuildStruct \/ BuildVariant \/ BuildEnum \/ StackOverflow
=============================================================================
