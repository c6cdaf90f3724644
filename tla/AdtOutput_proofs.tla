-------------------------- MODULE AdtOutput_proofs --------------------------
(* Theorems about AdtOutput, for crates with any number of ADTs, types of    *)
(* any depth and any number of functions: the definitions that are written   *)
(* come in an order, and what translated functions refer to is written.      *)
EXTENDS AdtOutput, FixedPoints

-----------------------------------------------------------------------------
(* What the variables range over. *)

Ctx == [k : {"function", "adt", "bounds"}, cell : Nat]

Task ==
  [k : {"type"}, ty : Types, ctx : Ctx]
  \cup [k : {"use"}, adt : Adt, ctx : Ctx]
  \cup [k : {"register"}, adt : Adt]
  \cup [k : {"construct"}, did : Adt \X Nat]
  \cup [k : {"enter", "build_struct", "build_enum"}, cell : Nat]
  \cup [k : {"field"}, cell : Nat, ty : Types, annotated : BOOLEAN]
  \cup [k : {"variant", "build_variant"}, cell : Nat, i : Nat]

Cell ==
  [adt : Adt, owner : Nat, filled : BOOLEAN, deps : SUBSET Adt,
   field : SUBSET Nat, refs : SUBSET Nat, bounds : SUBSET Nat]

TypeInv ==
  /\ crate \in Crates
  /\ cells \in Seq(Cell)
  /\ tasks \in Seq(Task)
  /\ \A d \in DOMAIN adt_deps : d \in Adt /\ adt_deps[d] \subseteq Adt
  /\ outcome \in {"idle", "none", "skipped", "fatal", "panic"}
  /\ results \in Seq([outcome : {"done", "skipped", "fatal", "panic"}, uses : SUBSET (Adt \X Nat)])
  /\ uses \subseteq Adt \X Nat

(* A task of an ADT that was entered into the registry: of its fields or     *)
(* variants.                                                                 *)
Inside(t, c) ==
  \/ t.k \in {"type", "use"} /\ t.ctx.k = "adt" /\ cells[t.ctx.cell].owner = c
  \/ t.k \in {"field", "build_variant"} /\ cells[t.cell].owner = c
  \/ t.k = "variant" /\ t.cell = c

Builds(t, c) == t.k \in {"build_struct", "build_enum"} /\ t.cell = c
Enters(t, c) == t.k = "enter" /\ t.cell = c
At(t, c)     == Builds(t, c) \/ Enters(t, c)

(* A task of a function. *)
OfFunction(t) ==
  \/ t.k = "construct"
  \/ t.k \in {"type", "use"} /\ t.ctx.k = "function"

AwaitsVariant(t, c, i) == t.k = "variant" /\ t.cell = c /\ t.i = i
AwaitsType(t, c, ty)   == t.k = "type" /\ t.ty = ty /\ Inside(t, c)
AwaitsUse(t, c, d)     == t.k = "use" /\ t.adt = d /\ Inside(t, c)

(* The cells of an ADT and of its variants belong together, and a field only *)
(* refers to ADTs that are noted as dependencies.                            *)
CellOK(c) ==
  /\ cells[c].adt \notin crate.shims
  /\ cells[c].owner \in DOMAIN cells
  /\ cells[cells[c].owner].owner = cells[c].owner
  /\ cells[cells[c].owner].adt = cells[c].adt
  /\ \A r \in cells[c].field \cup cells[c].refs :
       /\ r \in DOMAIN cells /\ cells[r].owner = r
       /\ cells[r].adt \in cells[cells[c].owner].deps

CellsInv == \A c \in DOMAIN cells : CellOK(c)

EntryOK(d, c) == c \in DOMAIN cells /\ cells[c].adt = d /\ cells[c].owner = c

RegistryInv ==
  \A d \in Adt :
    /\ is_struct(d) /\ Did(d) \in DOMAIN variant_registry => EntryOK(d, variant_registry[Did(d)])
    /\ ~is_struct(d) => Did(d) \notin DOMAIN variant_registry
    /\ d \in DOMAIN enum_registry => ~is_struct(d) /\ EntryOK(d, enum_registry[d])

(* The tasks refer to cells of their kind; what is still to be built is not  *)
(* filled.                                                                   *)
TaskOK(t) ==
  /\ t.k \in {"type", "use"} /\ t.ctx.k # "function" => t.ctx.cell \in DOMAIN cells
  /\ t.k \in {"enter", "field", "variant", "build_struct", "build_enum", "build_variant"} =>
       t.cell \in DOMAIN cells
  /\ t.k \in {"enter", "build_struct", "build_enum"} =>
       ~cells[t.cell].filled /\ cells[t.cell].owner = t.cell
  /\ t.k = "enter" => cells[t.cell].deps = {}
  /\ t.k = "build_struct" => is_struct(cells[t.cell].adt) /\ def(cells[t.cell].adt).repr_ok
  /\ t.k \in {"build_enum", "variant", "build_variant"} => ~is_struct(cells[t.cell].adt)
  /\ t.k \in {"variant", "build_variant"} => t.i \in DOMAIN variants(cells[t.cell].adt)
  /\ t.k = "variant" => cells[t.cell].owner = t.cell
  /\ t.k = "build_variant" => cells[t.cell].owner # t.cell
  /\ t.k = "construct" /\ is_struct(t.did[1]) => t.did[2] = 0

TasksInv == \A i \in DOMAIN tasks : TaskOK(tasks[i])

(* The fields of an ADT are translated before it is built. *)
Nested ==
  \A i \in DOMAIN tasks, c \in DOMAIN cells :
    Inside(tasks[i], c) => \E j \in DOMAIN tasks : i < j /\ Builds(tasks[j], c)

(* A cell is entered and built once; an ADT can be registered again while    *)
(* its bounds are translated, but is then built before it is entered again.  *)
Once ==
  \A i, j \in DOMAIN tasks, c \in DOMAIN cells : At(tasks[i], c) /\ At(tasks[j], c) => i = j

OneBuild ==
  \A i, j \in DOMAIN tasks, b, c \in DOMAIN cells :
    Builds(tasks[i], b) /\ cells[b].adt = cells[c].adt =>
      /\ Builds(tasks[j], c) => i = j
      /\ Enters(tasks[j], c) => i < j

FunctionsLast ==
  \A i, j \in DOMAIN tasks, c \in DOMAIN cells :
    OfFunction(tasks[i]) /\ i < j => ~Builds(tasks[j], c)

StackInv == TasksInv /\ Nested /\ Once /\ OneBuild /\ FunctionsLast

BuildsRegistered ==
  \A i \in DOMAIN tasks, c \in DOMAIN cells :
    Builds(tasks[i], c) => /\ is_registered_local_adt(cells[c].adt)
                           /\ \A e \in cells[c].deps : is_registered_adt(e)

(* The ADT of a use, and the task that sees to it that it is registered.     *)
UsedAdt(t)      == IF t.k = "use" THEN t.adt ELSE t.did[1]
Registers(t, d) ==
  \/ t.k = "register" /\ t.adt = d
  \/ t.k = "enter" /\ cells[t.cell].adt = d

UsesRegistered ==
  \A i \in DOMAIN tasks :
    tasks[i].k \in {"use", "construct"} =>
      \/ is_registered_adt(UsedAdt(tasks[i]))
      \/ \E j \in DOMAIN tasks : j < i /\ Registers(tasks[j], UsedAdt(tasks[i]))

VariantEntered(c, i) ==
  LET d == cells[c].adt
  IN  /\ def(d).repr_ok
      /\ <<d, i>> \in DOMAIN variant_registry
      /\ variant_registry[<<d, i>>] \in DOMAIN cells
      /\ cells[variant_registry[<<d, i>>]].owner = c

VariantsEntered ==
  \A j \in DOMAIN tasks, c \in DOMAIN cells :
    tasks[j].k = "build_enum" /\ tasks[j].cell = c =>
      \A i \in DOMAIN variants(cells[c].adt) :
        VariantEntered(c, i) \/ \E h \in DOMAIN tasks : AwaitsVariant(tasks[h], c, i)

(* The types that were met in the fields of c are supported, and what they   *)
(* mention is noted, except for what is still to be done.                    *)
Met(S, c) ==
  \A t \in S :
    \/ \E h \in DOMAIN tasks : AwaitsType(tasks[h], c, t)
    \/ /\ t.k # "unsupported"
       /\ \A a \in DOMAIN t.args : t.args[a] \in S
       /\ t.k = "adt" => t.adt \in cells[c].deps
                           \/ \E h \in DOMAIN tasks : AwaitsUse(tasks[h], c, t.adt)

FieldsMet(S, c) ==
  LET d == cells[c].adt
  IN  \A i \in DOMAIN variants(d) :
        \/ \E h \in DOMAIN tasks : AwaitsVariant(tasks[h], c, i)
        \/ \A f \in DOMAIN variants(d)[i].fields : variants(d)[i].fields[f].ty \in S

FieldsCovered ==
  \A j \in DOMAIN tasks, c \in DOMAIN cells :
    Builds(tasks[j], c) => \E S \in SUBSET Types : Met(S, c) /\ FieldsMet(S, c)

(* An ADT with a literal is sound: nothing in it can fail, as all that its   *)
(* fields mention is registered.                                             *)
SoundDef(d, S, M) ==
  /\ \A t \in S : /\ t.k # "unsupported"
                  /\ \A a \in DOMAIN t.args : t.args[a] \in S
                  /\ t.k = "adt" => t.adt \in M
  /\ \A i \in DOMAIN variants(d) : \A f \in DOMAIN variants(d)[i].fields :
       variants(d)[i].fields[f].ty \in S
  /\ \A e \in M : is_registered_adt(e)
  /\ variants(d) # << >> => def(d).repr_ok
  /\ is_struct(d) /\ d \in M \cup def(d).extra_deps => def(d).invariant

Harmless(t, c, S, M) ==
  \/ t.k = "type" /\ Inside(t, c) /\ t.ty \in S
  \/ t.k = "use" /\ Inside(t, c) /\ t.adt \in M
  \/ t.k = "register" /\ t.adt \in M
  \/ t.k \in {"field", "variant", "build_variant"} /\ Inside(t, c)

HarmlessAbove(j, c, S, M) ==
  /\ cells[c].deps \subseteq M
  /\ \A i \in DOMAIN tasks : i < j => Harmless(tasks[i], c, S, M)

(* So it cannot fail when it is entered and built a second time, and its     *)
(* entry is not taken back.                                                  *)
SecondInv ==
  \A j \in DOMAIN tasks, c \in DOMAIN cells :
    At(tasks[j], c) /\ Did(cells[c].adt) \in adt_shims =>
      \E S \in SUBSET Types, M \in SUBSET Adt :
        /\ SoundDef(cells[c].adt, S, M)
        /\ Builds(tasks[j], c) => HarmlessAbove(j, c, S, M)

Alive == phase # "panic" /\ outcome \notin {"fatal", "panic"} /\ ~stopped

(* A filled definition has its dependencies in adt_deps. *)
FilledInv ==
  Alive => \A c \in DOMAIN cells : cells[c].filled /\ cells[c].owner = c =>
             LET d == cells[c].adt
             IN  /\ d \in DOMAIN adt_deps /\ Did(d) \in adt_shims
                 /\ cells[c].deps \subseteq adt_deps[d] \cup {d}

Building(d) == \E i \in DOMAIN tasks, c \in DOMAIN cells : Builds(tasks[i], c) /\ cells[c].adt = d

LibrariesInv ==
  /\ \A did \in adt_shims : did[1] \in crate.shims => did = Did(did[1])
  /\ \A d \in crate.shims : Did(d) \in adt_shims

ShimsInv ==
  Alive =>
    /\ \A d \in Adt : Did(d) \in adt_shims /\ d \notin crate.shims =>
                        is_registered_local_adt(d) /\ d \in DOMAIN adt_deps
    /\ \A d \in DOMAIN enum_registry : Did(d) \in adt_shims \/ Building(d)

UsesInv == \A did \in uses : did \in adt_shims /\ Did(did[1]) \in adt_shims

(* What a translated function refers to stays. *)
Stable(d) ==
  /\ Did(d) \in adt_shims
  /\ is_registered_local_adt(d)
  /\ d \in DOMAIN adt_deps
  /\ \A j \in DOMAIN tasks, c \in DOMAIN cells : At(tasks[j], c) => cells[c].adt # d

OfLibrary(did) == did[1] \in crate.shims /\ did = Did(did[1])

ResultsInv ==
  \A i \in DOMAIN results : \A did \in results[i].uses : OfLibrary(did) \/ Stable(did[1])

ControlInv ==
  /\ outcome # "none" => tasks = << >>
  /\ outcome = "none" => ~stopped /\ phase = "translate"
  /\ phase = "written" => outcome = "idle"
  /\ phase # "written" => layers = << >>

-----------------------------------------------------------------------------
(* A step that replaces the innermost task by others.                        *)

Pushed(s, p, r) ==
  /\ r \in Seq(Task)
  /\ Len(s) \in Nat /\ Len(p) \in Nat /\ 1 \in DOMAIN s /\ Head(s) = s[1]
  /\ \A i \in DOMAIN p : i \in DOMAIN r /\ r[i] = p[i]
  /\ \A j \in DOMAIN s : j # 1 => j - 1 + Len(p) \in DOMAIN r /\ r[j - 1 + Len(p)] = s[j]
  /\ \A i \in DOMAIN r : i \in DOMAIN p \/ \E j \in DOMAIN s : j # 1 /\ i = j - 1 + Len(p)

LEMMA PushedAt ==
  ASSUME NEW s \in Seq(Task), s # << >>, NEW p \in Seq(Task), NEW r, r = p \o Tail(s)
  PROVE  Pushed(s, p, r)
<1> DEFINE t == Tail(s)
<1>1. t \in Seq(Task) /\ Len(t) = Len(s) - 1 /\ Len(s) \in Nat /\ Len(s) # 0
  OBVIOUS
<1>2. \A j \in 1 .. Len(t) : t[j] = s[j + 1]
  OBVIOUS
<1>r. r = p \o t
  OBVIOUS
<1> HIDE DEF t
<1>3. r \in Seq(Task) /\ Len(r) = Len(p) + Len(t) /\ Len(p) \in Nat
  BY <1>1, <1>r
<1>4. \A i \in DOMAIN p : i \in DOMAIN r /\ r[i] = p[i]
  BY <1>1, <1>r
<1>5. ASSUME NEW j \in DOMAIN s, j # 1
      PROVE  j - 1 + Len(p) \in DOMAIN r /\ r[j - 1 + Len(p)] = s[j]
  <2>1. j - 1 \in 1 .. Len(t) /\ (j - 1) + 1 = j
    BY <1>1, <1>5
  <2>2. r[j - 1 + Len(p)] = t[j - 1]
    <3>1. \A k \in 1 .. Len(t) : (p \o t)[k + Len(p)] = t[k]
      BY <1>1
    <3> QED BY <1>1, <1>3, <1>r, <2>1, <3>1
  <2>3. j - 1 + Len(p) \in 1 .. Len(r)
    BY <1>1, <1>3, <2>1
  <2> QED BY <1>2, <1>3, <2>1, <2>2, <2>3
<1>6. ASSUME NEW i \in DOMAIN r, i \notin DOMAIN p
      PROVE  \E j \in DOMAIN s : j # 1 /\ i = j - 1 + Len(p)
  <2>1. i \in 1 .. Len(r) /\ i \notin 1 .. Len(p)
    BY <1>3, <1>6
  <2>2. i - Len(p) + 1 \in 1 .. Len(s) /\ i - Len(p) + 1 # 1
    BY <1>1, <1>3, <2>1
  <2>3. i = (i - Len(p) + 1) - 1 + Len(p)
    BY <1>3, <2>1
  <2>4. DOMAIN s = 1 .. Len(s)
    OBVIOUS
  <2> QED BY <2>2, <2>3, <2>4
<1>7. 1 \in DOMAIN s /\ Head(s) = s[1]
  BY <1>1
<1> QED
  BY <1>1, <1>3, <1>4, <1>5, <1>6, <1>7 DEF Pushed

CellsGrow ==
  /\ crate' = crate
  /\ \A c \in DOMAIN cells :
       /\ c \in DOMAIN cells'
       /\ cells'[c].adt = cells[c].adt /\ cells'[c].owner = cells[c].owner

Grows ==
  /\ CellsGrow
  /\ \A d \in Adt : is_registered_local_adt(d) => is_registered_local_adt(d)'
  /\ adt_shims \subseteq adt_shims'
  /\ DOMAIN adt_deps \subseteq DOMAIN adt_deps'

(* What may become of the cells. *)
CellsStep ==
  /\ \A c \in DOMAIN cells :
       /\ cells'[c].filled # cells[c].filled =>
            Builds(tasks[1], c) \/ (tasks[1].k = "build_variant" /\ tasks[1].cell = c)
       /\ cells[c].deps \subseteq cells'[c].deps
       /\ \A e \in cells'[c].deps \ cells[c].deps : AwaitsUse(tasks[1], c, e)
  /\ \A c \in DOMAIN cells' \ DOMAIN cells : cells'[c].filled = FALSE /\ cells'[c].deps = {}

(* The tasks that replace one are inside the same ADT, or in the one that is *)
(* entered.                                                                  *)
Pushes(p) ==
  /\ tasks # << >> /\ p \in Seq(Task)
  /\ tasks' = p \o Tail(tasks)
  /\ \A i \in DOMAIN p : TaskOK(p[i])'
  /\ \A i \in DOMAIN p, c \in DOMAIN cells' :
       Inside(p[i], c)' => \/ c \in DOMAIN cells /\ Inside(tasks[1], c)
                           \/ \E j \in DOMAIN p : i < j /\ Builds(p[j], c)
  /\ \A i \in DOMAIN p, c \in DOMAIN cells' :
       Builds(p[i], c) => i = Len(p) /\ c \in DOMAIN cells /\ Enters(tasks[1], c)
  /\ \A i \in DOMAIN p, c \in DOMAIN cells' :
       Enters(p[i], c) => /\ i = Len(p) /\ c \notin DOMAIN cells
                          /\ ~is_registered_adt(cells'[c].adt)
  /\ \A i \in DOMAIN p : OfFunction(p[i]) => OfFunction(tasks[1])

Shifts(p, sh) ==
  /\ sh \in [DOMAIN tasks -> Int]
  /\ \A j \in DOMAIN tasks : j # 1 =>
       /\ sh[j] \in DOMAIN tasks' /\ tasks'[sh[j]] = tasks[j]
       /\ 1 < j /\ \A i \in DOMAIN p : i < sh[j]
  /\ \A i, j \in DOMAIN tasks : i < j <=> sh[i] < sh[j]
  /\ \A i \in DOMAIN tasks' : i \in DOMAIN p \/ \E j \in DOMAIN tasks : j # 1 /\ i = sh[j]

\* Positions after the step: those of the new tasks, and those of the others,
\* which keep their order.
LEMMA Positions ==
  ASSUME tasks \in Seq(Task), NEW p, Pushes(p)
  PROVE  /\ tasks' \in Seq(Task) /\ 1 \in DOMAIN tasks /\ Head(tasks) = tasks[1]
         /\ \A i \in DOMAIN p : i \in DOMAIN tasks' /\ tasks'[i] = p[i]
         /\ \E sh : Shifts(p, sh)
<1> DEFINE sh == [j \in DOMAIN tasks |-> j - 1 + Len(p)]
<1>1. tasks # << >> /\ p \in Seq(Task) /\ tasks' = p \o Tail(tasks)
  BY DEF Pushes
<1>a. Pushed(tasks, p, tasks')
  BY <1>1, PushedAt
<1>2. /\ tasks' \in Seq(Task)
      /\ Len(tasks) \in Nat /\ Len(p) \in Nat /\ 1 \in DOMAIN tasks /\ Head(tasks) = tasks[1]
      /\ \A i \in DOMAIN p : i \in DOMAIN tasks' /\ tasks'[i] = p[i]
      /\ \A j \in DOMAIN tasks : j # 1 =>
           j - 1 + Len(p) \in DOMAIN tasks' /\ tasks'[j - 1 + Len(p)] = tasks[j]
      /\ \A i \in DOMAIN tasks' :
           i \in DOMAIN p \/ \E j \in DOMAIN tasks : j # 1 /\ i = j - 1 + Len(p)
  BY <1>a DEF Pushed
<1>3. DOMAIN tasks = 1 .. Len(tasks) /\ DOMAIN p = 1 .. Len(p)
  BY <1>1
<1>4. sh \in [DOMAIN tasks -> Int]
  BY <1>2, <1>3
<1>5. \A j \in DOMAIN tasks : j # 1 => 1 < j /\ \A i \in DOMAIN p : i < sh[j]
  BY <1>2, <1>3
<1>6. \A i, j \in DOMAIN tasks : i < j <=> sh[i] < sh[j]
  BY <1>2, <1>3
<1>7. \A j \in DOMAIN tasks : sh[j] = j - 1 + Len(p)
  OBVIOUS
<1> HIDE DEF sh
<1>8. /\ \A j \in DOMAIN tasks : j # 1 =>
           /\ sh[j] \in DOMAIN tasks' /\ tasks'[sh[j]] = tasks[j]
           /\ 1 < j /\ \A i \in DOMAIN p : i < sh[j]
      /\ \A i \in DOMAIN tasks' :
           i \in DOMAIN p \/ \E j \in DOMAIN tasks : j # 1 /\ i = sh[j]
  BY <1>2, <1>5, <1>7
<1> QED
  BY <1>2, <1>4, <1>6, <1>8 DEF Shifts

\* Where a task is does not change.
LEMMA InsideStays ==
  ASSUME CellsInv, Grows, NEW t, TaskOK(t), NEW c
  PROVE  /\ Inside(t, c)' <=> Inside(t, c)
         /\ Inside(t, c) => c \in DOMAIN cells
  BY DEF Inside, Grows, CellsGrow, TaskOK, CellsInv, CellOK

LEMMA TasksNext ==
  ASSUME TypeInv, CellsInv, StackInv, NEW p, Pushes(p), Grows, CellsStep
  PROVE  TasksInv'
<1>0. PICK sh : Shifts(p, sh)
  BY Positions DEF TypeInv
<1>1. \A i \in DOMAIN tasks' :
        i \in DOMAIN p \/ \E j \in DOMAIN tasks : j # 1 /\ i = sh[j] /\ tasks'[i] = tasks[j]
  BY <1>0 DEF Shifts
<1>2. 1 \in DOMAIN tasks /\ \A i \in DOMAIN p : i \in DOMAIN tasks' /\ tasks'[i] = p[i]
  BY Positions DEF TypeInv
<1>3. ASSUME NEW i \in DOMAIN tasks' PROVE TaskOK(tasks[i])'
  <2>1. CASE i \in DOMAIN p
    BY <1>2, <2>1 DEF Pushes
  <2>2. CASE i \notin DOMAIN p
    <3>1. PICK j \in DOMAIN tasks : j # 1 /\ tasks'[i] = tasks[j]
      BY <1>1, <2>2
    <3>a. PICK t : t = tasks[j]
      OBVIOUS
    <3>2. TaskOK(t)
      BY <3>a DEF StackInv, TasksInv
    <3>3. ASSUME t.k \in {"enter", "build_struct", "build_enum"}
          PROVE  cells'[t.cell].filled = cells[t.cell].filled
      <4>1. t.cell \in DOMAIN cells /\ At(t, t.cell)
        BY <3>2, <3>3 DEF TaskOK, At, Builds, Enters
      <4>2. ~Builds(tasks[1], t.cell)
        BY <1>2, <3>1, <3>a, <4>1 DEF StackInv, Once, At
      <4>3. ~(tasks[1].k = "build_variant" /\ tasks[1].cell = t.cell)
        BY <1>2, <3>2, <3>3 DEF StackInv, TasksInv, TaskOK
      <4> QED BY <4>1, <4>2, <4>3 DEF CellsStep
    <3>4. ASSUME t.k = "enter"
          PROVE  cells'[t.cell].deps = {}
      <4>1. t.cell \in DOMAIN cells /\ At(t, t.cell) /\ cells[t.cell].deps = {}
        BY <3>2, <3>4 DEF TaskOK, At, Enters
      <4>2. ~Inside(tasks[1], t.cell)
        <5> SUFFICES ASSUME Inside(tasks[1], t.cell) PROVE FALSE
          OBVIOUS
        <5>1. PICK h \in DOMAIN tasks : Builds(tasks[h], t.cell)
          BY <1>2, <4>1 DEF StackInv, Nested
        <5>2. h = j
          BY <3>a, <4>1, <5>1 DEF StackInv, Once, At
        <5> QED BY <3>4, <3>a, <5>1, <5>2 DEF Builds
      <4> QED BY <4>1, <4>2 DEF CellsStep, AwaitsUse
    <3>5. /\ \A c \in DOMAIN cells : /\ c \in DOMAIN cells'
                                     /\ cells'[c].adt = cells[c].adt /\ cells'[c].owner = cells[c].owner
          /\ crate' = crate
      BY DEF Grows, CellsGrow
    <3>6. TaskOK(t)'
      BY <3>2, <3>3, <3>4, <3>5 DEF TaskOK, def, is_struct, variants
    <3> QED BY <3>1, <3>a, <3>6
  <2> QED BY <2>1, <2>2
<1> QED
  BY <1>3 DEF TasksInv

\* The old tasks are where they were, and no cell of theirs is a new one.
LEMMA OldTask ==
  ASSUME CellsInv, StackInv, Grows, NEW j \in DOMAIN tasks, NEW c
  PROVE  /\ Inside(tasks[j], c) => c \in DOMAIN cells
         /\ At(tasks[j], c) => c \in DOMAIN cells
         /\ \A t : t = tasks[j] => (Inside(t, c)' <=> Inside(tasks[j], c))
<1>1. TaskOK(tasks[j])
  BY DEF StackInv, TasksInv
<1>2. At(tasks[j], c) => c \in DOMAIN cells
  BY <1>1 DEF At, Builds, Enters, TaskOK
<1> QED
  BY <1>1, <1>2, InsideStays

LEMMA NestedNext ==
  ASSUME TypeInv, CellsInv, StackInv, NEW p, Pushes(p), Grows
  PROVE  Nested'
<1>0. PICK sh : Shifts(p, sh)
  BY Positions DEF TypeInv
<1>1. /\ \A j \in DOMAIN tasks : j # 1 =>
           /\ sh[j] \in DOMAIN tasks' /\ tasks'[sh[j]] = tasks[j]
           /\ 1 < j /\ \A i \in DOMAIN p : i < sh[j]
      /\ \A i, j \in DOMAIN tasks : i < j <=> sh[i] < sh[j]
      /\ \A i \in DOMAIN tasks' : i \in DOMAIN p \/ \E j \in DOMAIN tasks : j # 1 /\ i = sh[j]
  BY <1>0 DEF Shifts
<1>2. 1 \in DOMAIN tasks /\ \A i \in DOMAIN p : i \in DOMAIN tasks' /\ tasks'[i] = p[i]
  BY Positions DEF TypeInv
<1>3. ASSUME NEW i \in DOMAIN tasks', NEW c \in DOMAIN cells', Inside(tasks[i], c)'
      PROVE  \E j \in DOMAIN tasks' : i < j /\ Builds(tasks'[j], c)
  <2>1. CASE i \in DOMAIN p
    <3>1. CASE c \in DOMAIN cells /\ Inside(tasks[1], c)
      <4>1. PICK j \in DOMAIN tasks : 1 < j /\ Builds(tasks[j], c)
        BY <1>2, <3>1 DEF StackInv, Nested
      <4>2. sh[j] \in DOMAIN tasks' /\ tasks'[sh[j]] = tasks[j] /\ i < sh[j]
        BY <1>1, <2>1, <4>1
      <4> QED BY <4>1, <4>2
    <3>2. CASE \E j \in DOMAIN p : i < j /\ Builds(p[j], c)
      BY <1>2, <3>2
    <3>3. Inside(p[i], c)'
      BY <1>2, <1>3, <2>1
    <3> QED BY <2>1, <3>1, <3>2, <3>3 DEF Pushes
  <2>2. CASE i \notin DOMAIN p
    <3>1. PICK h \in DOMAIN tasks : h # 1 /\ i = sh[h] /\ tasks'[i] = tasks[h]
      BY <1>1, <2>2
    <3>2. Inside(tasks[h], c) /\ c \in DOMAIN cells
      <4>1. PICK t : t = tasks[h]
        OBVIOUS
      <4>2. Inside(t, c)'
        BY <1>3, <3>1, <4>1
      <4> QED BY <4>1, <4>2, OldTask
    <3>3. PICK j \in DOMAIN tasks : h < j /\ Builds(tasks[j], c)
      BY <3>2 DEF StackInv, Nested
    <3>4. j # 1
      <4>1. 1 < h
        BY <1>1, <3>1
      <4>2. h \in Int /\ j \in Int
        BY DEF TypeInv
      <4> QED BY <3>3, <4>1, <4>2
    <3> QED BY <1>1, <3>1, <3>3, <3>4
  <2> QED BY <2>1, <2>2
<1> QED
  BY <1>3 DEF Nested, Builds

LEMMA AtNext ==
  ASSUME TypeInv, CellsInv, StackInv, BuildsRegistered, NEW p, Pushes(p), Grows
  PROVE  (Once /\ OneBuild /\ FunctionsLast)'
<1>0. PICK sh : Shifts(p, sh)
  BY Positions DEF TypeInv
<1>1. /\ \A j \in DOMAIN tasks : j # 1 =>
           /\ sh[j] \in DOMAIN tasks' /\ tasks'[sh[j]] = tasks[j]
           /\ 1 < j /\ \A i \in DOMAIN p : i < sh[j]
      /\ \A i, j \in DOMAIN tasks : i < j <=> sh[i] < sh[j]
      /\ \A i \in DOMAIN tasks' : i \in DOMAIN p \/ \E j \in DOMAIN tasks : j # 1 /\ i = sh[j]
  BY <1>0 DEF Shifts
<1>2. /\ 1 \in DOMAIN tasks /\ \A i \in DOMAIN p : i \in DOMAIN tasks' /\ tasks'[i] = p[i]
      /\ \A h \in DOMAIN tasks : h \in Int
  BY Positions DEF TypeInv
\* Where a cell is entered or built now, or it is a new one.
<1>3. ASSUME NEW i \in DOMAIN tasks', NEW c \in DOMAIN cells', At(tasks'[i], c)
      PROVE  \/ i \in DOMAIN p /\ i = Len(p) /\ Enters(p[i], c) /\ c \notin DOMAIN cells
             \/ i \in DOMAIN p /\ i = Len(p) /\ Builds(p[i], c) /\ c \in DOMAIN cells /\ Enters(tasks[1], c)
             \/ \E h \in DOMAIN tasks : h # 1 /\ i = sh[h] /\ tasks'[i] = tasks[h] /\ c \in DOMAIN cells
  <2>1. CASE i \in DOMAIN p
    BY <1>2, <1>3, <2>1 DEF Pushes, At
  <2>2. CASE i \notin DOMAIN p
    <3>1. PICK h \in DOMAIN tasks : h # 1 /\ i = sh[h] /\ tasks'[i] = tasks[h]
      BY <1>1, <2>2
    <3>2. c \in DOMAIN cells
      BY <1>3, <3>1, OldTask
    <3> QED BY <3>1, <3>2
  <2> QED BY <2>1, <2>2
<1>4. ASSUME NEW i \in DOMAIN tasks', NEW j \in DOMAIN tasks', NEW c \in DOMAIN cells',
             At(tasks'[i], c), At(tasks'[j], c)
      PROVE  i = j
  <2>1. /\ \/ i = Len(p) /\ c \notin DOMAIN cells
           \/ i = Len(p) /\ c \in DOMAIN cells /\ At(tasks[1], c)
           \/ \E h \in DOMAIN tasks : h # 1 /\ i = sh[h] /\ At(tasks[h], c) /\ c \in DOMAIN cells
        /\ \/ j = Len(p) /\ c \notin DOMAIN cells
           \/ j = Len(p) /\ c \in DOMAIN cells /\ At(tasks[1], c)
           \/ \E h \in DOMAIN tasks : h # 1 /\ j = sh[h] /\ At(tasks[h], c) /\ c \in DOMAIN cells
    <3>1. \A k \in DOMAIN tasks' : At(tasks'[k], c) =>
            \/ k = Len(p) /\ c \notin DOMAIN cells
            \/ k = Len(p) /\ c \in DOMAIN cells /\ At(tasks[1], c)
            \/ \E h \in DOMAIN tasks : h # 1 /\ k = sh[h] /\ At(tasks[h], c) /\ c \in DOMAIN cells
      BY <1>3 DEF At
    <3> QED BY <1>4, <3>1
  <2> QED BY <1>2, <2>1 DEF StackInv, Once
<1>5. ASSUME NEW i \in DOMAIN tasks', NEW j \in DOMAIN tasks',
             NEW b \in DOMAIN cells', NEW c \in DOMAIN cells',
             Builds(tasks'[i], b), cells'[b].adt = cells'[c].adt
      PROVE  /\ Builds(tasks'[j], c) => i = j
             /\ Enters(tasks'[j], c) => i < j
  <2>0. i \in Int /\ j \in Int
    BY Positions DEF TypeInv
  <2>1. /\ b \in DOMAIN cells
        /\ \/ i \in DOMAIN p /\ i = Len(p) /\ Enters(tasks[1], b)
           \/ \E h \in DOMAIN tasks : h # 1 /\ i = sh[h] /\ Builds(tasks[h], b)
    BY <1>2, <1>3, <1>5 DEF At, Enters, Builds
  <2>2. CASE Builds(tasks'[j], c)
    <3>1. /\ c \in DOMAIN cells
          /\ \/ j \in DOMAIN p /\ j = Len(p) /\ Enters(tasks[1], c)
             \/ \E h \in DOMAIN tasks : h # 1 /\ j = sh[h] /\ Builds(tasks[h], c)
      BY <1>2, <1>3, <2>2 DEF At, Enters, Builds
    <3>2. cells[b].adt = cells[c].adt
      BY <1>5, <2>1, <3>1 DEF Grows, CellsGrow
    <3>3. ASSUME Enters(tasks[1], b), NEW h \in DOMAIN tasks, h # 1, Builds(tasks[h], c)
          PROVE  FALSE
      <4>1. h < 1
        BY <1>2, <2>1, <3>1, <3>2, <3>3 DEF StackInv, OneBuild
      <4> QED BY <1>1, <1>2, <3>3, <4>1
    <3>4. ASSUME Enters(tasks[1], c), NEW h \in DOMAIN tasks, h # 1, Builds(tasks[h], b)
          PROVE  FALSE
      <4>1. h < 1
        BY <1>2, <2>1, <3>1, <3>2, <3>4 DEF StackInv, OneBuild
      <4> QED BY <1>1, <1>2, <3>4, <4>1
    <3>5. ASSUME NEW h \in DOMAIN tasks, Builds(tasks[h], b), i = sh[h],
                 NEW k \in DOMAIN tasks, Builds(tasks[k], c), j = sh[k]
          PROVE  i = j
      BY <2>1, <3>1, <3>2, <3>5 DEF StackInv, OneBuild
    <3>6. i = j
      BY <2>1, <3>1, <3>3, <3>4, <3>5
    <3> QED BY <2>2, <3>6 DEF Builds, Enters
  <2>3. CASE Enters(tasks'[j], c)
    <3>1. \/ j = Len(p) /\ j \in DOMAIN p /\ Enters(p[j], c) /\ c \notin DOMAIN cells
          \/ \E h \in DOMAIN tasks : h # 1 /\ j = sh[h] /\ Enters(tasks[h], c) /\ c \in DOMAIN cells
      BY <1>2, <1>3, <2>3 DEF At, Enters, Builds
    <3>2. CASE j = Len(p) /\ j \in DOMAIN p /\ Enters(p[j], c) /\ c \notin DOMAIN cells
      <4>1. ~is_registered_local_adt(cells'[c].adt)
        BY <3>2 DEF Pushes, is_registered_adt
      <4>2. CASE \E h \in DOMAIN tasks : h # 1 /\ i = sh[h] /\ Builds(tasks[h], b)
        <5>1. is_registered_local_adt(cells[b].adt)
          BY <2>1, <4>2 DEF BuildsRegistered
        <5>2. cells[b].adt = cells'[c].adt
          BY <1>5, <2>1 DEF Grows, CellsGrow
        <5> QED BY <4>1, <5>1, <5>2
      <4>3. CASE i \in DOMAIN p /\ i = Len(p)
        <5>1. tasks'[i] = p[j]
          BY <1>2, <3>2, <4>3
        <5> QED BY <1>5, <3>2, <5>1 DEF Builds, Enters
      <4> QED BY <2>1, <4>2, <4>3
    <3>3. CASE \E h \in DOMAIN tasks : h # 1 /\ j = sh[h] /\ Enters(tasks[h], c) /\ c \in DOMAIN cells
      <4>1. PICK h \in DOMAIN tasks : h # 1 /\ j = sh[h] /\ Enters(tasks[h], c) /\ c \in DOMAIN cells
        BY <3>3
      <4>2. cells[b].adt = cells[c].adt
        BY <1>5, <2>1, <4>1 DEF Grows, CellsGrow
      <4>3. ASSUME i \in DOMAIN p PROVE i < j
        BY <1>1, <4>1, <4>3
      <4>4. ASSUME NEW k \in DOMAIN tasks, i = sh[k], Builds(tasks[k], b) PROVE i < j
        <5>1. k < h
          BY <2>1, <4>1, <4>2, <4>4 DEF StackInv, OneBuild
        <5> QED BY <1>1, <4>1, <4>4, <5>1
      <4>5. i < j
        BY <2>1, <4>3, <4>4
      <4> QED BY <2>3, <4>5 DEF Builds, Enters
    <3> QED BY <3>1, <3>2, <3>3
  <2> QED BY <2>2, <2>3
<1>6. ASSUME NEW i \in DOMAIN tasks', NEW j \in DOMAIN tasks', NEW c \in DOMAIN cells',
             OfFunction(tasks'[i]), i < j, Builds(tasks'[j], c)
      PROVE  FALSE
  <2>1. /\ c \in DOMAIN cells
        /\ \/ j \in DOMAIN p /\ j = Len(p) /\ Enters(tasks[1], c)
           \/ \E h \in DOMAIN tasks : h # 1 /\ j = sh[h] /\ Builds(tasks[h], c)
    BY <1>2, <1>3, <1>6 DEF At, Enters, Builds
  <2>2. \/ i \in DOMAIN p /\ OfFunction(tasks[1])
        \/ \E h \in DOMAIN tasks : h # 1 /\ i = sh[h] /\ OfFunction(tasks[h])
    <3>1. CASE i \in DOMAIN p
      BY <1>2, <1>6, <3>1 DEF Pushes
    <3> QED BY <1>1, <1>6, <3>1
  <2>3. i \in Int /\ j \in Int
    BY Positions DEF TypeInv
  <2>4. CASE j \in DOMAIN p /\ j = Len(p) /\ Enters(tasks[1], c)
    <3>1. ~OfFunction(tasks[1])
      BY <2>4 DEF OfFunction, Enters
    <3>2. PICK h \in DOMAIN tasks : h # 1 /\ i = sh[h]
      BY <2>2, <3>1
    <3>3. j < i
      BY <1>1, <2>4, <3>2
    <3> QED BY <1>6, <2>3, <3>3
  <2>5. CASE \E h \in DOMAIN tasks : h # 1 /\ j = sh[h] /\ Builds(tasks[h], c)
    <3>1. PICK h \in DOMAIN tasks : h # 1 /\ j = sh[h] /\ Builds(tasks[h], c)
      BY <2>5
    <3>2. CASE i \in DOMAIN p /\ OfFunction(tasks[1])
      BY <1>1, <1>2, <2>1, <3>1, <3>2 DEF StackInv, FunctionsLast
    <3>3. CASE \E k \in DOMAIN tasks : k # 1 /\ i = sh[k] /\ OfFunction(tasks[k])
      BY <1>1, <1>6, <2>1, <3>1, <3>3 DEF StackInv, FunctionsLast
    <3> QED BY <2>2, <3>2, <3>3
  <2> QED BY <2>1, <2>4, <2>5
<1> QED
  BY <1>4, <1>5, <1>6 DEF Once, OneBuild, FunctionsLast, At, Builds, Enters, OfFunction

-----------------------------------------------------------------------------
(* What the tasks that replace a task t do for it.                           *)

(* A use comes after the registration, and what is entered is registered.    *)
Registering(p, t) ==
  /\ \A i \in DOMAIN p, c \in DOMAIN cells :
       Builds(p[i], c) => is_registered_local_adt(cells[c].adt)'
  /\ \A i \in DOMAIN p : p[i].k \in {"use", "construct"} =>
       \/ is_registered_adt(UsedAdt(p[i]))'
       \/ \E j \in DOMAIN p : j < i /\ Registers(p[j], UsedAdt(p[i]))'
  /\ \A d \in Adt : Registers(t, d) =>
       is_registered_adt(d)' \/ \E i \in DOMAIN p : Registers(p[i], d)'

(* The types that a type is made of are translated, or the fields; a use is  *)
(* noted.                                                                    *)
Serving(p, t) ==
  /\ t.k = "type" =>
       /\ t.ty.k # "unsupported"
       /\ \A c \in DOMAIN cells : Inside(t, c) =>
            /\ \A a \in DOMAIN t.ty.args : \E h \in DOMAIN p : AwaitsType(p[h], c, t.ty.args[a])'
            /\ t.ty.k = "adt" => \E h \in DOMAIN p : AwaitsUse(p[h], c, t.ty.adt)'
  /\ \A c \in DOMAIN cells, e \in Adt : AwaitsUse(t, c, e) => e \in cells'[c].deps
  /\ t.k = "variant" =>
       /\ VariantEntered(t.cell, t.i)'
       /\ LET fields == variants(cells[t.cell].adt)[t.i].fields
          IN  \A f \in DOMAIN fields : \E h \in DOMAIN p : AwaitsType(p[h], t.cell, fields[f].ty)'
  /\ \A i \in DOMAIN p, c \in DOMAIN cells : Builds(p[i], c) =>
       LET vs == variants(cells[c].adt)
       IN  \A v \in DOMAIN vs :
             \/ \E h \in DOMAIN p : AwaitsVariant(p[h], c, v)
             \/ /\ p[i].k = "build_struct"
                /\ \A f \in DOMAIN vs[v].fields :
                     \E h \in DOMAIN p : AwaitsType(p[h], c, vs[v].fields[f].ty)'

(* The entries of variants stay, unless the variant is entered once more.    *)
VariantsStay(t) ==
  \A d \in Adt, i \in Nat :
    ~is_struct(d) /\ i # 0 /\ <<d, i>> \in DOMAIN variant_registry =>
      /\ <<d, i>> \in DOMAIN variant_registry'
      /\ \/ variant_registry'[<<d, i>>] = variant_registry[<<d, i>>]
         \/ t.k = "variant" /\ cells[t.cell].adt = d /\ t.i = i

(* A sound ADT stays so while it is translated again.                        *)
StaysHarmless(p, t) ==
  \A c \in DOMAIN cells, S \in SUBSET Types, M \in SUBSET Adt :
    SoundDef(cells[c].adt, S, M) /\ (Harmless(t, c, S, M) \/ Enters(t, c)) =>
      \A h \in DOMAIN p : Builds(p[h], c) \/ Harmless(p[h], c, S, M)'

NewShims(t) ==
  \A d \in Adt : Did(d) \in adt_shims' /\ Did(d) \notin adt_shims =>
    \E c \in DOMAIN cells :
      /\ Builds(t, c) /\ cells[c].adt = d
      /\ is_struct(d) /\ d \in cells[c].deps \cup def(d).extra_deps => def(d).invariant

\* A definition has one variant at least, or is an enum; its types are types.
LEMMA DefShape ==
  ASSUME crate \in Crates, NEW d \in Adt
  PROVE  /\ def(d).bounds \in Seq(Types)
         /\ variants(d) \in Seq([fields : Seq([ty : Types, annotated : BOOLEAN])])
         /\ is_struct(d) => Len(variants(d)) = 1
         /\ def(d).extra_deps \subseteq Adt
         /\ def(d).attrs_ok \in BOOLEAN /\ def(d).repr_ok \in BOOLEAN /\ def(d).invariant \in BOOLEAN
         /\ \A i \in DOMAIN variants(d) :
              /\ i \in Nat /\ i # 0
              /\ variants(d)[i].fields \in Seq([ty : Types, annotated : BOOLEAN])
              /\ \A f \in DOMAIN variants(d)[i].fields :
                   /\ variants(d)[i].fields[f].ty \in Types
                   /\ variants(d)[i].fields[f].annotated \in BOOLEAN
<1> DEFINE fld == [ty : Types, annotated : BOOLEAN]
           var == [fields : Seq(fld)]
           vs  == variants(d)
<1>1. PICK df : df = crate.adts[d]
  OBVIOUS
<1>a. Variants = Seq(var)
  BY DEF Variants
<1>b. /\ df.bounds \in Seq(Types)
      /\ df.variants \in Variants
      /\ df.kind = "struct" => Len(df.variants) = 1
      /\ df.extra_deps \subseteq Adt
      /\ df.attrs_ok \in BOOLEAN
      /\ df.repr_ok \in BOOLEAN
      /\ df.invariant \in BOOLEAN
  <2> HIDE DEF fld, var
  <2>1. crate \in Crates /\ d \in Adt
    OBVIOUS
  <2>2. /\ crate.adts[d].bounds \in Seq(Types)
        /\ crate.adts[d].variants \in Variants
        /\ crate.adts[d].kind = "struct" => Len(crate.adts[d].variants) = 1
        /\ crate.adts[d].extra_deps \subseteq Adt
    BY <2>1, CratesAssumption
  <2>3. /\ crate.adts[d].attrs_ok \in BOOLEAN
        /\ crate.adts[d].repr_ok \in BOOLEAN
        /\ crate.adts[d].invariant \in BOOLEAN
    BY <2>1, CratesAssumption, Zenon
  <2> QED BY <1>1, <2>2, <2>3, Zenon
<1>2. /\ df.bounds \in Seq(Types)
      /\ df.variants \in Seq(var)
      /\ df.kind = "struct" => Len(df.variants) = 1
      /\ df.extra_deps \subseteq Adt
      /\ df.attrs_ok \in BOOLEAN /\ df.repr_ok \in BOOLEAN /\ df.invariant \in BOOLEAN
  BY <1>a, <1>b, Zenon
<1>3. df = def(d) /\ vs = df.variants /\ (is_struct(d) <=> df.kind = "struct")
  BY <1>1 DEF def, is_struct, variants
<1> HIDE DEF vs
<1>4. ASSUME NEW i \in DOMAIN vs
      PROVE  /\ i \in Nat /\ i # 0
             /\ vs[i].fields \in Seq(fld)
             /\ \A f \in DOMAIN vs[i].fields :
                  vs[i].fields[f].ty \in Types /\ vs[i].fields[f].annotated \in BOOLEAN
  <2>1. vs[i] \in var /\ i \in Nat /\ i # 0
    <3> HIDE DEF var
    <3> QED BY <1>2, <1>3
  <2>2. vs[i].fields \in Seq(fld)
    <3> HIDE DEF fld
    <3> QED BY <2>1
  <2>3. ASSUME NEW f \in DOMAIN vs[i].fields PROVE vs[i].fields[f] \in fld
    <3> HIDE DEF fld
    <3> QED BY <2>2
  <2> QED BY <2>1, <2>2, <2>3, Zenon
<1> QED
  BY <1>2, <1>3, <1>4, Zenon DEF vs

LEMMA CellParts ==
  ASSUME TypeInv, NEW c \in DOMAIN cells
  PROVE  /\ c \in Nat /\ cells[c] \in Cell
         /\ cells[c].adt \in Adt /\ cells[c].owner \in Nat /\ cells[c].filled \in BOOLEAN
         /\ cells[c].deps \in SUBSET Adt
         /\ cells[c].field \in SUBSET Nat /\ cells[c].refs \in SUBSET Nat
         /\ cells[c].bounds \in SUBSET Nat
<1>1. c \in Nat /\ cells[c] \in Cell
  BY DEF TypeInv
<1> QED
  BY <1>1, Zenon DEF Cell

LEMMA RegisteredNext ==
  ASSUME TypeInv, CellsInv, StackInv, BuildsRegistered, UsesRegistered,
         NEW p, NEW t, t = tasks[1], Pushes(p), Grows, CellsStep, Registering(p, t)
  PROVE  BuildsRegistered' /\ UsesRegistered'
<1>0. PICK sh : Shifts(p, sh)
  BY Positions DEF TypeInv
<1>1. /\ \A j \in DOMAIN tasks : j # 1 =>
           /\ sh[j] \in DOMAIN tasks' /\ tasks'[sh[j]] = tasks[j]
           /\ 1 < j /\ \A i \in DOMAIN p : i < sh[j]
      /\ \A i, j \in DOMAIN tasks : i < j <=> sh[i] < sh[j]
      /\ \A i \in DOMAIN tasks' : i \in DOMAIN p \/ \E j \in DOMAIN tasks : j # 1 /\ i = sh[j]
  BY <1>0 DEF Shifts
<1>2. /\ 1 \in DOMAIN tasks /\ \A i \in DOMAIN p : i \in DOMAIN tasks' /\ tasks'[i] = p[i]
      /\ \A h \in DOMAIN tasks : h \in Int
  BY Positions DEF TypeInv
<1>3. \A d \in Adt : is_registered_adt(d) => is_registered_adt(d)'
  BY DEF Grows, CellsGrow, is_registered_adt, Did
<1>4. ASSUME NEW i \in DOMAIN tasks', NEW c \in DOMAIN cells', Builds(tasks'[i], c)
      PROVE  is_registered_local_adt(cells[c].adt)' /\ \A e \in cells'[c].deps : is_registered_adt(e)'
  <2>1. CASE i \in DOMAIN p
    <3>1. c \in DOMAIN cells /\ Enters(t, c) /\ Builds(p[i], c)
      BY <1>2, <1>4, <2>1 DEF Pushes
    <3>2. is_registered_local_adt(cells[c].adt)'
      BY <2>1, <3>1 DEF Registering
    <3>3. cells[c].deps = {}
      BY <1>2, <3>1 DEF StackInv, TasksInv, TaskOK, Enters
    <3>4. cells'[c].deps = {}
      BY <3>1, <3>3 DEF CellsStep, AwaitsUse, Enters
    <3> QED BY <3>2, <3>4
  <2>2. CASE i \notin DOMAIN p
    <3>1. PICK h \in DOMAIN tasks : h # 1 /\ i = sh[h] /\ Builds(tasks[h], c)
      BY <1>1, <1>4, <2>2
    <3>2. c \in DOMAIN cells
      BY <3>1, OldTask DEF At
    <3>3. cells[c].adt \in Adt /\ cells[c].deps \subseteq Adt
      BY <3>2, CellParts
    <3>4. is_registered_local_adt(cells[c].adt) /\ \A e \in cells[c].deps : is_registered_adt(e)
      BY <3>1, <3>2 DEF BuildsRegistered
    <3>5. is_registered_local_adt(cells[c].adt)'
      BY <3>2, <3>3, <3>4 DEF Grows, CellsGrow
    <3>6. ASSUME NEW e \in cells'[c].deps \ cells[c].deps PROVE is_registered_adt(e)'
      <4>1. t.k = "use" /\ t.adt = e
        BY <3>2 DEF CellsStep, AwaitsUse
      <4>2. ~\E j \in DOMAIN tasks : j < 1
        BY DEF TypeInv
      <4>3. is_registered_adt(e)
        BY <1>2, <4>1, <4>2 DEF UsesRegistered, UsedAdt
      <4>4. e \in Adt
        BY <1>2, <4>1 DEF TypeInv, Task
      <4> QED BY <1>3, <4>3, <4>4
    <3> QED BY <1>3, <3>3, <3>4, <3>5, <3>6
  <2> QED BY <2>1, <2>2
<1>5. ASSUME NEW i \in DOMAIN tasks', tasks'[i].k \in {"use", "construct"}
      PROVE  \/ is_registered_adt(UsedAdt(tasks[i]))'
             \/ \E j \in DOMAIN tasks' : j < i /\ Registers(tasks[j], UsedAdt(tasks[i]))'
  <2>1. CASE i \in DOMAIN p
    <3>1. UsedAdt(tasks[i])' = UsedAdt(p[i])
      BY <1>2, <2>1 DEF UsedAdt
    <3>2. CASE is_registered_adt(UsedAdt(p[i]))'
      BY <3>1, <3>2 DEF is_registered_adt, is_registered_local_adt
    <3>3. CASE \E j \in DOMAIN p : j < i /\ Registers(p[j], UsedAdt(p[i]))'
      BY <1>2, <3>1, <3>3 DEF Registers
    <3> QED BY <1>2, <1>5, <2>1, <3>2, <3>3 DEF Registering
  <2>2. CASE i \notin DOMAIN p
    <3>1. PICK h \in DOMAIN tasks : h # 1 /\ i = sh[h] /\ tasks'[i] = tasks[h]
      BY <1>1, <2>2
    <3>2. PICK d : d = UsedAdt(tasks[h])
      OBVIOUS
    <3>3. UsedAdt(tasks[i])' = d
      BY <3>1, <3>2 DEF UsedAdt
    <3>4. d \in Adt
      <4>1. tasks[h] \in Task
        BY DEF TypeInv
      <4> QED BY <1>5, <3>1, <3>2, <4>1 DEF UsedAdt, Task
    <3>5. CASE is_registered_adt(d)
      BY <1>3, <3>3, <3>4, <3>5
    <3>6. CASE \E j \in DOMAIN tasks : j < h /\ Registers(tasks[j], d)
      <4>1. PICK j \in DOMAIN tasks : j < h /\ Registers(tasks[j], d)
        BY <3>6
      <4>2. CASE j = 1
        <5>1. CASE is_registered_adt(d)'
          BY <3>3, <5>1
        <5>2. CASE \E k \in DOMAIN p : Registers(p[k], d)'
          <6>1. PICK k \in DOMAIN p : Registers(p[k], d)'
            BY <5>2
          <6>2. k \in DOMAIN tasks' /\ k < i /\ tasks'[k] = p[k]
            BY <1>1, <1>2, <3>1
          <6>3. Registers(tasks[k], UsedAdt(tasks[i]))'
            BY <3>3, <6>1, <6>2 DEF Registers
          <6> QED BY <6>2, <6>3
        <5> QED BY <3>4, <4>1, <4>2, <5>1, <5>2 DEF Registering
      <4>3. CASE j # 1
        <5>1. sh[j] \in DOMAIN tasks' /\ tasks'[sh[j]] = tasks[j] /\ sh[j] < i
          BY <1>1, <3>1, <4>1, <4>3
        <5>2. TaskOK(tasks[j])
          BY DEF StackInv, TasksInv
        <5>3. PICK k \in DOMAIN tasks' : k = sh[j]
          BY <5>1
        <5>4. Registers(tasks[k], UsedAdt(tasks[i]))'
          BY <3>3, <4>1, <5>1, <5>2, <5>3 DEF Registers, TaskOK, Grows, CellsGrow
        <5> QED BY <5>1, <5>3, <5>4
      <4> QED BY <4>2, <4>3
    <3> QED BY <1>5, <3>1, <3>2, <3>5, <3>6 DEF UsesRegistered
  <2> QED BY <2>1, <2>2
<1> QED
  BY <1>4, <1>5 DEF BuildsRegistered, UsesRegistered, Builds, is_registered_local_adt

LEMMA VariantsNext ==
  ASSUME TypeInv, CellsInv, StackInv, VariantsEntered,
         NEW p, NEW t, t = tasks[1], Pushes(p), Grows, Serving(p, t), VariantsStay(t)
  PROVE  VariantsEntered'
<1>0. PICK sh : Shifts(p, sh)
  BY Positions DEF TypeInv
<1>1. /\ \A j \in DOMAIN tasks : j # 1 => sh[j] \in DOMAIN tasks' /\ tasks'[sh[j]] = tasks[j]
      /\ \A i \in DOMAIN tasks' : i \in DOMAIN p \/ \E j \in DOMAIN tasks : j # 1 /\ i = sh[j]
  BY <1>0 DEF Shifts
<1>2. 1 \in DOMAIN tasks /\ \A i \in DOMAIN p : i \in DOMAIN tasks' /\ tasks'[i] = p[i]
  BY Positions DEF TypeInv
<1>3. ASSUME NEW j \in DOMAIN tasks', NEW c \in DOMAIN cells',
             tasks'[j].k = "build_enum", tasks'[j].cell = c,
             NEW i \in DOMAIN variants(cells[c].adt)'
      PROVE  VariantEntered(c, i)' \/ \E h \in DOMAIN tasks' : AwaitsVariant(tasks'[h], c, i)
  <2>1. CASE j \in DOMAIN p
    <3>1. c \in DOMAIN cells /\ Builds(p[j], c) /\ p[j].k = "build_enum"
      BY <1>2, <1>3, <2>1 DEF Pushes, Builds
    <3>2. i \in DOMAIN variants(cells[c].adt)
      BY <1>3, <3>1 DEF Grows, CellsGrow, variants, def
    <3>3. \E h \in DOMAIN p : AwaitsVariant(p[h], c, i)
      BY <2>1, <3>1, <3>2 DEF Serving
    <3> QED BY <1>2, <3>3
  <2>2. CASE j \notin DOMAIN p
    <3>1. PICK g \in DOMAIN tasks : g # 1 /\ tasks[g].k = "build_enum" /\ tasks[g].cell = c
      BY <1>1, <1>3, <2>2
    <3>2. c \in DOMAIN cells /\ ~is_struct(cells[c].adt)
      BY <3>1 DEF StackInv, TasksInv, TaskOK
    <3>3. i \in DOMAIN variants(cells[c].adt)
      BY <1>3, <3>2 DEF Grows, CellsGrow, variants, def
    <3>4. CASE \E h \in DOMAIN tasks : AwaitsVariant(tasks[h], c, i)
      <4>1. PICK h \in DOMAIN tasks : AwaitsVariant(tasks[h], c, i)
        BY <3>4
      <4>2. CASE h = 1
        BY <4>1, <4>2 DEF Serving, AwaitsVariant
      <4>3. CASE h # 1
        BY <1>1, <4>1, <4>3
      <4> QED BY <4>2, <4>3
    <3>5. CASE VariantEntered(c, i) /\ ~\E h \in DOMAIN tasks : AwaitsVariant(tasks[h], c, i)
      <4>1. PICK d \in Adt : d = cells[c].adt
        BY <3>2, CellParts
      <4>2. i \in Nat /\ i # 0
        BY <3>3, <4>1, DefShape DEF TypeInv
      <4>3. <<d, i>> \in DOMAIN variant_registry
        BY <3>5, <4>1 DEF VariantEntered
      <4>4. ~(t.k = "variant" /\ cells[t.cell].adt = d /\ t.i = i)
        <5> SUFFICES ASSUME t.k = "variant", cells[t.cell].adt = d, t.i = i PROVE FALSE
          OBVIOUS
        <5>1. t.cell \in DOMAIN cells /\ Inside(t, t.cell)
          BY <1>2 DEF StackInv, TasksInv, TaskOK, Inside
        <5>2. PICK k \in DOMAIN tasks : Builds(tasks[k], t.cell)
          BY <1>2, <5>1 DEF StackInv, Nested
        <5>3. k = g
          BY <3>1, <3>2, <4>1, <5>1, <5>2 DEF StackInv, OneBuild, Builds
        <5>4. t.cell = c
          BY <3>1, <5>2, <5>3 DEF Builds
        <5> QED BY <1>2, <3>5, <5>4 DEF AwaitsVariant
      <4>5. /\ <<d, i>> \in DOMAIN variant_registry'
            /\ variant_registry'[<<d, i>>] = variant_registry[<<d, i>>]
        BY <3>2, <4>1, <4>2, <4>3, <4>4 DEF VariantsStay
      <4> QED BY <3>2, <3>5, <4>1, <4>5 DEF VariantEntered, Grows, CellsGrow, def
    <3> QED BY <3>1, <3>2, <3>3, <3>4, <3>5 DEF VariantsEntered
  <2> QED BY <2>1, <2>2
<1> QED
  BY <1>3 DEF VariantsEntered, AwaitsVariant

LEMMA CoveredNext ==
  ASSUME TypeInv, CellsInv, StackInv, FieldsCovered,
         NEW p, NEW t, t = tasks[1], Pushes(p), Grows, CellsStep, Serving(p, t)
  PROVE  FieldsCovered'
<1>0. PICK sh : Shifts(p, sh)
  BY Positions DEF TypeInv
<1>1. /\ \A j \in DOMAIN tasks : j # 1 => sh[j] \in DOMAIN tasks' /\ tasks'[sh[j]] = tasks[j]
      /\ \A i \in DOMAIN tasks' : i \in DOMAIN p \/ \E j \in DOMAIN tasks : j # 1 /\ i = sh[j]
  BY <1>0 DEF Shifts
<1>2. 1 \in DOMAIN tasks /\ \A i \in DOMAIN p : i \in DOMAIN tasks' /\ tasks'[i] = p[i]
  BY Positions DEF TypeInv
<1>3. ASSUME NEW j \in DOMAIN tasks', NEW c \in DOMAIN cells', Builds(tasks'[j], c)
      PROVE  \E S \in SUBSET Types : Met(S, c)' /\ FieldsMet(S, c)'
  <2>0. PICK new : new = {u \in Types : \E h \in DOMAIN p : AwaitsType(p[h], c, u)'}
    OBVIOUS
  <2>1. ASSUME NEW u \in new PROVE \E h \in DOMAIN tasks' : AwaitsType(tasks[h], c, u)'
    BY <1>2, <2>0 DEF AwaitsType, Inside
  <2>2. CASE j \in DOMAIN p
    <3>1. c \in DOMAIN cells /\ Builds(p[j], c)
      BY <1>2, <1>3, <2>2 DEF Pushes
    <3>2. variants(cells[c].adt)' = variants(cells[c].adt)
      BY <3>1 DEF Grows, CellsGrow, variants, def
    <3>3. cells[c].adt \in Adt
      BY <3>1, CellParts
    <3>4. FieldsMet(new, c)'
      <4> SUFFICES ASSUME NEW v \in DOMAIN variants(cells[c].adt)
                   PROVE  \/ \E h \in DOMAIN tasks' : AwaitsVariant(tasks[h], c, v)'
                          \/ \A f \in DOMAIN variants(cells[c].adt)[v].fields :
                               variants(cells[c].adt)[v].fields[f].ty \in new
        BY <3>2 DEF FieldsMet
      <4>1. CASE \E h \in DOMAIN p : AwaitsVariant(p[h], c, v)
        BY <1>2, <4>1 DEF AwaitsVariant
      <4>2. CASE \A f \in DOMAIN variants(cells[c].adt)[v].fields :
                   \E h \in DOMAIN p : AwaitsType(p[h], c, variants(cells[c].adt)[v].fields[f].ty)'
        <5>1. \A f \in DOMAIN variants(cells[c].adt)[v].fields :
                variants(cells[c].adt)[v].fields[f].ty \in Types
          BY <3>3, DefShape DEF TypeInv
        <5>2. ASSUME NEW f \in DOMAIN variants(cells[c].adt)[v].fields
              PROVE  variants(cells[c].adt)[v].fields[f].ty \in new
          <6>1. PICK u \in Types : u = variants(cells[c].adt)[v].fields[f].ty
            BY <5>1
          <6>2. PICK h \in DOMAIN p :
                  AwaitsType(p[h], c, variants(cells[c].adt)[v].fields[f].ty)'
            BY <4>2
          <6>3. AwaitsType(p[h], c, u)'
            BY <3>2, <6>1, <6>2 DEF AwaitsType
          <6> QED BY <2>0, <6>1, <6>3
        <5> QED BY <5>2
      <4> QED BY <2>2, <3>1, <4>1, <4>2 DEF Serving
    <3>5. Met(new, c)'
      BY <2>1 DEF Met
    <3> QED BY <2>0, <3>4, <3>5
  <2>3. CASE j \notin DOMAIN p
    <3>1. PICK g \in DOMAIN tasks : g # 1 /\ Builds(tasks[g], c)
      BY <1>1, <1>3, <2>3
    <3>2. c \in DOMAIN cells
      BY <3>1, OldTask DEF At
    <3>3. PICK S \in SUBSET Types : Met(S, c) /\ FieldsMet(S, c)
      BY <3>1, <3>2 DEF FieldsCovered
    <3>a. PICK S2 : S2 = S \cup new
      OBVIOUS
    <3>4. variants(cells[c].adt)' = variants(cells[c].adt) /\ cells[c].adt \in Adt
      BY <3>2, CellParts DEF Grows, CellsGrow, variants, def
    <3>5. FieldsMet(S2, c)'
      <4> SUFFICES ASSUME NEW v \in DOMAIN variants(cells[c].adt)
                   PROVE  \/ \E h \in DOMAIN tasks' : AwaitsVariant(tasks[h], c, v)'
                          \/ \A f \in DOMAIN variants(cells[c].adt)[v].fields :
                               variants(cells[c].adt)[v].fields[f].ty \in S2
        BY <3>4 DEF FieldsMet
      <4>1. CASE \E h \in DOMAIN tasks : AwaitsVariant(tasks[h], c, v)
        <5>1. PICK h \in DOMAIN tasks : AwaitsVariant(tasks[h], c, v)
          BY <4>1
        <5>2. CASE h # 1
          BY <1>1, <5>1, <5>2 DEF AwaitsVariant
        <5>3. CASE h = 1
          <6>1. t.k = "variant" /\ t.cell = c /\ t.i = v
            BY <5>1, <5>3 DEF AwaitsVariant
          <6>2. ASSUME NEW f \in DOMAIN variants(cells[c].adt)[v].fields
                PROVE  variants(cells[c].adt)[v].fields[f].ty \in new
            <7>1. PICK u \in Types : u = variants(cells[c].adt)[v].fields[f].ty
              BY <3>4, DefShape DEF TypeInv
            <7>2. PICK h2 \in DOMAIN p :
                    AwaitsType(p[h2], t.cell, variants(cells[t.cell].adt)[t.i].fields[f].ty)'
              BY <6>1 DEF Serving
            <7>3. AwaitsType(p[h2], c, u)'
              BY <3>4, <6>1, <7>1, <7>2 DEF AwaitsType
            <7> QED BY <2>0, <7>1, <7>3
          <6> QED BY <3>a, <6>2
        <5> QED BY <5>2, <5>3
      <4>2. CASE \A f \in DOMAIN variants(cells[c].adt)[v].fields :
                   variants(cells[c].adt)[v].fields[f].ty \in S
        BY <3>a, <4>2
      <4> QED BY <3>3, <4>1, <4>2 DEF FieldsMet
    <3>6. ASSUME NEW u \in S
          PROVE  \/ \E h \in DOMAIN tasks' : AwaitsType(tasks[h], c, u)'
                 \/ /\ u.k # "unsupported"
                    /\ \A a \in DOMAIN u.args : u.args[a] \in S2
                    /\ u.k = "adt" => u.adt \in cells'[c].deps
                                        \/ \E h \in DOMAIN tasks' : AwaitsUse(tasks[h], c, u.adt)'
      <4>0. /\ u.k = "adt" => u.adt \in Adt
            /\ \A a \in DOMAIN u.args : u.args[a] \in Types
        BY TypesAssumption
      <4>1. CASE \E h \in DOMAIN tasks : AwaitsType(tasks[h], c, u)
        <5>1. PICK h \in DOMAIN tasks : AwaitsType(tasks[h], c, u)
          BY <4>1
        <5>2. CASE h # 1
          <6>1. PICK k \in DOMAIN tasks' : k = sh[h] /\ tasks'[k] = tasks[h]
            BY <1>1, <5>2
          <6>2. PICK w : w = tasks[h]
            OBVIOUS
          <6>3. Inside(w, c)'
            BY <5>1, <6>2, OldTask DEF AwaitsType
          <6>4. AwaitsType(tasks[k], c, u)'
            BY <5>1, <6>1, <6>2, <6>3 DEF AwaitsType, Inside
          <6> QED BY <6>4
        <5>3. CASE h = 1
          <6>1. t.k = "type" /\ t.ty = u /\ Inside(t, c)
            BY <5>1, <5>3 DEF AwaitsType
          <6>2. u.k # "unsupported"
            BY <6>1 DEF Serving
          <6>3. ASSUME NEW a \in DOMAIN u.args PROVE u.args[a] \in new
            <7>1. \E h2 \in DOMAIN p : AwaitsType(p[h2], c, t.ty.args[a])'
              BY <3>2, <6>1 DEF Serving
            <7> QED BY <2>0, <4>0, <6>1, <7>1
          <6>4. u.k = "adt" => \E h2 \in DOMAIN p : AwaitsUse(p[h2], c, u.adt)'
            BY <3>2, <6>1 DEF Serving
          <6>5. u.k = "adt" => \E h2 \in DOMAIN tasks' : AwaitsUse(tasks[h2], c, u.adt)'
            BY <1>2, <6>4 DEF AwaitsUse, Inside
          <6> QED BY <3>a, <6>2, <6>3, <6>5
        <5> QED BY <5>2, <5>3
      <4>2. CASE /\ u.k # "unsupported"
                 /\ \A a \in DOMAIN u.args : u.args[a] \in S
                 /\ u.k = "adt" => u.adt \in cells[c].deps
                                     \/ \E h \in DOMAIN tasks : AwaitsUse(tasks[h], c, u.adt)
        <5>1. ASSUME u.k = "adt", u.adt \in cells[c].deps PROVE u.adt \in cells'[c].deps
          BY <3>2, <5>1 DEF CellsStep
        <5>2. ASSUME u.k = "adt", NEW h \in DOMAIN tasks, AwaitsUse(tasks[h], c, u.adt)
              PROVE  u.adt \in cells'[c].deps
                       \/ \E h2 \in DOMAIN tasks' : AwaitsUse(tasks[h2], c, u.adt)'
          <6>1. CASE h = 1
            BY <3>2, <4>0, <5>2, <6>1 DEF Serving
          <6>2. CASE h # 1
            <7>1. PICK k \in DOMAIN tasks' : k = sh[h] /\ tasks'[k] = tasks[h]
              BY <1>1, <6>2
            <7>2. PICK w : w = tasks[h]
              OBVIOUS
            <7>3. Inside(w, c)'
              BY <5>2, <7>2, OldTask DEF AwaitsUse
            <7>4. AwaitsUse(tasks[k], c, u.adt)'
              BY <5>2, <7>1, <7>2, <7>3 DEF AwaitsUse, Inside
            <7> QED BY <7>4
          <6> QED BY <6>1, <6>2
        <5> QED BY <3>a, <4>2, <5>1, <5>2
      <4> QED BY <3>3, <4>1, <4>2 DEF Met
    <3>7. Met(S2, c)'
      BY <2>1, <3>a, <3>6 DEF Met
    <3> QED BY <2>0, <3>a, <3>3, <3>5, <3>7
  <2> QED BY <2>2, <2>3
<1> QED
  BY <1>3 DEF FieldsCovered, Builds

LEMMA SoundStays ==
  ASSUME Grows, NEW d, NEW S, NEW M \in SUBSET Adt, SoundDef(d, S, M)
  PROVE  SoundDef(d, S, M)'
<1>1. /\ variants(d)' = variants(d) /\ def(d)' = def(d) /\ (is_struct(d) <=> is_struct(d)')
      /\ \A e \in M : is_registered_adt(e) => is_registered_adt(e)'
  BY DEF Grows, CellsGrow, variants, def, is_struct, is_registered_adt, Did
<1> QED
  BY <1>1 DEF SoundDef

LEMMA HarmlessStays ==
  ASSUME CellsInv, Grows, NEW t, TaskOK(t), NEW c, NEW S, NEW M, Harmless(t, c, S, M)
  PROVE  Harmless(t, c, S, M)'
BY InsideStays DEF Harmless

\* When the literal of an ADT is registered, all of its fields are translated.
LEMMA SoundWhenBuilt ==
  ASSUME TypeInv, CellsInv, StackInv, BuildsRegistered, VariantsEntered, FieldsCovered,
         NEW c \in DOMAIN cells, 1 \in DOMAIN tasks, Builds(tasks[1], c),
         NEW d, d = cells[c].adt,
         is_struct(d) /\ d \in cells[c].deps \cup def(d).extra_deps => def(d).invariant
  PROVE  \E S \in SUBSET Types, M \in SUBSET Adt : SoundDef(d, S, M)
<1>1. ASSUME NEW h \in DOMAIN tasks, Inside(tasks[h], c) PROVE FALSE
  <2>1. PICK j \in DOMAIN tasks : h < j /\ Builds(tasks[j], c)
    BY <1>1 DEF StackInv, Nested
  <2>2. j = 1
    BY <2>1 DEF StackInv, Once, At
  <2> QED BY <2>1, <2>2 DEF TypeInv
<1>2. PICK S \in SUBSET Types : Met(S, c) /\ FieldsMet(S, c)
  BY DEF FieldsCovered
<1>3. PICK M \in SUBSET Adt : M = cells[c].deps
  BY CellParts
<1>4. ASSUME NEW u \in S
      PROVE  /\ u.k # "unsupported" /\ \A a \in DOMAIN u.args : u.args[a] \in S
             /\ u.k = "adt" => u.adt \in M
  BY <1>1, <1>2, <1>3 DEF Met, AwaitsType, AwaitsUse
<1>5. ASSUME NEW i \in DOMAIN variants(d)
      PROVE  \A f \in DOMAIN variants(d)[i].fields : variants(d)[i].fields[f].ty \in S
  <2>1. ~\E h \in DOMAIN tasks : AwaitsVariant(tasks[h], c, i)
    BY <1>1 DEF AwaitsVariant, Inside
  <2> QED BY <1>2, <2>1 DEF FieldsMet
<1>6. \A e \in M : is_registered_adt(e)
  BY <1>3 DEF BuildsRegistered
<1>7. ASSUME variants(d) # << >> PROVE def(d).repr_ok
  <2>1. tasks[1].cell = c /\ TaskOK(tasks[1]) /\ tasks[1].k \in {"build_struct", "build_enum"}
    BY DEF Builds, StackInv, TasksInv
  <2>2. CASE tasks[1].k = "build_struct"
    BY <2>1, <2>2 DEF TaskOK
  <2>3. CASE tasks[1].k = "build_enum"
    <3>1. 1 \in DOMAIN variants(d)
      <4>1. d \in Adt /\ crate \in Crates
        BY CellParts DEF TypeInv
      <4>2. variants(d) \in Seq([fields : Seq([ty : Types, annotated : BOOLEAN])])
        BY <4>1, DefShape
      <4>3. PICK vs, V : vs = variants(d) /\ vs \in Seq(V)
        BY <4>2
      <4>4. 1 \in DOMAIN vs
        BY <1>7, <4>3
      <4> QED BY <4>3, <4>4
    <3>2. VariantEntered(c, 1)
      BY <1>1, <2>1, <2>3, <3>1 DEF VariantsEntered, AwaitsVariant, Inside
    <3> QED BY <3>2 DEF VariantEntered
  <2> QED BY <2>1, <2>2, <2>3
<1>8. is_struct(d) /\ d \in M \cup def(d).extra_deps => def(d).invariant
  BY <1>3
<1>9. SoundDef(d, S, M)
  BY <1>4, <1>5, <1>6, <1>7, <1>8 DEF SoundDef
<1> QED
  BY <1>9

LEMMA SecondNext ==
  ASSUME TypeInv, TypeInv', CellsInv, StackInv, BuildsRegistered, VariantsEntered,
         FieldsCovered, SecondInv, NEW p, NEW t, t = tasks[1], Pushes(p), Grows, CellsStep,
         StaysHarmless(p, t), NewShims(t)
  PROVE  SecondInv'
<1>0. PICK sh : Shifts(p, sh)
  BY Positions DEF TypeInv
<1>1. /\ \A j \in DOMAIN tasks : j # 1 =>
           /\ sh[j] \in DOMAIN tasks' /\ tasks'[sh[j]] = tasks[j]
           /\ 1 < j /\ \A i \in DOMAIN p : i < sh[j]
      /\ \A i, j \in DOMAIN tasks : i < j <=> sh[i] < sh[j]
      /\ \A i \in DOMAIN tasks' : i \in DOMAIN p \/ \E j \in DOMAIN tasks : j # 1 /\ i = sh[j]
  BY <1>0 DEF Shifts
<1>2. 1 \in DOMAIN tasks /\ \A i \in DOMAIN p : i \in DOMAIN tasks' /\ tasks'[i] = p[i]
  BY Positions DEF TypeInv
<1>3. ASSUME NEW j \in DOMAIN tasks', NEW c \in DOMAIN cells', At(tasks'[j], c),
             NEW d, d = cells'[c].adt, Did(d) \in adt_shims'
      PROVE  \E S \in SUBSET Types, M \in SUBSET Adt :
               /\ SoundDef(d, S, M)'
               /\ Builds(tasks'[j], c) => HarmlessAbove(j, c, S, M)'
  <2>0. /\ d \in Adt
        /\ \/ j \in DOMAIN p /\ j = Len(p) /\ Enters(p[j], c) /\ c \notin DOMAIN cells
           \/ j \in DOMAIN p /\ j = Len(p) /\ Builds(p[j], c) /\ c \in DOMAIN cells /\ Enters(t, c)
           \/ \E h \in DOMAIN tasks : h # 1 /\ j = sh[h] /\ At(tasks[h], c) /\ c \in DOMAIN cells
    <3>1. d \in Adt
      <4>1. cells'[c] \in Cell
        BY <1>3 DEF TypeInv
      <4> QED BY <1>3, <4>1 DEF Cell
    <3>2. CASE j \in DOMAIN p
      BY <1>2, <1>3, <3>1, <3>2 DEF Pushes, At
    <3>3. CASE j \notin DOMAIN p
      <4>1. PICK h \in DOMAIN tasks : h # 1 /\ j = sh[h] /\ At(tasks[h], c)
        BY <1>1, <1>3, <3>3
      <4> QED BY <3>1, <4>1, OldTask
    <3> QED BY <3>2, <3>3
  <2>1. CASE Did(d) \in adt_shims
    <3>1. CASE j \in DOMAIN p /\ Enters(p[j], c) /\ c \notin DOMAIN cells
      BY <1>3, <2>1, <3>1 DEF Pushes, is_registered_adt
    <3>2. CASE j \in DOMAIN p /\ j = Len(p) /\ Builds(p[j], c) /\ c \in DOMAIN cells /\ Enters(t, c)
      <4>1. d = cells[c].adt
        BY <1>3, <3>2 DEF Grows, CellsGrow
      <4>2. PICK S \in SUBSET Types, M \in SUBSET Adt : SoundDef(d, S, M)
        BY <1>2, <2>1, <3>2, <4>1 DEF SecondInv, At
      <4>3. cells'[c].deps = {}
        BY <1>2, <3>2 DEF CellsStep, AwaitsUse, Enters, StackInv, TasksInv, TaskOK
      <4>4. ASSUME NEW i \in DOMAIN tasks', i < j PROVE Harmless(tasks[i], c, S, M)'
        <5>1. i \in DOMAIN p
          <6>1. i \in Int /\ j \in Int
            BY DEF TypeInv
          <6> QED BY <1>1, <3>2, <4>4, <6>1
        <5>2. ~Builds(p[i], c)
          <6>1. i # Len(p)
            BY <3>2, <4>4 DEF TypeInv
          <6> QED BY <1>3, <5>1, <6>1 DEF Pushes
        <5>3. Harmless(p[i], c, S, M)'
          BY <3>2, <4>1, <4>2, <5>1, <5>2 DEF StaysHarmless
        <5> QED BY <1>2, <5>1, <5>3 DEF Harmless, Inside
      <4>5. HarmlessAbove(j, c, S, M)'
        BY <4>3, <4>4 DEF HarmlessAbove
      <4>6. SoundDef(d, S, M)'
        BY <4>2, SoundStays
      <4> QED BY <4>5, <4>6
    <3>3. CASE \E h \in DOMAIN tasks : h # 1 /\ j = sh[h] /\ At(tasks[h], c) /\ c \in DOMAIN cells
      <4>1. PICK h \in DOMAIN tasks : h # 1 /\ j = sh[h] /\ At(tasks[h], c) /\ c \in DOMAIN cells
        BY <3>3
      <4>2. d = cells[c].adt /\ tasks'[j] = tasks[h] /\ 1 < h
        BY <1>1, <1>3, <4>1 DEF Grows, CellsGrow
      <4>3. PICK S \in SUBSET Types, M \in SUBSET Adt :
              SoundDef(d, S, M) /\ (Builds(tasks[h], c) => HarmlessAbove(h, c, S, M))
        BY <2>1, <4>1, <4>2 DEF SecondInv
      <4>4. ASSUME Builds(tasks'[j], c) PROVE HarmlessAbove(j, c, S, M)'
        <5>1. Builds(tasks[h], c) /\ HarmlessAbove(h, c, S, M)
          BY <4>2, <4>3, <4>4
        <5>2. Harmless(t, c, S, M)
          BY <1>2, <4>2, <5>1 DEF HarmlessAbove
        <5>3. ASSUME NEW e \in cells'[c].deps PROVE e \in M
          BY <4>1, <5>1, <5>2, <5>3 DEF CellsStep, HarmlessAbove, Harmless, AwaitsUse
        <5>4. ASSUME NEW i \in DOMAIN tasks', i < j PROVE Harmless(tasks[i], c, S, M)'
          <6>1. CASE i \in DOMAIN p
            <7>1. ~Builds(p[i], c)
              <8> SUFFICES ASSUME Builds(p[i], c) PROVE FALSE
                OBVIOUS
              <8>1. Enters(tasks[1], c)
                BY <4>1, <6>1 DEF Pushes, Grows, CellsGrow
              <8> QED BY <1>2, <4>1, <8>1 DEF StackInv, Once, At
            <7>2. Harmless(p[i], c, S, M)'
              BY <4>1, <4>2, <4>3, <5>2, <6>1, <7>1 DEF StaysHarmless
            <7> QED BY <1>2, <6>1, <7>2 DEF Harmless, Inside
          <6>2. CASE i \notin DOMAIN p
            <7>1. PICK k \in DOMAIN tasks : k # 1 /\ i = sh[k] /\ tasks'[i] = tasks[k]
              BY <1>1, <6>2
            <7>2. k < h
              BY <1>1, <4>1, <5>4, <7>1
            <7>3. PICK w : w = tasks[k]
              OBVIOUS
            <7>4. Harmless(w, c, S, M) /\ TaskOK(w)
              BY <5>1, <7>1, <7>2, <7>3 DEF HarmlessAbove, StackInv, TasksInv
            <7>5. Harmless(w, c, S, M)'
              BY <7>4, HarmlessStays
            <7> QED BY <7>1, <7>3, <7>5 DEF Harmless, Inside
          <6> QED BY <6>1, <6>2
        <5>5. cells'[c].deps \subseteq M
          BY <5>3
        <5> QED BY <5>4, <5>5 DEF HarmlessAbove
      <4>5. SoundDef(d, S, M)'
        BY <4>3, SoundStays
      <4> QED BY <4>4, <4>5
    <3> QED BY <2>0, <3>1, <3>2, <3>3
  <2>2. CASE Did(d) \notin adt_shims
    <3>1. PICK b \in DOMAIN cells :
            /\ Builds(t, b) /\ cells[b].adt = d
            /\ is_struct(d) /\ d \in cells[b].deps \cup def(d).extra_deps => def(d).invariant
      BY <1>3, <2>0, <2>2 DEF NewShims
    <3>2. PICK S \in SUBSET Types, M \in SUBSET Adt : SoundDef(d, S, M)
      BY <1>2, <3>1, SoundWhenBuilt
    <3>3. SoundDef(d, S, M)'
      BY <3>2, SoundStays
    <3>4. ~Builds(tasks'[j], c)
      <4> SUFFICES ASSUME Builds(tasks'[j], c) PROVE FALSE
        OBVIOUS
      <4>1. ~Enters(t, c)
        BY <3>1 DEF Enters, Builds
      <4>2. PICK h \in DOMAIN tasks : h # 1 /\ j = sh[h] /\ c \in DOMAIN cells
        BY <1>2, <2>0, <4>1 DEF Enters, Builds
      <4>3. Builds(tasks[h], c) /\ cells[c].adt = d
        BY <1>1, <1>3, <4>2 DEF Grows, CellsGrow
      <4> QED BY <1>2, <3>1, <4>2, <4>3 DEF StackInv, OneBuild
    <3> QED BY <3>3, <3>4
  <2> QED BY <2>1, <2>2
<1>4. ASSUME NEW j \in DOMAIN tasks', NEW c \in DOMAIN cells', At(tasks'[j], c),
             Did(cells'[c].adt) \in adt_shims'
      PROVE  (\E S \in SUBSET Types, M \in SUBSET Adt :
                /\ SoundDef(cells[c].adt, S, M)
                /\ Builds(tasks[j], c) => HarmlessAbove(j, c, S, M))'
  <2>1. PICK d : d = cells'[c].adt
    OBVIOUS
  <2>2. PICK S \in SUBSET Types, M \in SUBSET Adt :
          SoundDef(d, S, M)' /\ (Builds(tasks'[j], c) => HarmlessAbove(j, c, S, M)')
    BY <1>3, <1>4, <2>1
  <2>3. SoundDef(cells[c].adt, S, M)'
    BY <2>1, <2>2 DEF SoundDef, variants, def, is_struct
  <2> QED BY <2>2, <2>3 DEF Builds
<1> QED
  BY <1>4 DEF SecondInv, At, Builds, Enters, Did

-----------------------------------------------------------------------------
(* What holds of the stack of calls, and the steps that push.                *)

LoopInv ==
  /\ StackInv /\ BuildsRegistered /\ UsesRegistered
  /\ VariantsEntered /\ FieldsCovered /\ SecondInv

PushStep(p, t) ==
  /\ t = tasks[1] /\ Pushes(p) /\ Grows /\ CellsStep
  /\ Registering(p, t) /\ Serving(p, t) /\ VariantsStay(t) /\ StaysHarmless(p, t) /\ NewShims(t)

LEMMA LoopNext ==
  ASSUME TypeInv, TypeInv', CellsInv, LoopInv, NEW p, NEW t, PushStep(p, t)
  PROVE  LoopInv'
<1>1. /\ t = tasks[1] /\ Pushes(p) /\ Grows /\ CellsStep
      /\ Registering(p, t) /\ Serving(p, t) /\ VariantsStay(t) /\ StaysHarmless(p, t)
      /\ NewShims(t)
  BY DEF PushStep
<1>2. /\ StackInv /\ BuildsRegistered /\ UsesRegistered
      /\ VariantsEntered /\ FieldsCovered /\ SecondInv
  BY DEF LoopInv
<1>3. StackInv'
  BY <1>1, <1>2, TasksNext, NestedNext, AtNext DEF StackInv
<1>4. BuildsRegistered' /\ UsesRegistered'
  BY <1>1, <1>2, RegisteredNext
<1>5. VariantsEntered' /\ FieldsCovered' /\ SecondInv'
  BY <1>1, <1>2, VariantsNext, CoveredNext, SecondNext
<1> QED
  BY <1>3, <1>4, <1>5 DEF LoopInv

LEMMA LoopEmpty ==
  ASSUME tasks' = << >>
  PROVE  LoopInv'
<1>1. DOMAIN tasks' = {}
  OBVIOUS
<1> QED
  BY <1>1 DEF LoopInv, StackInv, TasksInv, Nested, Once, OneBuild, FunctionsLast,
              BuildsRegistered, UsesRegistered, VariantsEntered, FieldsCovered, SecondInv

\* The types and their contexts, one after the other.
LEMMA TypeTasksAre ==
  ASSUME NEW ts \in Seq(Types), NEW ctx \in Ctx
  PROVE  /\ TypeTasks(ts, ctx) \in Seq(Task)
         /\ DOMAIN TypeTasks(ts, ctx) = DOMAIN ts
         /\ \A i \in DOMAIN TypeTasks(ts, ctx) :
              /\ TypeTasks(ts, ctx)[i].k = "type"
              /\ TypeTasks(ts, ctx)[i].ty = ts[i]
              /\ TypeTasks(ts, ctx)[i].ctx = ctx
<1>1. \A i \in DOMAIN ts : [k |-> "type", ty |-> ts[i], ctx |-> ctx] \in Task
  BY DEF Task
<1>2. TypeTasks(ts, ctx) \in Seq(Task) /\ DOMAIN TypeTasks(ts, ctx) = DOMAIN ts
  BY <1>1 DEF TypeTasks
<1>3. \A i \in DOMAIN ts : TypeTasks(ts, ctx)[i] = [k |-> "type", ty |-> ts[i], ctx |-> ctx]
  BY DEF TypeTasks
<1>4. ASSUME NEW i \in DOMAIN ts
      PROVE  /\ TypeTasks(ts, ctx)[i].k = "type"
             /\ TypeTasks(ts, ctx)[i].ty = ts[i]
             /\ TypeTasks(ts, ctx)[i].ctx = ctx
  <2>1. PICK r : r = TypeTasks(ts, ctx)[i]
    OBVIOUS
  <2>2. PICK ty : ty = ts[i]
    OBVIOUS
  <2>3. r = [k |-> "type", ty |-> ty, ctx |-> ctx]
    BY <1>3, <2>1, <2>2
  <2>4. r.k = "type" /\ r.ty = ty /\ r.ctx = ctx
    BY <2>3
  <2> QED BY <2>1, <2>2, <2>4, Zenon
<1> QED
  BY <1>2, <1>4

LEMMA Joined ==
  ASSUME NEW S, NEW s \in Seq(S), NEW u \in Seq(S)
  PROVE  /\ s \o u \in Seq(S) /\ Len(s) \in Nat /\ Len(s \o u) = Len(s) + Len(u)
         /\ \A i \in DOMAIN s : i \in DOMAIN (s \o u) /\ (s \o u)[i] = s[i] /\ i <= Len(s)
         /\ \A i \in DOMAIN u : Len(s) + i \in DOMAIN (s \o u) /\ (s \o u)[Len(s) + i] = u[i]
         /\ \A i \in DOMAIN (s \o u) :
              \/ i \in DOMAIN s
              \/ \E k \in DOMAIN u : i = Len(s) + k
<1>1. /\ s \o u \in Seq(S) /\ Len(s) \in Nat /\ Len(s \o u) = Len(s) + Len(u) /\ Len(u) \in Nat
      /\ DOMAIN s = 1 .. Len(s) /\ DOMAIN u = 1 .. Len(u) /\ DOMAIN (s \o u) = 1 .. Len(s) + Len(u)
  OBVIOUS
<1>2. \A i \in DOMAIN s : i \in DOMAIN (s \o u) /\ (s \o u)[i] = s[i] /\ i <= Len(s)
  OBVIOUS
<1>3. \A i \in DOMAIN u : Len(s) + i \in DOMAIN (s \o u) /\ (s \o u)[Len(s) + i] = u[i]
  OBVIOUS
<1>4. ASSUME NEW i \in DOMAIN (s \o u), i \notin DOMAIN s
      PROVE  \E k \in DOMAIN u : i = Len(s) + k
  <2>1. i - Len(s) \in DOMAIN u /\ i = Len(s) + (i - Len(s))
    BY <1>1, <1>4
  <2> QED BY <2>1
<1> QED
  BY <1>1, <1>2, <1>3, <1>4

\* A last task is put behind others.
Ends(p, s, x) ==
  /\ p \in Seq(Task) /\ Len(s) \in Nat /\ Len(p) = Len(s) + 1
  /\ Len(p) \in DOMAIN p /\ p[Len(p)] = x
  /\ \A i \in DOMAIN s : i \in DOMAIN p /\ p[i] = s[i] /\ i \in Int /\ i < Len(p)
  /\ \A i \in DOMAIN p : i \in DOMAIN s \/ i = Len(p)

LEMMA WithLast ==
  ASSUME NEW s \in Seq(Task), NEW x \in Task, NEW p, p = s \o <<x>>
  PROVE  Ends(p, s, x)
BY DEF Ends

LEMMA TwoJoined ==
  ASSUME NEW S, NEW a \in S, NEW b \in S
  PROVE  <<a>> \o <<b>> = <<a, b>>
<1>1. <<a>> \in Seq(S) /\ <<b>> \in Seq(S) /\ <<a, b>> \in Seq(S)
  OBVIOUS
<1>2. /\ <<a>> \o <<b>> \in Seq(S) /\ Len(<<a>> \o <<b>>) = 2
      /\ (<<a>> \o <<b>>)[1] = a /\ (<<a>> \o <<b>>)[2] = b
  BY <1>1
<1>3. \A q, r \in Seq(S) : Len(q) = 2 /\ Len(r) = 2 /\ q[1] = r[1] /\ q[2] = r[2] => q = r
  OBVIOUS
<1> QED
  BY <1>1, <1>2, <1>3

FieldTasksOf(s, c, fields) ==
  /\ s \in Seq(Task)
  /\ \A i \in DOMAIN s :
       \/ s[i].k = "field" /\ s[i].cell = c
       \/ /\ s[i].k = "type" /\ s[i].ctx = TranslateAdt(c)
          /\ \E f \in DOMAIN fields : s[i].ty = fields[f].ty
  /\ \A f \in DOMAIN fields : \E i \in DOMAIN s :
       s[i].k = "type" /\ s[i].ctx = TranslateAdt(c) /\ s[i].ty = fields[f].ty

\* The tasks of the fields are those of their types, and what follows them.
LEMMA FieldTasksAre ==
  ASSUME NEW c \in Nat, NEW fields \in Seq([ty : Types, annotated : BOOLEAN])
  PROVE  FieldTasksOf(FieldTasks(c, fields), c, fields)
<1> DEFINE typ(f) == [k |-> "type", ty |-> fields[f].ty, ctx |-> TranslateAdt(c)]
           fld(f) == [k |-> "field", cell |-> c, ty |-> fields[f].ty,
                     annotated |-> fields[f].annotated]
           seqs   == [f \in DOMAIN fields |->
                        TypeTasks(<<fields[f].ty>>, TranslateAdt(c)) \o <<fld(f)>>]
           all    == FlattenSeq(seqs)
<1>1. ASSUME NEW f \in DOMAIN fields
      PROVE  fields[f].ty \in Types /\ fields[f].annotated \in BOOLEAN
  <2> DEFINE rec == [ty : Types, annotated : BOOLEAN]
  <2>a. \A V : \A q \in Seq(V) : \A i \in DOMAIN q : q[i] \in V
    OBVIOUS
  <2>1. fields[f] \in rec
    BY <2>a, Zenon
  <2> QED BY <2>1, Zenon
<1>2. ASSUME NEW f \in DOMAIN fields PROVE typ(f) \in Task /\ fld(f) \in Task
  BY <1>1, <1>2 DEF Task, Ctx, TranslateAdt
<1>3. ASSUME NEW f \in DOMAIN fields
      PROVE  seqs[f] = <<typ(f), fld(f)>> /\ seqs[f] \in Seq(Task)
  <2>1. TypeTasks(<<fields[f].ty>>, TranslateAdt(c)) = <<typ(f)>>
    BY DEF TypeTasks
  <2>2. TypeTasks(<<fields[f].ty>>, TranslateAdt(c)) \o <<fld(f)>> = <<typ(f), fld(f)>>
    <3> HIDE DEF typ, fld
    <3> QED BY <1>2, <2>1, TwoJoined, Zenon
  <2>3. seqs[f] = <<typ(f), fld(f)>>
    BY <2>2
  <2>4. <<typ(f), fld(f)>> \in Seq(Task)
    <3> HIDE DEF typ, fld
    <3> QED BY <1>2
  <2> QED BY <2>3, <2>4
<1>4. seqs \in Seq(Seq(Task)) /\ Len(seqs) = Len(fields)
  <2>1. \A f \in DOMAIN fields : seqs[f] \in Seq(Task)
    BY <1>3
  <2>2. DOMAIN seqs = DOMAIN fields /\ DOMAIN fields = 1 .. Len(fields) /\ Len(fields) \in Nat
    OBVIOUS
  <2>3. seqs = [f \in 1 .. Len(fields) |-> seqs[f]]
    BY <2>2
  <2> HIDE DEF seqs
  <2> QED BY <2>1, <2>2, <2>3
<1>5. /\ all \in Seq(Task)
      /\ ToSet(all) = UNION {ToSet(seqs[f]) : f \in 1 .. Len(seqs)}
  <2> HIDE DEF seqs
  <2> QED BY <1>4, FlattenElements
<1>6. DOMAIN fields = 1 .. Len(seqs)
  BY <1>4
<1>7. FieldTasks(c, fields) = all
  BY DEF FieldTasks
<1> HIDE DEF seqs, all
<1>8. ASSUME NEW i \in DOMAIN all
      PROVE  \E f \in DOMAIN fields : all[i] = typ(f) \/ all[i] = fld(f)
  <2>1. all[i] \in ToSet(all)
    BY DEF ToSet
  <2>2. PICK f \in DOMAIN fields : all[i] \in ToSet(seqs[f])
    BY <1>5, <1>6, <2>1
  <2>3. \A x \in ToSet(<<typ(f), fld(f)>>) : x = typ(f) \/ x = fld(f)
    <3> HIDE DEF typ, fld
    <3> QED BY DEF ToSet
  <2> QED BY <1>3, <2>2, <2>3
<1>9. ASSUME NEW f \in DOMAIN fields
      PROVE  \E i \in DOMAIN all : all[i] = typ(f)
  <2>1. typ(f) \in ToSet(<<typ(f), fld(f)>>)
    <3> HIDE DEF typ, fld
    <3> QED BY DEF ToSet
  <2>2. typ(f) \in ToSet(all)
    BY <1>3, <1>5, <1>6, <2>1
  <2> HIDE DEF typ
  <2> QED BY <2>2 DEF ToSet
<1>10. ASSUME NEW i \in DOMAIN all
       PROVE  \/ all[i].k = "field" /\ all[i].cell = c
              \/ /\ all[i].k = "type" /\ all[i].ctx = TranslateAdt(c)
                 /\ \E f \in DOMAIN fields : all[i].ty = fields[f].ty
  BY <1>8
<1>11. ASSUME NEW f \in DOMAIN fields
       PROVE  \E i \in DOMAIN all :
                all[i].k = "type" /\ all[i].ctx = TranslateAdt(c) /\ all[i].ty = fields[f].ty
  BY <1>9
<1> QED
  BY <1>5, <1>7, <1>10, <1>11 DEF FieldTasksOf

-----------------------------------------------------------------------------
(* The inductive invariant.                                                  *)

IInv ==
  /\ TypeInv /\ CellsInv /\ RegistryInv /\ LoopInv
  /\ FilledInv /\ LibrariesInv /\ ShimsInv /\ UsesInv /\ ResultsInv /\ ControlInv

\* What holds while a task is at hand.
LEMMA AtHand ==
  ASSUME IInv, outcome = "none", tasks # << >>
  PROVE  /\ 1 \in DOMAIN tasks /\ task = tasks[1] /\ tasks[1] \in Task /\ TaskOK(tasks[1])
         /\ Tail(tasks) \in Seq(Task) /\ Alive /\ ~\E j \in DOMAIN tasks : j < 1
<1>1. tasks \in Seq(Task) /\ TasksInv
  BY DEF IInv, TypeInv, LoopInv, StackInv
<1>2. 1 \in DOMAIN tasks /\ task = tasks[1] /\ tasks[1] \in Task /\ Tail(tasks) \in Seq(Task)
      /\ ~\E j \in DOMAIN tasks : j < 1
  BY <1>1 DEF task
<1>3. TaskOK(tasks[1])
  BY <1>1, <1>2 DEF TasksInv
<1>4. Alive
  BY DEF Alive, IInv, ControlInv
<1> QED
  BY <1>2, <1>3, <1>4

(* The registries keep their entries, or get those of cells of their ADT.    *)
RegistryStep ==
  \A d \in Adt :
    /\ Did(d) \in DOMAIN variant_registry' =>
         \/ /\ Did(d) \in DOMAIN variant_registry
            /\ variant_registry'[Did(d)] = variant_registry[Did(d)]
         \/ is_struct(d) /\ EntryOK(d, variant_registry[Did(d)])'
    /\ d \in DOMAIN enum_registry' =>
         \/ d \in DOMAIN enum_registry /\ enum_registry'[d] = enum_registry[d]
         \/ ~is_struct(d) /\ EntryOK(d, enum_registry[d])'

LEMMA RegistryNext ==
  ASSUME RegistryInv, CellsGrow, RegistryStep
  PROVE  RegistryInv'
<1>1. \A d \in Adt : (is_struct(d) <=> is_struct(d)') /\ Did(d)' = Did(d)
  BY DEF CellsGrow, is_struct, def, Did
<1>2. \A d, c : EntryOK(d, c) => EntryOK(d, c)'
  BY DEF CellsGrow, EntryOK
<1>3. ASSUME NEW d \in Adt
      PROVE  /\ is_struct(d) /\ Did(d) \in DOMAIN variant_registry' =>
                  EntryOK(d, variant_registry[Did(d)])'
             /\ ~is_struct(d) => Did(d) \notin DOMAIN variant_registry'
             /\ d \in DOMAIN enum_registry' => ~is_struct(d) /\ EntryOK(d, enum_registry[d])'
  <2>1. ASSUME Did(d) \in DOMAIN variant_registry'
        PROVE  is_struct(d) /\ EntryOK(d, variant_registry[Did(d)])'
    <3>1. CASE is_struct(d) /\ EntryOK(d, variant_registry[Did(d)])'
      BY <3>1
    <3>2. CASE /\ Did(d) \in DOMAIN variant_registry
               /\ variant_registry'[Did(d)] = variant_registry[Did(d)]
      <4>1. is_struct(d) /\ EntryOK(d, variant_registry[Did(d)])
        BY <3>2 DEF RegistryInv
      <4>2. PICK c : c = variant_registry[Did(d)]
        OBVIOUS
      <4>3. EntryOK(d, c)'
        BY <1>2, <4>1, <4>2
      <4> QED BY <3>2, <4>1, <4>2, <4>3 DEF EntryOK, Did
    <3> QED BY <2>1, <3>1, <3>2 DEF RegistryStep
  <2>2. ASSUME d \in DOMAIN enum_registry'
        PROVE  ~is_struct(d) /\ EntryOK(d, enum_registry[d])'
    <3>1. CASE ~is_struct(d) /\ EntryOK(d, enum_registry[d])'
      BY <3>1
    <3>2. CASE d \in DOMAIN enum_registry /\ enum_registry'[d] = enum_registry[d]
      <4>1. ~is_struct(d) /\ EntryOK(d, enum_registry[d])
        BY <3>2 DEF RegistryInv
      <4>2. PICK c : c = enum_registry[d]
        OBVIOUS
      <4>3. EntryOK(d, c)'
        BY <1>2, <4>1, <4>2
      <4> QED BY <3>2, <4>1, <4>2, <4>3 DEF EntryOK
    <3> QED BY <2>2, <3>1, <3>2 DEF RegistryStep
  <2> QED BY <2>1, <2>2
<1> QED
  BY <1>1, <1>3 DEF RegistryInv

\* What functions refer to stays while others are translated.
LEMMA StableNext ==
  ASSUME TypeInv, CellsInv, StackInv, NEW p, Pushes(p), Grows, NEW d \in Adt, Stable(d)
  PROVE  Stable(d)'
<1>0. PICK sh : Shifts(p, sh)
  BY Positions DEF TypeInv
<1>1. \A i \in DOMAIN tasks' :
        i \in DOMAIN p \/ \E j \in DOMAIN tasks : j # 1 /\ tasks'[i] = tasks[j]
  BY <1>0 DEF Shifts
<1>2. 1 \in DOMAIN tasks /\ \A i \in DOMAIN p : i \in DOMAIN tasks' /\ tasks'[i] = p[i]
  BY Positions DEF TypeInv
<1>3. ASSUME NEW i \in DOMAIN tasks', NEW c \in DOMAIN cells', At(tasks'[i], c), cells'[c].adt = d
      PROVE  FALSE
  <2>1. CASE i \in DOMAIN p /\ Enters(p[i], c)
    BY <1>3, <2>1 DEF Pushes, is_registered_adt, Stable
  <2>2. CASE i \in DOMAIN p /\ Builds(p[i], c)
    <3>1. c \in DOMAIN cells /\ Enters(tasks[1], c)
      BY <1>3, <2>2 DEF Pushes
    <3> QED BY <1>2, <1>3, <3>1 DEF Stable, At, Grows, CellsGrow
  <2>3. CASE i \notin DOMAIN p
    <3>1. PICK j \in DOMAIN tasks : At(tasks[j], c)
      BY <1>1, <1>3, <2>3
    <3>2. c \in DOMAIN cells
      BY <3>1, OldTask
    <3> QED BY <1>3, <3>1, <3>2 DEF Stable, Grows, CellsGrow
  <2> QED BY <1>2, <1>3, <2>1, <2>2, <2>3 DEF At
<1>4. /\ Did(d) \in adt_shims' /\ d \in DOMAIN adt_deps' /\ Did(d)' = Did(d)
      /\ is_registered_local_adt(d)'
  BY DEF Stable, Grows, Did
<1> QED
  BY <1>3, <1>4 DEF Stable, At, Builds, Enters

LEMMA ResultUses ==
  ASSUME TypeInv, NEW i \in DOMAIN results, NEW did \in results[i].uses
  PROVE  did[1] \in Adt
<1>1. \A V : \A q \in Seq(V) : \A k \in DOMAIN q : q[k] \in V
  OBVIOUS
<1> DEFINE R == [outcome : {"done", "skipped", "fatal", "panic"}, uses : SUBSET (Adt \X Nat)]
<1>2. results[i] \in R
  BY <1>1, Zenon DEF TypeInv
<1>3. results[i].uses \in SUBSET (Adt \X Nat)
  BY <1>2, Zenon
<1>4. did \in Adt \X Nat
  BY <1>3
<1> QED
  BY <1>4

(* What a step that pushes notes about definitions and literals.             *)
LedgerStep(p, t) ==
  /\ UNCHANGED <<outcome, results, phase, layers>>
  /\ \A did \in adt_shims' \ adt_shims : did[1] \notin crate.shims
  /\ \A d \in Adt : Did(d) \in adt_shims' \ adt_shims => d \in DOMAIN adt_deps'
  /\ \A d \in DOMAIN enum_registry' \ DOMAIN enum_registry :
       \E i \in DOMAIN p, c \in DOMAIN cells : Builds(p[i], c) /\ cells[c].adt = d
  /\ \A c \in DOMAIN cells : Builds(t, c) => Did(cells[c].adt) \in adt_shims'

LEMMA LedgerNext ==
  ASSUME IInv, TypeInv', outcome = "none", NEW p, NEW t, PushStep(p, t), LedgerStep(p, t)
  PROVE  LoopInv' /\ LibrariesInv' /\ ShimsInv' /\ ResultsInv' /\ ControlInv'
<1>0. /\ TypeInv /\ CellsInv /\ RegistryInv /\ LoopInv /\ StackInv /\ BuildsRegistered
      /\ LibrariesInv /\ ShimsInv /\ ResultsInv /\ ControlInv
      /\ t = tasks[1] /\ Pushes(p) /\ Grows /\ CellsGrow /\ NewShims(t)
  BY DEF IInv, LoopInv, PushStep, Grows
<1>1. LoopInv'
  BY <1>0, LoopNext
<1>2. LibrariesInv'
  BY <1>0 DEF LibrariesInv, LedgerStep, Grows, CellsGrow, Did
<1>3. ResultsInv'
  <2>1. ASSUME NEW i \in DOMAIN results, NEW did \in results[i].uses
        PROVE  OfLibrary(did)' \/ Stable(did[1])'
    <3>1. did[1] \in Adt
      BY <1>0, ResultUses
    <3>2. OfLibrary(did) \/ Stable(did[1])
      BY <1>0 DEF ResultsInv
    <3>3. PICK d : d = did[1]
      OBVIOUS
    <3>4. Stable(d) => Stable(d)'
      BY <1>0, <3>1, <3>3, StableNext
    <3> QED BY <1>0, <3>2, <3>3, <3>4 DEF OfLibrary, CellsGrow, Did
  <2> QED BY <2>1 DEF ResultsInv, LedgerStep
<1>4. ControlInv'
  BY <1>0 DEF ControlInv, LedgerStep, stopped
<1>5. ShimsInv'
  <2>0. Alive
    BY <1>0 DEF Alive, ControlInv
  <2>1. ASSUME NEW d \in Adt, Did(d) \in adt_shims', d \notin crate'.shims
        PROVE  is_registered_local_adt(d)' /\ d \in DOMAIN adt_deps'
    <3>1. CASE Did(d) \in adt_shims
      BY <1>0, <2>0, <2>1, <3>1 DEF ShimsInv, Grows, CellsGrow
    <3>2. CASE Did(d) \notin adt_shims
      <4>1. PICK c \in DOMAIN cells : Builds(t, c) /\ cells[c].adt = d
        BY <1>0, <2>1, <3>2 DEF NewShims
      <4>2. 1 \in DOMAIN tasks
        BY <1>0, Positions DEF TypeInv
      <4>3. is_registered_local_adt(d)
        BY <1>0, <4>1, <4>2 DEF BuildsRegistered
      <4> QED BY <1>0, <2>1, <3>2, <4>3 DEF LedgerStep, Grows
    <3> QED BY <3>1, <3>2
  <2>2. ASSUME NEW d \in DOMAIN enum_registry' PROVE Did(d) \in adt_shims' \/ Building(d)'
    <3>0. PICK sh : Shifts(p, sh)
      BY <1>0, Positions DEF TypeInv
    <3>1. \A j \in DOMAIN tasks : j # 1 => sh[j] \in DOMAIN tasks' /\ tasks'[sh[j]] = tasks[j]
      BY <3>0 DEF Shifts
    <3>2. \A i \in DOMAIN p : i \in DOMAIN tasks' /\ tasks'[i] = p[i]
      BY <1>0, Positions DEF TypeInv
    <3>3. ASSUME NEW i \in DOMAIN tasks', NEW c \in DOMAIN cells, Builds(tasks'[i], c), cells[c].adt = d
          PROVE  Building(d)'
      BY <1>0, <3>3 DEF Building, CellsGrow, Builds
    <3>4. CASE d \notin DOMAIN enum_registry
      BY <2>2, <3>2, <3>3, <3>4 DEF LedgerStep
    <3>5. CASE d \in DOMAIN enum_registry /\ Did(d) \in adt_shims
      BY <1>0, <3>5 DEF Grows
    <3>6. CASE Building(d)
      <4>1. PICK i \in DOMAIN tasks, c \in DOMAIN cells : Builds(tasks[i], c) /\ cells[c].adt = d
        BY <3>6 DEF Building
      <4>2. CASE i = 1
        BY <1>0, <4>1, <4>2 DEF LedgerStep
      <4>3. CASE i # 1
        BY <3>1, <3>3, <4>1, <4>3
      <4> QED BY <4>2, <4>3
    <3> QED BY <1>0, <2>0, <3>4, <3>5, <3>6 DEF ShimsInv
  <2> QED BY <2>1, <2>2 DEF ShimsInv, Did
<1> QED
  BY <1>1, <1>2, <1>3, <1>4, <1>5

(* A step that only replaces the innermost task.                             *)
QuietPush(p, t) ==
  /\ p \in Seq(Task) /\ tasks' = p \o Tail(tasks) /\ t = tasks[1]
  /\ UNCHANGED <<crate, registry, outcome, results, phase, layers>>
  /\ \A i \in DOMAIN p : /\ TaskOK(p[i]) /\ p[i].k \notin {"enter", "build_struct", "build_enum"}
                         /\ OfFunction(p[i]) => OfFunction(t)
  /\ \A i \in DOMAIN p, c \in DOMAIN cells : Inside(p[i], c) => Inside(t, c)
  /\ \A i \in DOMAIN p : p[i].k \in {"use", "construct"} =>
       \/ is_registered_adt(UsedAdt(p[i]))
       \/ \E j \in DOMAIN p : j < i /\ Registers(p[j], UsedAdt(p[i]))
  /\ t.k \in {"type", "use", "register", "construct"}
  /\ t.k = "use" => t.ctx.k = "function"
  /\ t.k = "register" => is_registered_adt(t.adt)
  /\ t.k = "type" =>
       /\ t.ty.k # "unsupported"
       /\ \A c \in DOMAIN cells : Inside(t, c) =>
            /\ \A a \in DOMAIN t.ty.args : \E h \in DOMAIN p : AwaitsType(p[h], c, t.ty.args[a])
            /\ t.ty.k = "adt" => \E h \in DOMAIN p : AwaitsUse(p[h], c, t.ty.adt)
  /\ \A c \in DOMAIN cells, S \in SUBSET Types, M \in SUBSET Adt :
       SoundDef(cells[c].adt, S, M) /\ Harmless(t, c, S, M) =>
         \A h \in DOMAIN p : Harmless(p[h], c, S, M)

LEMMA QuietNext ==
  ASSUME IInv, outcome = "none", tasks # << >>, NEW p, NEW t, QuietPush(p, t),
         uses' \subseteq Adt \X Nat, UsesInv'
  PROVE  IInv'
<1>0. /\ TypeInv /\ CellsInv /\ RegistryInv /\ LoopInv /\ FilledInv
      /\ 1 \in DOMAIN tasks /\ t \in Task /\ TaskOK(t)
  BY AtHand DEF IInv, QuietPush
<1>1. /\ p \in Seq(Task) /\ tasks' = p \o Tail(tasks) /\ t = tasks[1]
      /\ crate' = crate /\ variant_registry' = variant_registry /\ enum_registry' = enum_registry
      /\ cells' = cells /\ adt_deps' = adt_deps /\ adt_shims' = adt_shims
      /\ outcome' = outcome /\ results' = results /\ phase' = phase /\ layers' = layers
  BY DEF QuietPush, registry
<1>2. tasks' \in Seq(Task)
  BY <1>0, <1>1, PushedAt DEF TypeInv, Pushed
<1>3. TypeInv'
  BY <1>0, <1>1, <1>2 DEF TypeInv
<1>4. /\ \A x, c : Inside(x, c)' <=> Inside(x, c)
      /\ \A d : is_registered_adt(d)' <=> is_registered_adt(d)
      /\ \A d : is_registered_local_adt(d)' <=> is_registered_local_adt(d)
      /\ \A x, d : Registers(x, d)' <=> Registers(x, d)
  BY <1>1 DEF Inside, is_registered_adt, is_registered_local_adt, Registers, Did
<1>5. /\ \A x : TaskOK(x)' <=> TaskOK(x)
      /\ \A x, c, ty : AwaitsType(x, c, ty)' <=> AwaitsType(x, c, ty)
      /\ \A x, c, d : AwaitsUse(x, c, d)' <=> AwaitsUse(x, c, d)
      /\ \A x, c, S, M : Harmless(x, c, S, M)' <=> Harmless(x, c, S, M)
  BY <1>1, <1>4 DEF TaskOK, AwaitsType, AwaitsUse, Harmless, def, is_struct, variants
<1>6. CellsGrow /\ Grows /\ CellsStep
  BY <1>1, <1>4 DEF CellsGrow, Grows, CellsStep
<1>7. \A i \in DOMAIN p : \A c : ~Builds(p[i], c) /\ ~Enters(p[i], c)
  BY DEF QuietPush, Builds, Enters
<1>8. /\ \A c : ~Builds(t, c) /\ ~Enters(t, c)
      /\ \A c, e : ~AwaitsUse(t, c, e)
      /\ t.k # "variant" /\ t.k # "enter"
  BY DEF QuietPush, Builds, Enters, AwaitsUse, Inside
<1>9. Pushes(p)
  BY <1>0, <1>1, <1>4, <1>5, <1>7 DEF Pushes, QuietPush
<1>10. Registering(p, t)
  <2>1. \A i \in DOMAIN p : p[i].k \in {"use", "construct"} =>
          \/ is_registered_adt(UsedAdt(p[i]))'
          \/ \E j \in DOMAIN p : j < i /\ Registers(p[j], UsedAdt(p[i]))'
    <3>1. ASSUME NEW i \in DOMAIN p, p[i].k \in {"use", "construct"}
          PROVE  \/ is_registered_adt(UsedAdt(p[i]))'
                 \/ \E j \in DOMAIN p : j < i /\ Registers(p[j], UsedAdt(p[i]))'
      <4>1. PICK d : d = UsedAdt(p[i])
        OBVIOUS
      <4> QED BY <1>4, <3>1, <4>1 DEF QuietPush
    <3> QED BY <3>1
  <2>2. \A d \in Adt : Registers(t, d) => is_registered_adt(d)'
    BY <1>4, <1>8 DEF QuietPush, Registers
  <2> QED BY <1>7, <2>1, <2>2 DEF Registering
<1>11. Serving(p, t)
  BY <1>5, <1>7, <1>8 DEF Serving, QuietPush
<1>12. VariantsStay(t) /\ NewShims(t)
  BY <1>1 DEF VariantsStay, NewShims
<1>13. StaysHarmless(p, t)
  BY <1>5, <1>8 DEF StaysHarmless, QuietPush
<1>14. PushStep(p, t)
  BY <1>1, <1>6, <1>9, <1>10, <1>11, <1>12, <1>13 DEF PushStep
<1>15. LedgerStep(p, t)
  BY <1>1, <1>8 DEF LedgerStep
<1>16. LoopInv' /\ LibrariesInv' /\ ShimsInv' /\ ResultsInv' /\ ControlInv'
  BY <1>3, <1>14, <1>15, LedgerNext
<1>17. CellsInv'
  BY <1>0, <1>1 DEF CellsInv, CellOK
<1>18. RegistryInv'
  BY <1>0, <1>1 DEF RegistryInv, EntryOK, is_struct, def, Did
<1>19. FilledInv'
  BY <1>0, <1>1 DEF FilledInv, Alive, stopped, Did
<1> QED
  BY <1>3, <1>16, <1>17, <1>18, <1>19 DEF IInv

-----------------------------------------------------------------------------
(* A step that ends the translation of the function.                         *)

LEMMA FilledStays ==
  ASSUME FilledInv, Alive' => Alive, adt_deps' = adt_deps, adt_shims' = adt_shims,
         NEW same, same \subseteq DOMAIN cells, \A c \in same : cells'[c] = cells[c],
         \A c \in DOMAIN cells' \ same : cells'[c].filled = FALSE
  PROVE  FilledInv'
BY DEF FilledInv, Did

LEMMA StopNext ==
  ASSUME IInv, outcome = "none", TypeInv', CellsInv', RegistryInv', CellsGrow,
         tasks' = << >>, outcome' \in {"skipped", "fatal", "panic"},
         UNCHANGED <<uses, adt_shims, results, phase, layers>>,
         DOMAIN adt_deps \subseteq DOMAIN adt_deps',
         NEW D, \A d \in D : \E j \in DOMAIN tasks, c \in DOMAIN cells : At(tasks[j], c) /\ cells[c].adt = d,
         \A d \in Adt : is_registered_local_adt(d) /\ d \notin D => is_registered_local_adt(d)',
         outcome' = "skipped" =>
           /\ FilledInv'
           /\ \A d \in D : Did(d) \notin adt_shims
           /\ \A d \in DOMAIN enum_registry' : d \in DOMAIN enum_registry /\ ~Building(d)
  PROVE  IInv'
<1>0. /\ TypeInv /\ CellsInv /\ RegistryInv /\ LibrariesInv /\ ShimsInv /\ UsesInv
      /\ ResultsInv /\ ControlInv /\ Alive
  BY DEF IInv, Alive, ControlInv
<1>1. LoopInv'
  BY LoopEmpty
<1>2. LibrariesInv' /\ UsesInv'
  BY <1>0 DEF LibrariesInv, UsesInv, CellsGrow, Did
<1>3. ControlInv'
  BY <1>0 DEF ControlInv
<1>4. ResultsInv'
  <2>1. ASSUME NEW i \in DOMAIN results, NEW did \in results[i].uses
        PROVE  OfLibrary(did)' \/ Stable(did[1])'
    <3>1. PICK d \in Adt : d = did[1]
      BY <1>0, ResultUses
    <3>2. ASSUME Stable(d) PROVE Stable(d)'
      <4>1. d \notin D
        BY <3>2 DEF Stable
      <4>2. is_registered_local_adt(d)' /\ Did(d) \in adt_shims' /\ d \in DOMAIN adt_deps'
        BY <3>2, <4>1 DEF Stable
      <4> QED BY <4>2 DEF Stable, Did
    <3> QED BY <1>0, <3>1, <3>2 DEF ResultsInv, OfLibrary, CellsGrow, Did
  <2> QED BY <2>1 DEF ResultsInv
<1>5. CASE outcome' = "skipped"
  <2>1. ASSUME NEW d \in Adt, Did(d) \in adt_shims', d \notin crate'.shims
        PROVE  is_registered_local_adt(d)' /\ d \in DOMAIN adt_deps'
    <3>1. is_registered_local_adt(d) /\ d \in DOMAIN adt_deps /\ d \notin D
      BY <1>0, <1>5, <2>1 DEF ShimsInv, CellsGrow
    <3> QED BY <3>1
  <2>2. ASSUME NEW d \in DOMAIN enum_registry' PROVE Did(d) \in adt_shims'
    BY <1>0, <1>5, <2>2 DEF ShimsInv
  <2>3. ShimsInv'
    BY <2>1, <2>2 DEF ShimsInv, Did
  <2> QED BY <1>0, <1>1, <1>2, <1>3, <1>4, <1>5, <2>3 DEF IInv
<1>6. CASE outcome' \in {"fatal", "panic"}
  <2>1. FilledInv' /\ ShimsInv'
    BY <1>6 DEF FilledInv, ShimsInv, Alive
  <2> QED BY <1>0, <1>1, <1>2, <1>3, <1>4, <2>1 DEF IInv
<1> QED
  BY <1>5, <1>6

LEMMA PanicNext ==
  ASSUME IInv, outcome = "none", Panic, UNCHANGED <<results, phase, layers>>
  PROVE  IInv'
<1>0. /\ TypeInv /\ CellsInv /\ RegistryInv
      /\ crate' = crate /\ variant_registry' = variant_registry /\ enum_registry' = enum_registry
      /\ cells' = cells /\ adt_deps' = adt_deps /\ adt_shims' = adt_shims /\ uses' = uses
      /\ outcome' = "panic" /\ tasks' = << >>
      /\ results' = results /\ phase' = phase /\ layers' = layers
  BY DEF IInv, Panic, registry
<1>1. TypeInv'
  BY <1>0 DEF TypeInv
<1>2. CellsInv'
  BY <1>0 DEF CellsInv, CellOK
<1>3. RegistryInv'
  BY <1>0 DEF RegistryInv, EntryOK, is_struct, def, Did
<1>4. CellsGrow /\ \A d : is_registered_local_adt(d)' <=> is_registered_local_adt(d)
  BY <1>0 DEF CellsGrow, is_registered_local_adt, Did
<1>5. PICK D : D = {}
  OBVIOUS
<1>6. /\ \A d \in D : \E j \in DOMAIN tasks, c \in DOMAIN cells : At(tasks[j], c) /\ cells[c].adt = d
      /\ \A d \in Adt : is_registered_local_adt(d) /\ d \notin D => is_registered_local_adt(d)'
      /\ outcome' # "skipped" /\ outcome' \in {"skipped", "fatal", "panic"}
  BY <1>0, <1>4, <1>5
<1>7. DOMAIN adt_deps \subseteq DOMAIN adt_deps'
  BY <1>0
<1> HIDE DEF IInv
<1> QED
  BY <1>0, <1>1, <1>2, <1>3, <1>4, <1>6, <1>7, StopNext

(* The entries of the ADTs of failed cells are taken back.                   *)
Removes(failed) ==
  LET ds == {cells[c].adt : c \in failed}
  IN  /\ \A d \in Adt :
           /\ Did(d) \in DOMAIN variant_registry' <=>
                Did(d) \in DOMAIN variant_registry /\ ~(d \in ds /\ is_struct(d))
           /\ Did(d) \in DOMAIN variant_registry' =>
                variant_registry'[Did(d)] = variant_registry[Did(d)]
      /\ enum_registry' = Without(enum_registry, {d \in ds : ~is_struct(d)})

LEMMA FailRemoves ==
  ASSUME NEW failed, NEW how, Fail(failed, how)
  PROVE  Removes(failed) /\ tasks' = << >> /\ outcome' = how
<1> DEFINE ds == {cells[c].adt : c \in failed}
           S  == {Did(d) : d \in {e \in ds : is_struct(e)}}
<1>1. /\ variant_registry' = Without(variant_registry, S)
      /\ enum_registry' = Without(enum_registry, {d \in ds : ~is_struct(d)})
      /\ tasks' = << >> /\ outcome' = how
  BY DEF Fail
<1>2. \A d : Did(d) \in S <=> d \in ds /\ is_struct(d)
  BY DEF Did
<1>3. /\ DOMAIN variant_registry' = DOMAIN variant_registry \ S
      /\ \A x \in DOMAIN variant_registry' : variant_registry'[x] = variant_registry[x]
  <2> HIDE DEF S
  <2> QED BY <1>1 DEF Without
<1> HIDE DEF S
<1> QED
  BY <1>1, <1>2, <1>3 DEF Removes

LEMMA FailNext ==
  ASSUME IInv, outcome = "none", NEW how \in {"skipped", "fatal"}, NEW failed, Removes(failed),
         tasks' = << >>, outcome' = how,
         UNCHANGED <<crate, adt_shims, uses, results, phase, layers>>,
         cells' \in Seq(Cell), \A d \in DOMAIN adt_deps' : d \in Adt /\ adt_deps'[d] \subseteq Adt,
         CellsInv', CellsGrow, DOMAIN adt_deps \subseteq DOMAIN adt_deps',
         \A c \in failed : c \in DOMAIN cells /\ \E j \in DOMAIN tasks : At(tasks[j], c),
         how = "skipped" =>
           /\ FilledInv'
           /\ \A c \in failed : Did(cells[c].adt) \notin adt_shims
           /\ \A j \in DOMAIN tasks : tasks[j].k = "build_enum" => tasks[j].cell \in failed
  PROVE  IInv'
<1>0. /\ TypeInv /\ CellsInv /\ RegistryInv /\ TasksInv
  BY DEF IInv, LoopInv, StackInv
<1>1. PICK D : D = {cells[c].adt : c \in failed}
  OBVIOUS
<1>2. /\ \A d \in Adt :
           /\ Did(d) \in DOMAIN variant_registry' <=>
                Did(d) \in DOMAIN variant_registry /\ ~(d \in D /\ is_struct(d))
           /\ Did(d) \in DOMAIN variant_registry' =>
                variant_registry'[Did(d)] = variant_registry[Did(d)]
      /\ enum_registry' = Without(enum_registry, {d \in D : ~is_struct(d)})
  BY <1>1 DEF Removes
<1>3. \A d : /\ d \in DOMAIN enum_registry' <=> d \in DOMAIN enum_registry /\ ~(d \in D /\ ~is_struct(d))
             /\ d \in DOMAIN enum_registry' => enum_registry'[d] = enum_registry[d]
  BY <1>2 DEF Without
<1>4. TypeInv'
  BY <1>0 DEF TypeInv
<1>5. RegistryInv'
  <2>1. RegistryStep
    BY <1>2, <1>3 DEF RegistryStep
  <2> QED BY <1>0, <2>1, RegistryNext
<1>6. \A d \in D : \E j \in DOMAIN tasks, c \in DOMAIN cells : At(tasks[j], c) /\ cells[c].adt = d
  BY <1>1
<1>7. \A d \in Adt : is_registered_local_adt(d) /\ d \notin D => is_registered_local_adt(d)'
  BY <1>2, <1>3 DEF is_registered_local_adt, Did
<1>8. ASSUME how = "skipped", NEW d \in DOMAIN enum_registry'
      PROVE  d \in DOMAIN enum_registry /\ ~Building(d)
  <2>1. d \in DOMAIN enum_registry /\ ~(d \in D /\ ~is_struct(d))
    BY <1>3, <1>8
  <2>2. ASSUME Building(d) PROVE FALSE
    <3>1. PICK i \in DOMAIN tasks, c \in DOMAIN cells : Builds(tasks[i], c) /\ cells[c].adt = d
      BY <2>2 DEF Building
    <3>2. d \in Adt /\ ~is_struct(d)
      BY <1>0, <2>1, <3>1, CellParts DEF RegistryInv
    <3>3. TaskOK(tasks[i])
      BY <1>0 DEF TasksInv
    <3>4. tasks[i].k = "build_enum" /\ tasks[i].cell = c
      BY <3>1, <3>2, <3>3 DEF Builds, TaskOK
    <3>5. d \in D
      BY <1>1, <1>8, <3>1, <3>4
    <3> QED BY <2>1, <3>2, <3>5
  <2> QED BY <2>1, <2>2
<1>9. how = "skipped" => \A d \in D : Did(d) \notin adt_shims
  BY <1>1
<1> HIDE DEF IInv
<1> QED
  BY <1>4, <1>5, <1>6, <1>7, <1>8, <1>9, StopNext

\* When only the entries are taken back and nothing else is touched.
LEMMA SkipNext ==
  ASSUME IInv, outcome = "none", NEW how \in {"skipped", "fatal"}, NEW failed, Fail(failed, how),
         UNCHANGED <<crate, cells, adt_deps, adt_shims, uses, results, phase, layers>>,
         \A c \in failed : c \in DOMAIN cells /\ \E j \in DOMAIN tasks : At(tasks[j], c),
         how = "skipped" =>
           /\ \A c \in failed : Did(cells[c].adt) \notin adt_shims
           /\ \A j \in DOMAIN tasks : tasks[j].k = "build_enum" => tasks[j].cell \in failed
  PROVE  IInv'
<1>0. TypeInv /\ CellsInv /\ FilledInv /\ ControlInv
  BY DEF IInv
<1>1. Removes(failed) /\ tasks' = << >> /\ outcome' = how
  BY FailRemoves
<1>2. /\ cells' \in Seq(Cell) /\ \A d \in DOMAIN adt_deps' : d \in Adt /\ adt_deps'[d] \subseteq Adt
      /\ CellsInv' /\ CellsGrow /\ DOMAIN adt_deps \subseteq DOMAIN adt_deps'
  BY <1>0 DEF TypeInv, CellsInv, CellOK, CellsGrow
<1>3. FilledInv'
  BY <1>0 DEF FilledInv, Alive, ControlInv, stopped, Did
<1> HIDE DEF IInv
<1> QED
  BY <1>1, <1>2, <1>3, FailNext

\* An ADT with a literal that is entered and built again.
LEMMA SecondTime ==
  ASSUME IInv, outcome = "none", tasks # << >>, NEW j \in DOMAIN tasks, NEW c \in DOMAIN cells,
         At(tasks[j], c), Did(cells[c].adt) \in adt_shims, NEW d, d = cells[c].adt
  PROVE  \E S \in SUBSET Types, M \in SUBSET Adt :
           /\ SoundDef(d, S, M)
           /\ Builds(tasks[j], c) => cells[c].deps \subseteq M
           /\ Builds(tasks[j], c) /\ j # 1 => Harmless(tasks[1], c, S, M)
<1>1. SecondInv /\ 1 \in DOMAIN tasks
  BY AtHand DEF IInv, LoopInv
<1>2. PICK S \in SUBSET Types, M \in SUBSET Adt :
        /\ SoundDef(cells[c].adt, S, M)
        /\ Builds(tasks[j], c) => HarmlessAbove(j, c, S, M)
  BY <1>1 DEF SecondInv
<1>3. j # 1 => 1 < j
  BY DEF IInv, TypeInv
<1>4. Builds(tasks[j], c) /\ j # 1 => Harmless(tasks[1], c, S, M)
  BY <1>1, <1>2, <1>3 DEF HarmlessAbove
<1> QED
  BY <1>2, <1>4 DEF HarmlessAbove

LEMMA PendingAre ==
  ASSUME IInv, NEW c \in Pending(tasks)
  PROVE  c \in DOMAIN cells /\ \E j \in DOMAIN tasks : Builds(tasks[j], c)
<1>1. PICK j \in DOMAIN tasks : tasks[j].k \in {"build_struct", "build_enum"} /\ c = tasks[j].cell
  BY DEF Pending
<1>2. TaskOK(tasks[j])
  BY DEF IInv, LoopInv, StackInv, TasksInv
<1> QED
  BY <1>1, <1>2 DEF Builds, TaskOK

LEMMA TailPendingAre ==
  ASSUME IInv, outcome = "none", tasks # << >>
  PROVE  /\ \A c \in Pending(Tail(tasks)) :
              c \in DOMAIN cells /\ \E j \in DOMAIN tasks : j # 1 /\ Builds(tasks[j], c)
         /\ \A j \in DOMAIN tasks : j # 1 /\ tasks[j].k \in {"build_struct", "build_enum"} =>
              tasks[j].cell \in Pending(Tail(tasks))
<1>1. tasks \in Seq(Task) /\ TasksInv
  BY DEF IInv, TypeInv, LoopInv, StackInv
<1>2. /\ \A j \in DOMAIN Tail(tasks) : /\ j + 1 \in DOMAIN tasks /\ j + 1 # 1
                                       /\ Tail(tasks)[j] = tasks[j + 1]
      /\ \A j \in DOMAIN tasks : j # 1 => /\ j - 1 \in DOMAIN Tail(tasks)
                                          /\ Tail(tasks)[j - 1] = tasks[j]
  BY <1>1
<1>3. ASSUME NEW c \in Pending(Tail(tasks))
      PROVE  c \in DOMAIN cells /\ \E j \in DOMAIN tasks : j # 1 /\ Builds(tasks[j], c)
  <2>1. PICK i \in DOMAIN Tail(tasks) :
          Tail(tasks)[i].k \in {"build_struct", "build_enum"} /\ c = Tail(tasks)[i].cell
    BY DEF Pending
  <2>2. PICK j \in DOMAIN tasks : j # 1 /\ tasks[j] = Tail(tasks)[i]
    BY <1>2
  <2>3. TaskOK(tasks[j])
    BY <1>1 DEF TasksInv
  <2> QED BY <2>1, <2>2, <2>3 DEF Builds, TaskOK
<1>4. ASSUME NEW j \in DOMAIN tasks, j # 1, tasks[j].k \in {"build_struct", "build_enum"}
      PROVE  tasks[j].cell \in Pending(Tail(tasks))
  <2>1. PICK i \in DOMAIN Tail(tasks) : Tail(tasks)[i] = tasks[j]
    BY <1>2, <1>4
  <2> QED BY <1>4, <2>1 DEF Pending
<1> QED
  BY <1>3, <1>4

-----------------------------------------------------------------------------
(* translate_type_in_state.                                                  *)

LEMMA TaskParts ==
  ASSUME NEW t \in Task
  PROVE  /\ t.k = "type" => t.ty \in Types /\ t.ctx \in Ctx
         /\ t.k = "use" => t.adt \in Adt /\ t.ctx \in Ctx
         /\ t.k = "register" => t.adt \in Adt
         /\ t.k = "construct" => t.did \in Adt \X Nat
         /\ t.k \in {"enter", "field", "variant", "build_struct", "build_enum", "build_variant"} =>
              t.cell \in Nat
         /\ t.k \in {"variant", "build_variant"} => t.i \in Nat
         /\ t.k = "field" => t.annotated \in BOOLEAN
BY DEF Task

LEMMA CtxParts ==
  ASSUME NEW x \in Ctx
  PROVE  x.k \in {"function", "adt", "bounds"} /\ x.cell \in Nat
BY DEF Ctx

rest == <<results, phase, layers>>

LEMMA TranslateUnsupportedNext ==
  ASSUME IInv, TranslateUnsupported, UNCHANGED rest
  PROVE  IInv'
<1>1. /\ outcome = "none" /\ tasks # << >> /\ Head(tasks).k = "type"
      /\ Head(tasks).ty.k = "unsupported" /\ Fail(Pending(tasks), "skipped")
      /\ UNCHANGED <<crate, cells, adt_deps, adt_shims, uses, results, phase, layers>>
  BY DEF TranslateUnsupported, Top, task, rest
<1>2. tasks[1].k = "type" /\ tasks[1].ty.k = "unsupported"
  BY <1>1, AtHand DEF task
<1>3. ASSUME NEW c \in Pending(tasks)
      PROVE  /\ c \in DOMAIN cells /\ \E j \in DOMAIN tasks : At(tasks[j], c)
             /\ Did(cells[c].adt) \notin adt_shims
  <2>1. PICK j \in DOMAIN tasks : Builds(tasks[j], c)
    BY PendingAre
  <2>2. c \in DOMAIN cells /\ At(tasks[j], c) /\ j # 1
    BY <1>2, <2>1, PendingAre DEF At, Builds
  <2>3. ASSUME Did(cells[c].adt) \in adt_shims PROVE FALSE
    <3>1. PICK d : d = cells[c].adt
      OBVIOUS
    <3>2. PICK S \in SUBSET Types, M \in SUBSET Adt :
            SoundDef(d, S, M) /\ Harmless(tasks[1], c, S, M)
      BY <1>1, <2>1, <2>2, <2>3, <3>1, SecondTime
    <3> QED BY <1>2, <3>2 DEF SoundDef, Harmless
  <2> QED BY <2>2, <2>3
<1>4. \A j \in DOMAIN tasks : tasks[j].k = "build_enum" => tasks[j].cell \in Pending(tasks)
  BY DEF Pending
<1>5. PICK failed : failed = Pending(tasks)
  OBVIOUS
<1> HIDE DEF IInv
<1> QED
  BY <1>1, <1>3, <1>4, <1>5, SkipNext

LEMMA TranslateCompoundNext ==
  ASSUME IInv, TranslateCompound, UNCHANGED rest
  PROVE  IInv'
<1>0. /\ outcome = "none" /\ tasks # << >> /\ Head(tasks).k = "type"
      /\ Head(tasks).ty.k \in {"simple", "compound", "reference"}
      /\ tasks' = TypeTasks(Head(tasks).ty.args, Head(tasks).ctx) \o Tail(tasks)
      /\ UNCHANGED <<crate, registry, uses, outcome, results, phase, layers>>
  BY DEF TranslateCompound, Top, task, rest, Push
<1>1. PICK t \in Task : t = tasks[1]
  BY <1>0, AtHand
<1>2. /\ t.k = "type" /\ t.ty.k \in {"simple", "compound", "reference"} /\ TaskOK(t)
      /\ tasks' = TypeTasks(t.ty.args, t.ctx) \o Tail(tasks)
  BY <1>0, <1>1, AtHand DEF task
<1>3. t.ty \in Types /\ t.ctx \in Ctx /\ t.ty.args \in Seq(Types)
  BY <1>2, TaskParts, TypesAssumption
<1>4. PICK p : p = TypeTasks(t.ty.args, t.ctx)
  OBVIOUS
<1>5. p \in Seq(Task) /\ DOMAIN p = DOMAIN t.ty.args
  BY <1>3, <1>4, TypeTasksAre
<1>6. \A i \in DOMAIN p : p[i].k = "type" /\ p[i].ty = t.ty.args[i] /\ p[i].ctx = t.ctx
  BY <1>3, <1>4, TypeTasksAre
<1>7. \A i \in DOMAIN p : \A c : Inside(p[i], c) <=> Inside(t, c)
  BY <1>2, <1>6 DEF Inside
<1>8. QuietPush(p, t)
  <2>1. \A i \in DOMAIN p : /\ TaskOK(p[i]) /\ p[i].k \notin {"enter", "build_struct", "build_enum"}
                            /\ OfFunction(p[i]) => OfFunction(t)
    BY <1>2, <1>6 DEF TaskOK, OfFunction
  <2>2. \A c \in DOMAIN cells : Inside(t, c) =>
          \A a \in DOMAIN t.ty.args : \E h \in DOMAIN p : AwaitsType(p[h], c, t.ty.args[a])
    BY <1>5, <1>6, <1>7 DEF AwaitsType
  <2>3. \A c \in DOMAIN cells, S \in SUBSET Types, M \in SUBSET Adt :
          SoundDef(cells[c].adt, S, M) /\ Harmless(t, c, S, M) =>
            \A h \in DOMAIN p : Harmless(p[h], c, S, M)
    BY <1>2, <1>5, <1>6, <1>7 DEF SoundDef, Harmless
  <2>4. p \in Seq(Task) /\ tasks' = p \o Tail(tasks) /\ t = tasks[1]
    BY <1>1, <1>2, <1>4, <1>5
  <2>5. UNCHANGED <<crate, registry, outcome, results, phase, layers>>
    BY <1>0
  <2>6. \A i \in DOMAIN p, c \in DOMAIN cells : Inside(p[i], c) => Inside(t, c)
    BY ONLY <1>7
  <2>7. \A i \in DOMAIN p : p[i].k \notin {"use", "construct"}
    BY ONLY <1>6
  <2>8. t.k = "type" /\ t.ty.k # "unsupported" /\ t.ty.k # "adt"
    BY ONLY <1>2
  <2> QED
    BY ONLY <2>1, <2>2, <2>3, <2>4, <2>5, <2>6, <2>7, <2>8 DEF QuietPush
<1>9. uses' \subseteq Adt \X Nat /\ UsesInv'
  BY <1>0 DEF IInv, TypeInv, UsesInv, registry, Did
<1> HIDE DEF IInv
<1> QED
  BY <1>0, <1>8, <1>9, QuietNext

(* The ADT comes first, then its arguments, and then its use.               *)
UseTasksOf(p, R, T, x) ==
  /\ p \in Seq(Task)
  /\ \A i \in DOMAIN R : i \in DOMAIN p /\ p[i] = R[i] /\ i < Len(p)
  /\ \A a \in DOMAIN T : \E i \in DOMAIN p : p[i] = T[a]
  /\ Len(p) \in DOMAIN p /\ p[Len(p)] = x
  /\ \A i \in DOMAIN p : \/ i \in DOMAIN R /\ p[i] = R[i]
                         \/ \E a \in DOMAIN T : p[i] = T[a]
                         \/ i = Len(p) /\ p[i] = x

LEMMA UseTasks ==
  ASSUME NEW R \in Seq(Task), NEW T \in Seq(Task), NEW x \in Task, NEW p, p = (R \o T) \o <<x>>
  PROVE  UseTasksOf(p, R, T, x)
<1> DEFINE s == R \o T
<1>1. /\ s \in Seq(Task)
      /\ \A i \in DOMAIN R : i \in DOMAIN s /\ s[i] = R[i]
      /\ \A a \in DOMAIN T : \E i \in DOMAIN s : s[i] = T[a]
      /\ \A i \in DOMAIN s : \/ i \in DOMAIN R /\ s[i] = R[i]
                             \/ \E a \in DOMAIN T : s[i] = T[a]
  <2>1. /\ s \in Seq(Task)
        /\ \A i \in DOMAIN R : i \in DOMAIN s /\ s[i] = R[i]
        /\ \A a \in DOMAIN T : Len(R) + a \in DOMAIN s /\ s[Len(R) + a] = T[a]
        /\ \A i \in DOMAIN s : i \in DOMAIN R \/ \E a \in DOMAIN T : i = Len(R) + a
    BY Joined
  <2> HIDE DEF s
  <2> QED BY <2>1
<1>2. p = s \o <<x>>
  OBVIOUS
<1> HIDE DEF s
<1>a. Ends(p, s, x)
  BY <1>1, <1>2, WithLast
<1>3. /\ p \in Seq(Task)
      /\ Len(p) \in DOMAIN p /\ p[Len(p)] = x
      /\ \A i \in DOMAIN s : i \in DOMAIN p /\ p[i] = s[i] /\ i < Len(p)
      /\ \A i \in DOMAIN p : i \in DOMAIN s \/ i = Len(p)
  BY <1>a DEF Ends
<1>4. \A a \in DOMAIN T : \E i \in DOMAIN p : p[i] = T[a]
  BY ONLY <1>1, <1>3
<1>5. \A i \in DOMAIN R : i \in DOMAIN p /\ p[i] = R[i] /\ i < Len(p)
  BY ONLY <1>1, <1>3
<1>6. \A i \in DOMAIN p : \/ i \in DOMAIN R /\ p[i] = R[i]
                          \/ \E a \in DOMAIN T : p[i] = T[a]
                          \/ i = Len(p) /\ p[i] = x
  BY ONLY <1>1, <1>3
<1> QED
  BY <1>3, <1>4, <1>5, <1>6 DEF UseTasksOf

LEMMA TranslateAdtUseNext ==
  ASSUME IInv, TranslateAdtUse, UNCHANGED rest
  PROVE  IInv'
<1>0. /\ outcome = "none" /\ tasks # << >> /\ Head(tasks).k = "type"
      /\ UNCHANGED <<crate, registry, uses, outcome, results, phase, layers>>
  BY DEF TranslateAdtUse, Top, task, rest
<1>1. PICK t \in Task : t = tasks[1] /\ t = task
  BY <1>0, AtHand
<1>2. /\ t.k = "type" /\ t.ty.k = "adt" /\ TaskOK(t)
      /\ tasks' = ((IF is_registered_remote_adt(t.ty.adt) THEN << >>
                    ELSE <<[k |-> "register", adt |-> t.ty.adt]>>)
                     \o TypeTasks(t.ty.args, t.ctx)
                     \o <<[k |-> "use", adt |-> t.ty.adt, ctx |-> t.ctx]>>) \o Tail(tasks)
  BY <1>0, <1>1, AtHand DEF TranslateAdtUse, Top, Push, task
<1>3. t.ty \in Types /\ t.ctx \in Ctx /\ t.ty.args \in Seq(Types) /\ t.ty.adt \in Adt
  BY <1>2, TaskParts, TypesAssumption
<1>4. PICK d \in Adt : d = t.ty.adt
  BY <1>3
<1>5. PICK R, T, x :
        /\ R = IF is_registered_remote_adt(d) THEN << >> ELSE <<[k |-> "register", adt |-> d]>>
        /\ T = TypeTasks(t.ty.args, t.ctx)
        /\ x = [k |-> "use", adt |-> d, ctx |-> t.ctx]
  OBVIOUS
<1>6. PICK p : p = (R \o T) \o <<x>>
  OBVIOUS
<1>7. /\ T \in Seq(Task) /\ DOMAIN T = DOMAIN t.ty.args
      /\ \A i \in DOMAIN T : T[i].k = "type" /\ T[i].ty = t.ty.args[i] /\ T[i].ctx = t.ctx
  BY <1>3, <1>5, TypeTasksAre
<1>8. x \in Task /\ x.k = "use" /\ x.adt = d /\ x.ctx = t.ctx
  BY <1>3, <1>5 DEF Task
<1>9. /\ R \in Seq(Task)
      /\ \A i \in DOMAIN R : R[i].k = "register" /\ R[i].adt = d
      /\ is_registered_remote_adt(d) \/ \E i \in DOMAIN R : R[i].k = "register" /\ R[i].adt = d
  <2>1. CASE is_registered_remote_adt(d)
    BY <1>5, <2>1
  <2>2. CASE ~is_registered_remote_adt(d)
    <3>1. PICK r : r = [k |-> "register", adt |-> d]
      OBVIOUS
    <3>2. r \in Task /\ r.k = "register" /\ r.adt = d
      BY <3>1 DEF Task
    <3>3. R = <<r>>
      BY <1>5, <2>2, <3>1
    <3>4. 1 \in DOMAIN R /\ R[1] = r /\ R \in Seq(Task) /\ \A i \in DOMAIN R : R[i] = r
      BY <3>2, <3>3
    <3> QED BY <3>2, <3>4
  <2> QED BY <2>1, <2>2
<1>10. /\ p \in Seq(Task)
       /\ \A i \in DOMAIN R : i \in DOMAIN p /\ p[i] = R[i] /\ i < Len(p)
       /\ \A a \in DOMAIN T : \E i \in DOMAIN p : p[i] = T[a]
       /\ Len(p) \in DOMAIN p /\ p[Len(p)] = x
       /\ \A i \in DOMAIN p : \/ i \in DOMAIN R /\ p[i] = R[i]
                              \/ \E a \in DOMAIN T : p[i] = T[a]
                              \/ i = Len(p) /\ p[i] = x
  <2>1. UseTasksOf(p, R, T, x)
    BY <1>6, <1>7, <1>8, <1>9, UseTasks
  <2> QED BY <2>1 DEF UseTasksOf
<1>11. ASSUME NEW i \in DOMAIN p
       PROVE  \/ p[i].k = "register" /\ p[i].adt = d
              \/ /\ p[i].k = "type" /\ p[i].ctx = t.ctx
                 /\ \E a \in DOMAIN t.ty.args : p[i].ty = t.ty.args[a]
              \/ p[i].k = "use" /\ p[i].ctx = t.ctx /\ p[i].adt = d /\ i = Len(p)
  <2>1. CASE i \in DOMAIN R /\ p[i] = R[i]
    BY <1>9, <2>1
  <2>2. CASE \E a \in DOMAIN T : p[i] = T[a]
    <3>1. PICK a \in DOMAIN t.ty.args : p[i] = T[a]
      BY <1>7, <2>2
    <3>2. p[i].k = "type" /\ p[i].ctx = t.ctx /\ p[i].ty = t.ty.args[a]
      BY <1>7, <3>1
    <3> QED BY <3>2
  <2>3. CASE i = Len(p) /\ p[i] = x
    BY <1>8, <2>3
  <2> QED BY <1>10, <2>1, <2>2, <2>3
<1>12. /\ \A i \in DOMAIN p : \A c : Inside(p[i], c) => Inside(t, c)
       /\ \A i \in DOMAIN p : \A c : p[i].k \in {"type", "use"} /\ Inside(t, c) => Inside(p[i], c)
  BY <1>2, <1>11 DEF Inside
<1>13. QuietPush(p, t)
  <2>1. \A i \in DOMAIN p : /\ TaskOK(p[i]) /\ p[i].k \notin {"enter", "build_struct", "build_enum"}
                            /\ OfFunction(p[i]) => OfFunction(t)
    BY <1>2, <1>11 DEF TaskOK, OfFunction
  <2>2. ASSUME NEW c \in DOMAIN cells, Inside(t, c)
        PROVE  /\ \A a \in DOMAIN t.ty.args : \E h \in DOMAIN p : AwaitsType(p[h], c, t.ty.args[a])
               /\ \E h \in DOMAIN p : AwaitsUse(p[h], c, t.ty.adt)
    <3>1. ASSUME NEW a \in DOMAIN t.ty.args
          PROVE  \E h \in DOMAIN p : AwaitsType(p[h], c, t.ty.args[a])
      <4>1. PICK i \in DOMAIN p : p[i] = T[a]
        BY <1>7, <1>10
      <4>2. p[i].k = "type" /\ p[i].ty = t.ty.args[a]
        BY <1>7, <4>1
      <4> QED BY <1>12, <2>2, <4>2 DEF AwaitsType
    <3>2. AwaitsUse(p[Len(p)], c, t.ty.adt)
      BY <1>4, <1>8, <1>10, <1>12, <2>2 DEF AwaitsUse
    <3> QED BY <1>10, <3>1, <3>2
  <2>3. \A c \in DOMAIN cells, S \in SUBSET Types, M \in SUBSET Adt :
          SoundDef(cells[c].adt, S, M) /\ Harmless(t, c, S, M) =>
            \A h \in DOMAIN p : Harmless(p[h], c, S, M)
    <3>1. ASSUME NEW c \in DOMAIN cells, NEW S \in SUBSET Types, NEW M \in SUBSET Adt,
                 SoundDef(cells[c].adt, S, M), Harmless(t, c, S, M), NEW h \in DOMAIN p
          PROVE  Harmless(p[h], c, S, M)
      <4>1. Inside(t, c) /\ t.ty \in S
        BY <1>2, <3>1 DEF Harmless
      <4>2. d \in M /\ \A a \in DOMAIN t.ty.args : t.ty.args[a] \in S
        BY <1>2, <1>4, <3>1, <4>1 DEF SoundDef
      <4> QED BY <1>11, <1>12, <4>1, <4>2 DEF Harmless
    <3> QED BY <3>1
  <2>4. ASSUME NEW i \in DOMAIN p, p[i].k \in {"use", "construct"}
        PROVE  \/ is_registered_adt(UsedAdt(p[i]))
               \/ \E j \in DOMAIN p : j < i /\ Registers(p[j], UsedAdt(p[i]))
    <3>1. i = Len(p) /\ UsedAdt(p[i]) = d
      BY <1>11, <2>4 DEF UsedAdt
    <3>2. CASE is_registered_remote_adt(d)
      BY <3>1, <3>2 DEF is_registered_remote_adt, is_registered_adt
    <3>3. CASE \E j \in DOMAIN R : R[j].k = "register" /\ R[j].adt = d
      BY <1>10, <3>1, <3>3 DEF Registers
    <3> QED BY <1>9, <3>2, <3>3
  <2>5. tasks' = p \o Tail(tasks)
    BY <1>2, <1>4, <1>5, <1>6
  <2> QED
    BY <1>0, <1>1, <1>2, <1>10, <1>12, <2>1, <2>2, <2>3, <2>4, <2>5 DEF QuietPush
<1>14. uses' \subseteq Adt \X Nat /\ UsesInv'
  BY <1>0 DEF IInv, TypeInv, UsesInv, registry, Did
<1> HIDE DEF IInv
<1> QED
  BY <1>0, <1>13, <1>14, QuietNext

-----------------------------------------------------------------------------
(* Tasks that are done without others.                                       *)

LEMMA QuietPop ==
  ASSUME IInv, outcome = "none", tasks # << >>, NEW t \in Task, t = tasks[1],
         tasks' = << >> \o Tail(tasks),
         UNCHANGED <<crate, registry, outcome, results, phase, layers>>,
         t.k \in {"use", "register", "construct"},
         t.k = "use" => t.ctx.k = "function", t.k = "register" => is_registered_adt(t.adt),
         uses' \subseteq Adt \X Nat, UsesInv'
  PROVE  IInv'
<1>1. PICK p : p = << >>
  OBVIOUS
<1>2. p \in Seq(Task) /\ DOMAIN p = {} /\ tasks' = p \o Tail(tasks)
  BY <1>1
<1>3. QuietPush(p, t)
  BY <1>2 DEF QuietPush
<1> HIDE DEF IInv
<1> QED
  BY <1>3, QuietNext

LEMMA UseInFunctionNext ==
  ASSUME IInv, UseInFunction, UNCHANGED rest
  PROVE  IInv'
<1>1. outcome = "none" /\ tasks # << >> /\ Head(tasks).k = "use" /\ Head(tasks).ctx.k = "function"
  BY DEF UseInFunction, Top, task
<1>2. PICK t \in Task : t = tasks[1] /\ t = task
  BY <1>1, AtHand
<1>3. t.k = "use" /\ t.ctx.k = "function" /\ t.adt \in Adt
  BY <1>1, <1>2, TaskParts DEF task
<1>4. CASE Did(t.adt) \in adt_shims
  <2>1. /\ uses' = uses \cup {Did(t.adt)} /\ tasks' = << >> \o Tail(tasks)
        /\ UNCHANGED <<crate, registry, outcome, results, phase, layers>>
    BY <1>2, <1>4 DEF UseInFunction, Push, rest
  <2>2. uses' \subseteq Adt \X Nat
    BY <1>3, <2>1 DEF IInv, TypeInv, Did
  <2>3. UsesInv'
    <3>1. adt_shims' = adt_shims /\ UsesInv
      BY <2>1 DEF registry, IInv
    <3>2. PICK d : d = t.adt
      OBVIOUS
    <3>3. Did(d)[1] = d /\ Did(d) \in adt_shims
      BY <1>4, <3>2 DEF Did
    <3>4. Did(Did(d)[1]) = Did(d)
      BY <3>3 DEF Did
    <3> QED BY <2>1, <3>1, <3>2, <3>3, <3>4 DEF UsesInv, Did
  <2> HIDE DEF IInv
  <2> QED BY <1>1, <1>2, <1>3, <2>1, <2>2, <2>3, QuietPop
<1>5. CASE Did(t.adt) \notin adt_shims
  <2>1. Panic /\ UNCHANGED <<results, phase, layers>>
    BY <1>2, <1>5 DEF UseInFunction, rest
  <2> HIDE DEF IInv
  <2> QED BY <1>1, <2>1, PanicNext
<1> QED
  BY <1>4, <1>5

\* An ADT that a function refers to by one of its literals has its own.
LEMMA ConstructNext ==
  ASSUME IInv, Construct, UNCHANGED rest
  PROVE  IInv'
<1>1. outcome = "none" /\ tasks # << >> /\ Head(tasks).k = "construct"
  BY DEF Construct, Top, task
<1>2. PICK t \in Task : t = tasks[1] /\ t = task
  BY <1>1, AtHand
<1>3. t.k = "construct" /\ t.did \in Adt \X Nat /\ TaskOK(t) /\ 1 \in DOMAIN tasks
  BY <1>1, <1>2, TaskParts, AtHand DEF task
<1>4. CASE t.did \in adt_shims
  <2>1. /\ uses' = uses \cup {t.did} /\ tasks' = << >> \o Tail(tasks)
        /\ UNCHANGED <<crate, registry, outcome, results, phase, layers>>
    BY <1>2, <1>4 DEF Construct, Push, rest
  <2>2. uses' \subseteq Adt \X Nat
    BY <1>3, <2>1 DEF IInv, TypeInv
  <2>3. PICK d \in Adt : d = t.did[1]
    BY <1>3
  <2>4. Did(d) \in adt_shims
    <3>1. CASE is_struct(d)
      <4>1. t.did[2] = 0
        BY <1>3, <2>3, <3>1 DEF TaskOK
      <4>2. t.did = Did(d)
        BY <1>3, <2>3, <4>1 DEF Did
      <4> QED BY <1>4, <4>2
    <3>2. CASE ~is_struct(d)
      <4>1. is_registered_adt(d)
        <5>1. \/ is_registered_adt(UsedAdt(tasks[1]))
              \/ \E j \in DOMAIN tasks : j < 1 /\ Registers(tasks[j], UsedAdt(tasks[1]))
          BY <1>2, <1>3 DEF IInv, LoopInv, UsesRegistered
        <5>2. UsedAdt(tasks[1]) = d
          BY <1>2, <1>3, <2>3 DEF UsedAdt
        <5> QED BY <1>1, <5>1, <5>2, AtHand
      <4>2. CASE d \in DOMAIN enum_registry
        <5>1. ~Building(d)
          <6> SUFFICES ASSUME NEW j \in DOMAIN tasks, NEW c \in DOMAIN cells,
                              Builds(tasks[j], c)
                       PROVE  FALSE
            BY DEF Building
          <6>1. j # 1
            BY <1>2, <1>3 DEF Builds
          <6>2. 1 < j
            BY <6>1 DEF IInv, TypeInv
          <6>3. OfFunction(tasks[1])
            BY <1>2, <1>3 DEF OfFunction
          <6> QED BY <1>3, <6>2, <6>3 DEF IInv, LoopInv, StackInv, FunctionsLast
        <5>2. Alive
          BY <1>1, AtHand
        <5> QED BY <4>2, <5>1, <5>2 DEF IInv, ShimsInv
      <4>3. ASSUME d \notin DOMAIN enum_registry PROVE Did(d) \in adt_shims
        BY <3>2, <4>1, <4>3 DEF IInv, RegistryInv, is_registered_adt, is_registered_local_adt
      <4> QED BY <4>2, <4>3
    <3> QED BY <3>1, <3>2
  <2>5. UsesInv'
    <3>1. adt_shims' = adt_shims /\ UsesInv
      BY <2>1 DEF registry, IInv
    <3> QED BY <1>4, <2>1, <2>3, <2>4, <3>1 DEF UsesInv, Did
  <2> HIDE DEF IInv
  <2> QED BY <1>1, <1>2, <1>3, <2>1, <2>2, <2>5, QuietPop
<1>5. CASE t.did \notin adt_shims
  <2>1. /\ Fail({}, "fatal")
        /\ UNCHANGED <<crate, cells, adt_deps, adt_shims, uses, results, phase, layers>>
    BY <1>2, <1>5 DEF Construct, rest
  <2>2. PICK failed, how : failed = {} /\ how = "fatal"
    OBVIOUS
  <2>3. /\ how \in {"skipped", "fatal"} /\ how # "skipped" /\ Fail(failed, how)
        /\ \A c \in failed : c \in DOMAIN cells /\ \E j \in DOMAIN tasks : At(tasks[j], c)
    BY <2>1, <2>2
  <2> HIDE DEF IInv
  <2> QED BY <1>1, <2>1, <2>3, SkipNext
<1> QED
  BY <1>4, <1>5

LEMMA PopNext ==
  ASSUME IInv, outcome = "none", tasks # << >>, NEW t \in Task, t = tasks[1],
         tasks' = << >> \o Tail(tasks),
         UNCHANGED <<crate, variant_registry, enum_registry, uses, outcome, results, phase, layers>>,
         t.k \in {"use", "field", "build_struct", "build_variant", "build_enum"},
         cells' \in Seq(Cell), \A d \in DOMAIN adt_deps' : d \in Adt /\ adt_deps'[d] \subseteq Adt,
         CellsInv', FilledInv', CellsGrow, CellsStep,
         adt_shims \subseteq adt_shims', DOMAIN adt_deps \subseteq DOMAIN adt_deps',
         \A c \in DOMAIN cells, e \in Adt : AwaitsUse(t, c, e) => e \in cells'[c].deps,
         NewShims(t),
         \A did \in adt_shims' \ adt_shims : did[1] \notin crate.shims,
         \A d \in Adt : Did(d) \in adt_shims' \ adt_shims => d \in DOMAIN adt_deps',
         \A c \in DOMAIN cells : Builds(t, c) => Did(cells[c].adt) \in adt_shims'
  PROVE  IInv'
<1>0. TypeInv /\ RegistryInv /\ UsesInv
  BY DEF IInv
<1>1. PICK p : p = << >>
  OBVIOUS
<1>2. p \in Seq(Task) /\ DOMAIN p = {} /\ tasks' = p \o Tail(tasks)
  BY <1>1
<1>3. tasks' \in Seq(Task)
  BY <1>0, <1>2, PushedAt DEF TypeInv, Pushed
<1>4. TypeInv'
  BY <1>0, <1>3 DEF TypeInv
<1>5. Grows
  <2>1. \A d \in Adt : is_registered_local_adt(d) => is_registered_local_adt(d)'
    BY DEF is_registered_local_adt, Did
  <2> QED BY <2>1 DEF Grows
<1>6. Pushes(p)
  BY <1>2 DEF Pushes
<1>7. Registering(p, t)
  BY <1>2 DEF Registering, Registers
<1>8. Serving(p, t)
  BY <1>2 DEF Serving
<1>9. VariantsStay(t) /\ StaysHarmless(p, t)
  BY <1>2 DEF VariantsStay, StaysHarmless
<1>10. PushStep(p, t)
  BY <1>5, <1>6, <1>7, <1>8, <1>9 DEF PushStep
<1>11. LedgerStep(p, t)
  BY DEF LedgerStep
<1>12. LoopInv' /\ LibrariesInv' /\ ShimsInv' /\ ResultsInv' /\ ControlInv'
  BY <1>4, <1>10, <1>11, LedgerNext
<1>13. UsesInv'
  BY <1>0 DEF UsesInv, Did
<1>14. RegistryInv'
  <2>1. RegistryStep
    BY DEF RegistryStep
  <2> QED BY <1>0, <2>1, RegistryNext
<1> QED
  BY <1>4, <1>12, <1>13, <1>14 DEF IInv

\* A cell in place of another.
LEMMA Replaced ==
  ASSUME NEW cs \in Seq(Cell), NEW c \in DOMAIN cs, NEW y \in Cell, NEW r, r = [cs EXCEPT ![c] = y]
  PROVE  /\ r \in Seq(Cell) /\ DOMAIN r = DOMAIN cs /\ r[c] = y
         /\ \A x \in DOMAIN cs : x # c => r[x] = cs[x]
OBVIOUS

LEMMA CellField ==
  ASSUME NEW x \in Cell, NEW v \in SUBSET Nat, NEW y, y = [x EXCEPT !.field = v]
  PROVE  /\ y \in Cell /\ y.field = v
         /\ y.adt = x.adt /\ y.owner = x.owner /\ y.filled = x.filled
         /\ y.deps = x.deps /\ y.refs = x.refs
<1>1. /\ x.adt \in Adt /\ x.owner \in Nat /\ x.filled \in BOOLEAN /\ x.deps \in SUBSET Adt
      /\ x.field \in SUBSET Nat /\ x.refs \in SUBSET Nat /\ x.bounds \in SUBSET Nat
  BY Zenon DEF Cell
<1> QED
  BY <1>1 DEF Cell

LEMMA CellBounds ==
  ASSUME NEW x \in Cell, NEW v \in SUBSET Nat, NEW y, y = [x EXCEPT !.bounds = v]
  PROVE  /\ y \in Cell /\ y.bounds = v
         /\ y.adt = x.adt /\ y.owner = x.owner /\ y.filled = x.filled
         /\ y.deps = x.deps /\ y.field = x.field /\ y.refs = x.refs
<1>1. /\ x.adt \in Adt /\ x.owner \in Nat /\ x.filled \in BOOLEAN /\ x.deps \in SUBSET Adt
      /\ x.field \in SUBSET Nat /\ x.refs \in SUBSET Nat /\ x.bounds \in SUBSET Nat
  BY Zenon DEF Cell
<1> QED
  BY <1>1 DEF Cell

LEMMA CellRefs ==
  ASSUME NEW x \in Cell, NEW v \in SUBSET Nat, NEW y, y = [x EXCEPT !.refs = v]
  PROVE  /\ y \in Cell /\ y.refs = v
         /\ y.adt = x.adt /\ y.owner = x.owner /\ y.filled = x.filled
         /\ y.deps = x.deps /\ y.field = x.field
<1>1. /\ x.adt \in Adt /\ x.owner \in Nat /\ x.filled \in BOOLEAN /\ x.deps \in SUBSET Adt
      /\ x.field \in SUBSET Nat /\ x.refs \in SUBSET Nat /\ x.bounds \in SUBSET Nat
  BY Zenon DEF Cell
<1> QED
  BY <1>1 DEF Cell

LEMMA CellDeps ==
  ASSUME NEW x \in Cell, NEW v \in SUBSET Adt, NEW y, y = [x EXCEPT !.deps = v]
  PROVE  /\ y \in Cell /\ y.deps = v
         /\ y.adt = x.adt /\ y.owner = x.owner /\ y.filled = x.filled
         /\ y.field = x.field /\ y.refs = x.refs
<1>1. /\ x.adt \in Adt /\ x.owner \in Nat /\ x.filled \in BOOLEAN /\ x.deps \in SUBSET Adt
      /\ x.field \in SUBSET Nat /\ x.refs \in SUBSET Nat /\ x.bounds \in SUBSET Nat
  BY Zenon DEF Cell
<1> QED
  BY <1>1 DEF Cell

LEMMA CellFilled ==
  ASSUME NEW x \in Cell, NEW v \in BOOLEAN, NEW y, y = [x EXCEPT !.filled = v]
  PROVE  /\ y \in Cell /\ y.filled = v
         /\ y.adt = x.adt /\ y.owner = x.owner /\ y.deps = x.deps
         /\ y.field = x.field /\ y.refs = x.refs
<1>1. /\ x.adt \in Adt /\ x.owner \in Nat /\ x.filled \in BOOLEAN /\ x.deps \in SUBSET Adt
      /\ x.field \in SUBSET Nat /\ x.refs \in SUBSET Nat /\ x.bounds \in SUBSET Nat
  BY Zenon DEF Cell
<1> QED
  BY <1>1 DEF Cell

LEMMA CellsNext ==
  ASSUME CellsInv, CellsGrow,
         \A x \in DOMAIN cells : cells[x].deps \subseteq cells'[x].deps,
         \A x \in DOMAIN cells : \A r \in cells'[x].field \cup cells'[x].refs :
           \/ r \in cells[x].field \cup cells[x].refs
           \/ /\ r \in DOMAIN cells /\ cells[r].owner = r
              /\ cells[r].adt \in cells'[cells[x].owner].deps,
         \A x \in DOMAIN cells' \ DOMAIN cells : CellOK(x)'
  PROVE  CellsInv'
<1>1. ASSUME NEW x \in DOMAIN cells PROVE CellOK(x)'
  <2>1. CellOK(x)
    BY DEF CellsInv
  <2>2. ASSUME NEW r \in cells'[x].field \cup cells'[x].refs
        PROVE  /\ r \in DOMAIN cells' /\ cells'[r].owner = r
               /\ cells'[r].adt \in cells'[cells'[x].owner].deps
    <3>1. /\ r \in DOMAIN cells /\ cells[r].owner = r
          /\ cells[r].adt \in cells'[cells[x].owner].deps
      BY <2>1, <2>2 DEF CellOK
    <3> QED BY <3>1 DEF CellsGrow
  <2>3. /\ cells'[x].adt \notin crate'.shims
        /\ cells'[x].owner \in DOMAIN cells'
        /\ cells'[cells'[x].owner].owner = cells'[x].owner
        /\ cells'[cells'[x].owner].adt = cells'[x].adt
    BY <2>1 DEF CellOK, CellsGrow
  <2> QED BY <2>2, <2>3 DEF CellOK
<1> QED
  BY <1>1 DEF CellsInv

\* The cell that a registered ADT is looked up by.
LEMMA CellOfEntry ==
  ASSUME RegistryInv, NEW d \in Adt, is_registered_local_adt(d)
  PROVE  EntryOK(d, CellOf(d))
BY DEF RegistryInv, is_registered_local_adt, CellOf, EntryOK

LEMMA UseInDefinitionNext ==
  ASSUME IInv, UseInDefinition, UNCHANGED rest
  PROVE  IInv'
<1>0. /\ outcome = "none" /\ tasks # << >> /\ Head(tasks).k = "use"
      /\ Head(tasks).ctx.k # "function" /\ tasks' = << >> \o Tail(tasks)
      /\ UNCHANGED <<crate, variant_registry, enum_registry, adt_deps, adt_shims, uses, outcome,
                     results, phase, layers>>
      /\ TypeInv /\ CellsInv /\ RegistryInv /\ FilledInv
  BY DEF UseInDefinition, Top, task, rest, Push, IInv
<1>1. PICK t \in Task : t = tasks[1] /\ t = task
  BY <1>0, AtHand
<1>2. /\ t.k = "use" /\ t.ctx.k # "function" /\ t.adt \in Adt /\ t.ctx \in Ctx
      /\ t.ctx.cell \in DOMAIN cells /\ 1 \in DOMAIN tasks
  BY <1>0, <1>1, TaskParts, AtHand DEF task, TaskOK
<1>3. PICK d \in Adt, c \in DOMAIN cells : d = t.adt /\ c = t.ctx.cell
  BY <1>2
<1>4. PICK ref : ref = IF is_registered_local_adt(d) THEN {CellOf(d)} ELSE {}
  OBVIOUS
<1>5. ref \in SUBSET Nat /\ \A r \in ref : r \in DOMAIN cells /\ cells[r].owner = r /\ cells[r].adt = d
  <2>1. CASE is_registered_local_adt(d)
    <3>1. EntryOK(d, CellOf(d))
      BY <1>0, <2>1, CellOfEntry
    <3> QED BY <1>0, <1>4, <2>1, <3>1 DEF EntryOK, TypeInv
  <2> QED BY <1>4, <2>1
<1>6. cells' = IF t.ctx.k = "adt"
               THEN [cells EXCEPT ![c].field = @ \cup ref, ![cells[c].owner].deps = @ \cup {d}]
               ELSE [cells EXCEPT ![c].bounds = @ \cup ref]
  BY <1>1, <1>3, <1>4 DEF UseInDefinition
<1>7. Alive' => Alive
  BY <1>0 DEF Alive, stopped
<1>8. /\ NewShims(t)
      /\ \A did \in adt_shims' \ adt_shims : did[1] \notin crate.shims
      /\ \A e \in Adt : Did(e) \in adt_shims' \ adt_shims => e \in DOMAIN adt_deps'
      /\ \A b \in DOMAIN cells : ~Builds(t, b)
      /\ \A e \in DOMAIN adt_deps' : e \in Adt /\ adt_deps'[e] \subseteq Adt
  BY <1>0, <1>2 DEF NewShims, Builds, TypeInv
<1>9. CASE t.ctx.k = "adt"
  <2>1. PICK o \in DOMAIN cells : o = cells[c].owner
    BY <1>0 DEF CellsInv, CellOK
  <2>2. PICK y \in Cell : /\ y = [cells[c] EXCEPT !.field = cells[c].field \cup ref]
                          /\ y.adt = cells[c].adt /\ y.owner = cells[c].owner
                          /\ y.filled = cells[c].filled /\ y.deps = cells[c].deps
                          /\ y.field = cells[c].field \cup ref /\ y.refs = cells[c].refs
    <3>1. PICK x \in Cell : x = cells[c]
      BY <1>0, CellParts
    <3>2. PICK v \in SUBSET Nat : v = x.field \cup ref
      BY <1>0, <1>5, <3>1, CellParts
    <3>3. PICK y : y = [x EXCEPT !.field = v]
      OBVIOUS
    <3>4. /\ y \in Cell /\ y.field = v /\ y.adt = x.adt /\ y.owner = x.owner
          /\ y.filled = x.filled /\ y.deps = x.deps /\ y.refs = x.refs
      BY <3>3, CellField
    <3> QED BY <3>1, <3>2, <3>3, <3>4
  <2>a. PICK c1 : c1 = [cells EXCEPT ![c] = y]
    OBVIOUS
  <2>3. /\ c1 \in Seq(Cell) /\ DOMAIN c1 = DOMAIN cells /\ c1[c] = y
        /\ \A x \in DOMAIN cells : x # c => c1[x] = cells[x]
    BY <1>0, <2>a, Replaced DEF TypeInv
  <2>4. c1[o] \in Cell
    BY <2>3
  <2>5. PICK z \in Cell : /\ z = [c1[o] EXCEPT !.deps = c1[o].deps \cup {d}]
                          /\ z.adt = c1[o].adt /\ z.owner = c1[o].owner
                          /\ z.filled = c1[o].filled /\ z.deps = c1[o].deps \cup {d}
                          /\ z.field = c1[o].field /\ z.refs = c1[o].refs
    <3>1. PICK x \in Cell : x = c1[o]
      BY <2>4
    <3>2. PICK v \in SUBSET Adt : v = x.deps \cup {d}
      BY <3>1 DEF Cell
    <3>3. PICK z : z = [x EXCEPT !.deps = v]
      OBVIOUS
    <3>4. /\ z \in Cell /\ z.deps = v /\ z.adt = x.adt /\ z.owner = x.owner
          /\ z.filled = x.filled /\ z.field = x.field /\ z.refs = x.refs
      BY <3>3, CellDeps
    <3> QED BY <3>1, <3>2, <3>3, <3>4
  <2>6. cells' = [c1 EXCEPT ![o] = z]
    BY <1>6, <1>9, <2>a, <2>1, <2>2, <2>3, <2>5
  <2>7. /\ cells' \in Seq(Cell) /\ DOMAIN cells' = DOMAIN cells /\ cells'[o] = z
        /\ \A x \in DOMAIN cells : x # o => cells'[x] = c1[x]
    BY <2>3, <2>5, <2>6, Replaced
  <2>8. \A x \in DOMAIN cells :
          /\ cells'[x].adt = cells[x].adt /\ cells'[x].owner = cells[x].owner
          /\ cells'[x].filled = cells[x].filled /\ cells'[x].refs = cells[x].refs
          /\ cells'[x].deps = IF x = o THEN cells[x].deps \cup {d} ELSE cells[x].deps
          /\ cells'[x].field = IF x = c THEN cells[x].field \cup ref ELSE cells[x].field
    <3> TAKE x \in DOMAIN cells
    <3>1. /\ c1[x].adt = cells[x].adt /\ c1[x].owner = cells[x].owner
          /\ c1[x].filled = cells[x].filled /\ c1[x].refs = cells[x].refs /\ c1[x].deps = cells[x].deps
          /\ c1[x].field = IF x = c THEN cells[x].field \cup ref ELSE cells[x].field
      <4>1. CASE x = c
        BY ONLY <2>2, <2>3, <4>1
      <4>2. CASE x # c
        BY ONLY <2>3, <4>2
      <4> QED BY <4>1, <4>2
    <3>2. /\ cells'[x].adt = c1[x].adt /\ cells'[x].owner = c1[x].owner
          /\ cells'[x].filled = c1[x].filled /\ cells'[x].refs = c1[x].refs /\ cells'[x].field = c1[x].field
          /\ cells'[x].deps = IF x = o THEN c1[x].deps \cup {d} ELSE c1[x].deps
      <4>1. CASE x = o
        BY ONLY <2>5, <2>7, <4>1
      <4>2. CASE x # o
        BY ONLY <2>7, <4>2
      <4> QED BY <4>1, <4>2
    <3> QED BY ONLY <3>1, <3>2
  <2>9. CellsGrow
    BY <1>0, <2>7, <2>8 DEF CellsGrow
  <2>10. \A b, e : AwaitsUse(t, b, e) <=> b = o /\ e = d
    BY <1>2, <1>3, <1>9, <2>1 DEF AwaitsUse, Inside
  <2>11. CellsStep
    <3>1. \A x \in DOMAIN cells : \A e \in cells'[x].deps \ cells[x].deps : x = o /\ e = d
      BY <2>8
    <3>2. \A x \in DOMAIN cells : cells[x].deps \subseteq cells'[x].deps
      BY <2>8
    <3>3. \A b, e : b = o /\ e = d => AwaitsUse(tasks[1], b, e)
      BY <1>1, <2>10
    <3> QED BY <2>7, <2>8, <3>1, <3>2, <3>3 DEF CellsStep
  <2>12. CellsInv'
    <3>1. \A x \in DOMAIN cells : \A r \in cells'[x].field \cup cells'[x].refs :
            \/ r \in cells[x].field \cup cells[x].refs
            \/ /\ r \in DOMAIN cells /\ cells[r].owner = r
               /\ cells[r].adt \in cells'[cells[x].owner].deps
      <4>1. \A x \in DOMAIN cells : \A r \in cells'[x].field \cup cells'[x].refs :
              r \in cells[x].field \cup cells[x].refs \/ (x = c /\ r \in ref)
        BY <2>8
      <4>2. d \in cells'[cells[c].owner].deps
        BY <2>1, <2>8
      <4> QED BY <1>5, <4>1, <4>2
    <3>2. \A x \in DOMAIN cells : cells[x].deps \subseteq cells'[x].deps
      BY <2>8
    <3> QED BY <1>0, <2>7, <2>9, <3>1, <3>2, CellsNext
  <2>13. FilledInv'
    <3>1. ~cells[o].filled
      <4>1. Inside(t, o)
        BY <1>2, <1>3, <1>9, <2>1 DEF Inside
      <4>2. PICK j \in DOMAIN tasks : Builds(tasks[j], o)
        BY <1>1, <1>2, <4>1 DEF IInv, LoopInv, StackInv, Nested
      <4>3. TaskOK(tasks[j])
        BY DEF IInv, LoopInv, StackInv, TasksInv
      <4> QED BY <4>2, <4>3 DEF Builds, TaskOK
    <3> QED BY <1>0, <1>7, <2>7, <2>8, <3>1 DEF FilledInv, Did
  <2>14. \A b \in DOMAIN cells, e \in Adt : AwaitsUse(t, b, e) => e \in cells'[b].deps
    <3> SUFFICES ASSUME NEW b \in DOMAIN cells, NEW e \in Adt, AwaitsUse(t, b, e) PROVE e \in cells'[b].deps
      OBVIOUS
    <3>1. b = o /\ e = d
      BY <2>10
    <3>2. cells'[b].deps = cells[b].deps \cup {d}
      BY ONLY <2>8, <3>1
    <3> QED BY ONLY <3>1, <3>2
  <2> HIDE DEF IInv
  <2> QED BY <1>0, <1>1, <1>2, <1>8, <2>7, <2>9, <2>11, <2>12, <2>13, <2>14, PopNext
<1>10. CASE t.ctx.k # "adt"
  <2>1. PICK y \in Cell : /\ y = [cells[c] EXCEPT !.bounds = cells[c].bounds \cup ref]
                          /\ y.adt = cells[c].adt /\ y.owner = cells[c].owner
                          /\ y.filled = cells[c].filled /\ y.deps = cells[c].deps
                          /\ y.field = cells[c].field /\ y.refs = cells[c].refs
    <3>1. PICK x \in Cell : x = cells[c]
      BY <1>0, CellParts
    <3>2. PICK v \in SUBSET Nat : v = x.bounds \cup ref
      BY <1>0, <1>5, <3>1, CellParts
    <3>3. PICK y : y = [x EXCEPT !.bounds = v]
      OBVIOUS
    <3>4. /\ y \in Cell /\ y.adt = x.adt /\ y.owner = x.owner /\ y.filled = x.filled
          /\ y.deps = x.deps /\ y.field = x.field /\ y.refs = x.refs
      BY <3>3, CellBounds
    <3> QED BY <3>1, <3>2, <3>3, <3>4
  <2>2. cells' = [cells EXCEPT ![c] = y]
    BY <1>6, <1>10, <2>1
  <2>3. /\ cells' \in Seq(Cell) /\ DOMAIN cells' = DOMAIN cells /\ cells'[c] = y
        /\ \A x \in DOMAIN cells : x # c => cells'[x] = cells[x]
    BY <1>0, <2>1, <2>2, Replaced DEF TypeInv
  <2>4. \A x \in DOMAIN cells :
          /\ cells'[x].adt = cells[x].adt /\ cells'[x].owner = cells[x].owner
          /\ cells'[x].filled = cells[x].filled /\ cells'[x].refs = cells[x].refs
          /\ cells'[x].deps = cells[x].deps /\ cells'[x].field = cells[x].field
    BY <2>1, <2>3
  <2>5. CellsGrow /\ CellsStep
    BY <1>0, <2>3, <2>4 DEF CellsGrow, CellsStep
  <2>6. \A b, e : ~AwaitsUse(t, b, e)
    BY <1>2, <1>10 DEF AwaitsUse, Inside
  <2>7. CellsInv'
    BY <1>0, <2>3, <2>4, <2>5, CellsNext
  <2>8. FilledInv'
    BY <1>0, <1>7, <2>3, <2>4 DEF FilledInv, Did
  <2> HIDE DEF IInv
  <2> QED BY <1>0, <1>1, <1>2, <1>8, <2>3, <2>5, <2>6, <2>7, <2>8, PopNext
<1> QED
  BY <1>9, <1>10

LEMMA WithAt ==
  ASSUME NEW f, NEW x, NEW y, NEW g, g = With(f, x, y)
  PROVE  /\ DOMAIN g = DOMAIN f \cup {x} /\ g[x] = y
         /\ \A z \in DOMAIN f : z # x => g[z] = f[z]
BY DEF With

\* The layout of an annotated field needs a definition that is not there.
Unlaid(t, c) ==
  /\ t.annotated
  /\ \E r \in cells[c].field : ~cells[r].filled /\ cells[r].adt \in LaidOut[t.ty]

LEMMA BuildFieldNext ==
  ASSUME IInv, BuildField, UNCHANGED rest
  PROVE  IInv'
<1>0. /\ outcome = "none" /\ tasks # << >> /\ Head(tasks).k = "field"
      /\ TypeInv /\ CellsInv /\ RegistryInv /\ FilledInv
  BY DEF BuildField, Top, task, IInv
<1>1. PICK t \in Task : t = tasks[1] /\ t = task
  BY <1>0, AtHand
<1>2. t.k = "field" /\ t.cell \in DOMAIN cells /\ 1 \in DOMAIN tasks
  BY <1>0, <1>1, AtHand DEF task, TaskOK
<1>3. PICK c \in DOMAIN cells : c = t.cell
  BY <1>2
<1>4. CASE Unlaid(t, c)
  <2>1. Panic /\ UNCHANGED <<results, phase, layers>>
    BY <1>1, <1>3, <1>4 DEF BuildField, rest, Unlaid
  <2> HIDE DEF IInv
  <2> QED BY <1>0, <2>1, PanicNext
<1>5. CASE ~Unlaid(t, c)
  <2>1. /\ cells' = [cells EXCEPT ![c].field = {},
                       ![c].refs = IF t.annotated THEN @ ELSE @ \cup cells[c].field]
        /\ tasks' = << >> \o Tail(tasks)
        /\ UNCHANGED <<crate, variant_registry, enum_registry, adt_deps, adt_shims, uses, outcome,
                       results, phase, layers>>
    BY <1>1, <1>3, <1>5 DEF BuildField, Push, rest, Unlaid
  <2>2. PICK x \in Cell : x = cells[c]
    BY <1>0, CellParts
  <2>a. PICK none \in SUBSET Nat : none = {}
    OBVIOUS
  <2>3. PICK y : y = [x EXCEPT !.field = none]
    OBVIOUS
  <2>4. /\ y \in Cell /\ y.field = none /\ y.adt = x.adt /\ y.owner = x.owner
        /\ y.filled = x.filled /\ y.deps = x.deps /\ y.refs = x.refs
    BY <2>3, CellField
  <2>5. PICK v \in SUBSET Nat : v = IF t.annotated THEN x.refs ELSE x.refs \cup x.field
    BY <1>0, <2>2, CellParts
  <2>6. PICK z : z = [y EXCEPT !.refs = v]
    OBVIOUS
  <2>7. /\ z \in Cell /\ z.refs = v /\ z.adt = x.adt /\ z.owner = x.owner
        /\ z.filled = x.filled /\ z.deps = x.deps /\ z.field = {}
    BY <2>a, <2>4, <2>6, CellRefs
  <2>8. cells' = [cells EXCEPT ![c] = z]
    <3>1. \A q : q = [cells EXCEPT ![c] = y] => q[c] = y /\ [q EXCEPT ![c] = z] = [cells EXCEPT ![c] = z]
      OBVIOUS
    <3> QED BY <1>0, <2>a, <2>1, <2>2, <2>3, <2>4, <2>5, <2>6, <3>1
  <2>9. /\ cells' \in Seq(Cell) /\ DOMAIN cells' = DOMAIN cells /\ cells'[c] = z
        /\ \A w \in DOMAIN cells : w # c => cells'[w] = cells[w]
    BY <1>0, <2>7, <2>8, Replaced DEF TypeInv
  <2>10. \A w \in DOMAIN cells :
          /\ cells'[w].adt = cells[w].adt /\ cells'[w].owner = cells[w].owner
          /\ cells'[w].filled = cells[w].filled /\ cells'[w].deps = cells[w].deps
          /\ cells'[w].field \cup cells'[w].refs \subseteq cells[w].field \cup cells[w].refs
    BY <2>2, <2>5, <2>7, <2>9
  <2>11. CellsGrow /\ CellsStep
    BY <2>1, <2>9, <2>10 DEF CellsGrow, CellsStep
  <2>12. CellsInv'
    BY <1>0, <2>9, <2>10, <2>11, CellsNext
  <2>13. FilledInv'
    BY <1>0, <2>1, <2>9, <2>10 DEF FilledInv, Alive, stopped, Did
  <2>14. /\ NewShims(t)
         /\ \A did \in adt_shims' \ adt_shims : did[1] \notin crate.shims
         /\ \A e \in Adt : Did(e) \in adt_shims' \ adt_shims => e \in DOMAIN adt_deps'
         /\ \A b \in DOMAIN cells : ~Builds(t, b)
         /\ \A b, e : ~AwaitsUse(t, b, e)
         /\ \A e \in DOMAIN adt_deps' : e \in Adt /\ adt_deps'[e] \subseteq Adt
    BY <1>0, <1>2, <2>1 DEF NewShims, Builds, AwaitsUse, TypeInv
  <2> HIDE DEF IInv
  <2> QED BY <1>0, <1>1, <1>2, <2>1, <2>9, <2>11, <2>12, <2>13, <2>14, PopNext
<1> QED
  BY <1>4, <1>5

(* A cell is filled, and the rest of it stays, but for what it refers to.    *)
Fills(c) ==
  /\ cells' \in Seq(Cell) /\ DOMAIN cells' = DOMAIN cells
  /\ \A w \in DOMAIN cells :
       /\ cells'[w].adt = cells[w].adt /\ cells'[w].owner = cells[w].owner
       /\ cells'[w].deps = cells[w].deps /\ cells'[w].field = cells[w].field
       /\ w # c => cells'[w].filled = cells[w].filled /\ cells'[w].refs = cells[w].refs

FilledAt(c) == cells' = [cells EXCEPT ![c].filled = TRUE]

LEMMA FillsCell ==
  ASSUME TypeInv, NEW c \in DOMAIN cells, FilledAt(c)
  PROVE  Fills(c) /\ cells'[c].refs = cells[c].refs
<1>1. PICK x \in Cell : x = cells[c]
  BY CellParts
<1>2. PICK y : y = [x EXCEPT !.filled = TRUE]
  OBVIOUS
<1>3. /\ y \in Cell /\ y.adt = x.adt /\ y.owner = x.owner
      /\ y.deps = x.deps /\ y.field = x.field /\ y.refs = x.refs
  BY <1>2, CellFilled
<1>4. cells' = [cells EXCEPT ![c] = y]
  BY <1>1, <1>2 DEF FilledAt
<1>a. cells \in Seq(Cell) /\ y \in Cell
  BY <1>3 DEF TypeInv
<1>5. /\ cells' \in Seq(Cell) /\ DOMAIN cells' = DOMAIN cells /\ cells'[c] = y
      /\ \A w \in DOMAIN cells : w # c => cells'[w] = cells[w]
  BY <1>a, <1>4, Replaced
<1> QED
  BY <1>1, <1>3, <1>5 DEF Fills

LEMMA BuildVariantNext ==
  ASSUME IInv, BuildVariant, UNCHANGED rest
  PROVE  IInv'
<1>0. /\ outcome = "none" /\ tasks # << >> /\ Head(tasks).k = "build_variant"
      /\ UNCHANGED <<crate, adt_deps, uses, results, phase, layers>>
      /\ TypeInv /\ CellsInv /\ RegistryInv /\ FilledInv
  BY DEF BuildVariant, Top, task, IInv, rest
<1>1. PICK t \in Task : t = tasks[1] /\ t = task
  BY <1>0, AtHand
<1>2. /\ t.k = "build_variant" /\ 1 \in DOMAIN tasks /\ t.cell \in DOMAIN cells
      /\ ~is_struct(cells[t.cell].adt) /\ t.i \in DOMAIN variants(cells[t.cell].adt)
      /\ cells[t.cell].owner # t.cell
  BY <1>0, <1>1, AtHand DEF task, TaskOK
<1>3. PICK v \in DOMAIN cells, d \in Adt, did \in {VariantDid(cells[t.cell].adt, t.i)} :
        v = t.cell /\ d = cells[v].adt /\ did = VariantDid(d, t.i)
  BY <1>0, <1>2, CellParts
<1>4. FilledAt(v) /\ register_adt_shim(did)
  BY <1>1, <1>3 DEF BuildVariant, FilledAt
<1>5. Fills(v) /\ cells'[v].refs = cells[v].refs
  BY <1>0, <1>4, FillsCell
<1>6. /\ cells' \in Seq(Cell) /\ DOMAIN cells' = DOMAIN cells
      /\ \A w \in DOMAIN cells :
           /\ cells'[w].adt = cells[w].adt /\ cells'[w].owner = cells[w].owner
           /\ cells'[w].deps = cells[w].deps /\ cells'[w].field = cells[w].field
           /\ cells'[w].refs = cells[w].refs /\ (w # v => cells'[w].filled = cells[w].filled)
  BY <1>5 DEF Fills
<1>7. CellsGrow
  BY <1>0, <1>6 DEF CellsGrow
<1>8. CellsStep
  BY <1>1, <1>2, <1>3, <1>6 DEF CellsStep
<1>9. CellsInv'
  BY <1>0, <1>6, <1>7, CellsNext
<1>10. did[1] = d /\ did[2] # 0 /\ d \notin crate.shims
  <2>1. t.i \in Nat /\ t.i # 0
    BY <1>0, <1>2, <1>3, DefShape DEF TypeInv
  <2>2. did = <<d, t.i>>
    BY <1>2, <1>3 DEF VariantDid
  <2> QED BY <1>0, <1>3, <2>1, <2>2 DEF CellsInv, CellOK
<1>11. \A e \in DOMAIN adt_deps' : e \in Adt /\ adt_deps'[e] \subseteq Adt
  BY <1>0 DEF TypeInv
<1>12. CASE did \in adt_shims
  <2>1. Fail(Pending(Tail(tasks)), "fatal") /\ UNCHANGED adt_shims
    BY <1>4, <1>12 DEF register_adt_shim
  <2>2. PICK failed, how : failed = Pending(Tail(tasks)) /\ how = "fatal"
    OBVIOUS
  <2>3. Removes(failed) /\ tasks' = << >> /\ outcome' = how
    BY <2>1, <2>2, FailRemoves
  <2>4. \A c \in failed : c \in DOMAIN cells /\ \E j \in DOMAIN tasks : At(tasks[j], c)
    BY <1>0, <2>2, TailPendingAre DEF At
  <2>5. how \in {"skipped", "fatal"} /\ how # "skipped"
    BY <2>2
  <2> HIDE DEF IInv
  <2> QED BY <1>0, <1>6, <1>7, <1>9, <1>11, <2>1, <2>3, <2>4, <2>5, FailNext
<1>13. CASE did \notin adt_shims
  <2>1. /\ adt_shims' = adt_shims \cup {did} /\ tasks' = << >> \o Tail(tasks)
        /\ UNCHANGED <<variant_registry, enum_registry, outcome>>
    BY <1>4, <1>13 DEF register_adt_shim, Push
  <2>2. FilledInv'
    BY <1>0, <1>2, <1>3, <1>6, <2>1 DEF FilledInv, Alive, stopped, Did
  <2>3. \A e : Did(e) # did
    BY <1>10 DEF Did
  <2>4. /\ NewShims(t)
        /\ \A x \in adt_shims' \ adt_shims : x[1] \notin crate.shims
        /\ \A e \in Adt : Did(e) \in adt_shims' \ adt_shims => e \in DOMAIN adt_deps'
        /\ \A b \in DOMAIN cells : ~Builds(t, b)
        /\ \A b, e : ~AwaitsUse(t, b, e)
    BY <1>2, <1>10, <2>1, <2>3 DEF NewShims, Builds, AwaitsUse
  <2> HIDE DEF IInv
  <2> QED BY <1>0, <1>1, <1>2, <1>6, <1>7, <1>8, <1>9, <1>11, <2>1, <2>2, <2>4, PopNext
<1> QED
  BY <1>12, <1>13

-----------------------------------------------------------------------------
(* An ADT is built.                                                          *)

LEMMA BuiltNext ==
  ASSUME IInv, outcome = "none", tasks # << >>, NEW t \in Task, t = tasks[1],
         NEW c \in DOMAIN cells, Builds(t, c), NEW d \in Adt, d = cells[c].adt,
         UNCHANGED <<crate, uses, results, phase, layers>>, Fills(c), CellsInv',
         DOMAIN adt_deps \subseteq DOMAIN adt_deps',
         \A e \in DOMAIN adt_deps' : e \in Adt /\ adt_deps'[e] \subseteq Adt,
         register_adt_shim(Did(d)),
         Did(d) \notin adt_shims =>
           /\ d \in DOMAIN adt_deps' /\ cells[c].deps \subseteq adt_deps'[d] \cup {d}
           /\ \A e \in DOMAIN adt_deps : e # d => adt_deps'[e] = adt_deps[e],
         is_struct(d) /\ d \in cells[c].deps \cup def(d).extra_deps => def(d).invariant
  PROVE  IInv'
<1>0. TypeInv /\ CellsInv /\ RegistryInv /\ FilledInv /\ Alive /\ 1 \in DOMAIN tasks
  BY AtHand DEF IInv
<1>1. /\ cells' \in Seq(Cell) /\ DOMAIN cells' = DOMAIN cells
      /\ \A w \in DOMAIN cells :
           /\ cells'[w].adt = cells[w].adt /\ cells'[w].owner = cells[w].owner
           /\ cells'[w].deps = cells[w].deps
           /\ w # c => cells'[w].filled = cells[w].filled
  BY DEF Fills
<1>2. CellsGrow
  BY <1>1 DEF CellsGrow
<1>3. CellsStep
  BY <1>1 DEF CellsStep
<1>4. CASE Did(d) \in adt_shims
  <2>1. Fail(Pending(Tail(tasks)), "fatal") /\ UNCHANGED adt_shims
    BY <1>4 DEF register_adt_shim
  <2>2. PICK failed, how : failed = Pending(Tail(tasks)) /\ how = "fatal"
    OBVIOUS
  <2>3. Removes(failed) /\ tasks' = << >> /\ outcome' = how
    BY <2>1, <2>2, FailRemoves
  <2>4. \A b \in failed : b \in DOMAIN cells /\ \E j \in DOMAIN tasks : At(tasks[j], b)
    BY <2>2, TailPendingAre DEF At
  <2>5. how \in {"skipped", "fatal"} /\ how # "skipped"
    BY <2>2
  <2> HIDE DEF IInv
  <2> QED BY <1>1, <1>2, <2>1, <2>3, <2>4, <2>5, FailNext
<1>5. CASE Did(d) \notin adt_shims
  <2>1. /\ adt_shims' = adt_shims \cup {Did(d)} /\ tasks' = << >> \o Tail(tasks)
        /\ UNCHANGED <<variant_registry, enum_registry, outcome>>
    BY <1>5 DEF register_adt_shim, Push
  <2>2. FilledInv'
    <3>1. ASSUME NEW x \in DOMAIN cells, cells'[x].filled, cells'[x].owner = x
          PROVE  /\ cells'[x].adt \in DOMAIN adt_deps' /\ Did(cells'[x].adt) \in adt_shims'
                 /\ cells'[x].deps \subseteq adt_deps'[cells'[x].adt] \cup {cells'[x].adt}
      <4>1. CASE x = c
        BY <1>1, <1>5, <2>1, <4>1
      <4>2. CASE x # c
        <5>1. /\ cells[x].adt \in DOMAIN adt_deps /\ Did(cells[x].adt) \in adt_shims
              /\ cells[x].deps \subseteq adt_deps[cells[x].adt] \cup {cells[x].adt}
          BY <1>0, <1>1, <3>1, <4>2 DEF FilledInv
        <5>2. cells[x].adt # d
          BY <1>5, <5>1
        <5> QED BY <1>1, <1>5, <2>1, <5>1, <5>2
      <4> QED BY <4>1, <4>2
    <3> QED BY <1>1, <3>1 DEF FilledInv, Did
  <2>3. /\ t.k \in {"use", "field", "build_struct", "build_variant", "build_enum"}
        /\ \A b : Builds(t, b) => b = c
        /\ \A b, e : ~AwaitsUse(t, b, e)
    BY DEF Builds, AwaitsUse
  <2>4. Did(d)[1] = d /\ d \notin crate.shims /\ \A e : Did(e) = Did(d) => e = d
    BY <1>0 DEF Did, CellsInv, CellOK
  <2>5. NewShims(t)
    BY <2>1, <2>4 DEF NewShims
  <2>6. /\ \A x \in adt_shims' \ adt_shims : x[1] \notin crate.shims
        /\ \A e \in Adt : Did(e) \in adt_shims' \ adt_shims => e \in DOMAIN adt_deps'
        /\ \A b \in DOMAIN cells : Builds(t, b) => Did(cells[b].adt) \in adt_shims'
    BY <1>5, <2>1, <2>3, <2>4
  <2> HIDE DEF IInv
  <2> QED BY <1>1, <1>2, <1>3, <2>1, <2>2, <2>3, <2>5, <2>6, PopNext
<1> QED
  BY <1>4, <1>5

LEMMA BuildStructNext ==
  ASSUME IInv, BuildStruct, UNCHANGED rest
  PROVE  IInv'
<1>0. /\ outcome = "none" /\ tasks # << >> /\ Head(tasks).k = "build_struct"
      /\ UNCHANGED <<crate, uses, results, phase, layers>>
      /\ TypeInv /\ CellsInv
  BY DEF BuildStruct, Top, task, IInv, rest
<1>1. PICK t \in Task : t = tasks[1] /\ t = task
  BY <1>0, AtHand
<1>2. /\ t.k = "build_struct" /\ 1 \in DOMAIN tasks /\ t.cell \in DOMAIN cells
      /\ is_struct(cells[t.cell].adt)
  BY <1>0, <1>1, AtHand DEF task, TaskOK
<1>3. PICK c \in DOMAIN cells, d \in Adt : c = t.cell /\ d = cells[c].adt
  BY <1>0, <1>2, CellParts
<1>4. PICK deps \in SUBSET Adt : deps = cells[c].deps \cup def(d).extra_deps
  BY <1>0, CellParts, DefShape DEF TypeInv
<1>5. Builds(t, c) /\ is_struct(d) /\ TaskOK(tasks[1])
  BY <1>0, <1>2, <1>3, AtHand DEF Builds
<1>6. \/ /\ ~def(d).attrs_ok
         /\ Fail(Pending(Tail(tasks)), "skipped")
         /\ UNCHANGED <<cells, adt_deps, adt_shims>>
      \/ /\ d \in deps /\ ~def(d).invariant
         /\ RecursiveTypeWithoutInvariant(d)
      \/ /\ d \in deps => def(d).invariant
         /\ FilledAt(c)
         /\ adt_deps' = With(adt_deps, d, deps \ {d})
         /\ register_adt_shim(Did(d))
  BY <1>1, <1>3, <1>4, Zenon DEF BuildStruct, FilledAt
<1>7. CASE /\ Fail(Pending(Tail(tasks)), "skipped")
           /\ UNCHANGED <<cells, adt_deps, adt_shims>>
  <2>1. PICK failed, how : failed = Pending(Tail(tasks)) /\ how = "skipped"
    OBVIOUS
  <2>2. ASSUME NEW b \in failed
        PROVE  /\ b \in DOMAIN cells /\ \E j \in DOMAIN tasks : At(tasks[j], b)
               /\ Did(cells[b].adt) \notin adt_shims
    <3>1. b \in DOMAIN cells
      BY <1>0, <2>1, <2>2, TailPendingAre
    <3>2. PICK j \in DOMAIN tasks : j # 1 /\ Builds(tasks[j], b)
      BY <1>0, <2>1, <2>2, TailPendingAre
    <3>3. ASSUME Did(cells[b].adt) \in adt_shims PROVE FALSE
      <4>1. PICK e : e = cells[b].adt
        OBVIOUS
      <4>2. PICK S \in SUBSET Types, M \in SUBSET Adt : Harmless(tasks[1], b, S, M)
        BY <1>0, <3>1, <3>2, <3>3, <4>1, SecondTime DEF At
      <4> QED BY <1>1, <1>2, <4>2 DEF Harmless
    <3> QED BY <3>1, <3>2, <3>3 DEF At
  <2>3. \A j \in DOMAIN tasks : tasks[j].k = "build_enum" => tasks[j].cell \in failed
    BY <1>0, <1>1, <1>2, <2>1, TailPendingAre
  <2>4. how \in {"skipped", "fatal"} /\ Fail(failed, how)
    BY <1>7, <2>1
  <2> HIDE DEF IInv
  <2> QED BY <1>0, <1>7, <2>2, <2>3, <2>4, SkipNext
<1>8. CASE /\ d \in deps /\ ~def(d).invariant
           /\ RecursiveTypeWithoutInvariant(d)
  <2>1. PICK failed, how : failed = Pending(tasks) /\ how = "skipped"
    OBVIOUS
  <2>2. ASSUME NEW b \in failed
        PROVE  /\ b \in DOMAIN cells /\ \E j \in DOMAIN tasks : At(tasks[j], b)
               /\ Did(cells[b].adt) \notin adt_shims
    <3>1. b \in DOMAIN cells
      BY <2>1, <2>2, PendingAre
    <3>2. PICK j \in DOMAIN tasks : Builds(tasks[j], b)
      BY <2>1, <2>2, PendingAre
    <3>3. ASSUME Did(cells[b].adt) \in adt_shims PROVE FALSE
      <4>1. PICK e : e = cells[b].adt
        OBVIOUS
      <4>2. PICK S \in SUBSET Types, M \in SUBSET Adt :
              /\ SoundDef(e, S, M) /\ cells[b].deps \subseteq M
              /\ j # 1 => Harmless(tasks[1], b, S, M)
        BY <1>0, <3>1, <3>2, <3>3, <4>1, SecondTime DEF At
      <4>3. j = 1
        BY <1>1, <1>2, <4>2 DEF Harmless
      <4>4. b = c
        BY <1>1, <1>3, <3>2, <4>3 DEF Builds
      <4> QED BY <1>3, <1>4, <1>5, <1>8, <4>1, <4>2, <4>4 DEF SoundDef
    <3> QED BY <3>1, <3>2, <3>3 DEF At
  <2>3. \A j \in DOMAIN tasks : tasks[j].k = "build_enum" => tasks[j].cell \in failed
    BY <2>1 DEF Pending
  <2>4. /\ how \in {"skipped", "fatal"} /\ Fail(failed, how)
        /\ UNCHANGED <<cells, adt_deps, adt_shims>>
    BY <1>8, <2>1 DEF RecursiveTypeWithoutInvariant
  <2> HIDE DEF IInv
  <2> QED BY <1>0, <2>2, <2>3, <2>4, SkipNext
<1>9. CASE /\ d \in deps => def(d).invariant
           /\ FilledAt(c)
           /\ adt_deps' = With(adt_deps, d, deps \ {d})
           /\ register_adt_shim(Did(d))
  <2>1. Fills(c) /\ cells'[c].refs = cells[c].refs
    BY <1>0, <1>9, FillsCell
  <2>2. /\ DOMAIN adt_deps' = DOMAIN adt_deps \cup {d} /\ adt_deps'[d] = deps \ {d}
        /\ \A z \in DOMAIN adt_deps : z # d => adt_deps'[z] = adt_deps[z]
    <3>1. PICK g : g = adt_deps'
      OBVIOUS
    <3>2. g = With(adt_deps, d, deps \ {d})
      BY <1>9, <3>1
    <3>3. /\ DOMAIN g = DOMAIN adt_deps \cup {d} /\ g[d] = deps \ {d}
          /\ \A z \in DOMAIN adt_deps : z # d => g[z] = adt_deps[z]
      BY ONLY <3>2 DEF With
    <3> QED BY <3>1, <3>3
  <2>3. \A e \in DOMAIN adt_deps' : e \in Adt /\ adt_deps'[e] \subseteq Adt
    BY <1>0, <2>2 DEF TypeInv
  <2>4. CellsInv'
    <3>1. CellsGrow
      BY <1>0, <2>1 DEF CellsGrow, Fills
    <3>2. /\ \A x \in DOMAIN cells : cells[x].deps \subseteq cells'[x].deps
          /\ \A x \in DOMAIN cells :
               cells'[x].field \cup cells'[x].refs = cells[x].field \cup cells[x].refs
          /\ DOMAIN cells' = DOMAIN cells
      BY <2>1 DEF Fills
    <3> QED BY <1>0, <3>1, <3>2, CellsNext
  <2>5. cells[c].deps \subseteq adt_deps'[d] \cup {d}
    BY <1>4, <2>2
  <2>6. DOMAIN adt_deps \subseteq DOMAIN adt_deps' /\ d \in DOMAIN adt_deps'
    BY <2>2
  <2>7. is_struct(d) /\ d \in cells[c].deps \cup def(d).extra_deps => def(d).invariant
    BY <1>4, <1>9
  <2>8. Did(d) \notin adt_shims =>
          /\ d \in DOMAIN adt_deps' /\ cells[c].deps \subseteq adt_deps'[d] \cup {d}
          /\ \A e \in DOMAIN adt_deps : e # d => adt_deps'[e] = adt_deps[e]
    BY <2>2, <2>5, <2>6
  <2> HIDE DEF IInv
  <2> QED BY <1>0, <1>1, <1>3, <1>5, <1>9, <2>1, <2>3, <2>4, <2>6, <2>7, <2>8, BuiltNext
<1> QED
  BY <1>6, <1>7, <1>8, <1>9

LEMMA BuildEnumNext ==
  ASSUME IInv, BuildEnum, UNCHANGED rest
  PROVE  IInv'
<1>0. /\ outcome = "none" /\ tasks # << >> /\ Head(tasks).k = "build_enum"
      /\ UNCHANGED <<crate, uses, results, phase, layers>>
      /\ TypeInv /\ CellsInv
  BY DEF BuildEnum, Top, task, IInv, rest
<1>1. PICK t \in Task : t = tasks[1] /\ t = task
  BY <1>0, AtHand
<1>2. /\ t.k = "build_enum" /\ 1 \in DOMAIN tasks /\ t.cell \in DOMAIN cells
      /\ ~is_struct(cells[t.cell].adt)
  BY <1>0, <1>1, AtHand DEF task, TaskOK
<1>3. PICK c \in DOMAIN cells, d \in Adt : c = t.cell /\ d = cells[c].adt
  BY <1>0, <1>2, CellParts
<1>a. task.cell = c /\ cells[task.cell].adt = d
  BY <1>1, <1>3
<1>b. PICK vs :
        vs = {variant_registry[VariantDid(cells[task.cell].adt, i)] :
                i \in DOMAIN variants(cells[task.cell].adt)}
  OBVIOUS
<1>c. PICK new : new = UNION {cells[v].refs : v \in vs}
  OBVIOUS
<1>4. /\ vs = {variant_registry[VariantDid(d, i)] : i \in DOMAIN variants(d)}
      /\ new = UNION {cells[v].refs : v \in vs}
  BY <1>a, <1>b, <1>c
<1>5. Builds(t, c) /\ ~is_struct(d)
  BY <1>2, <1>3 DEF Builds
<1>6. \/ /\ Fail(Pending(tasks), "fatal")
         /\ UNCHANGED <<cells, adt_deps, adt_shims>>
      \/ /\ cells' = [cells EXCEPT ![c].filled = TRUE, ![c].refs = new]
         /\ adt_deps' = IF Did(d) \in adt_shims THEN adt_deps
                        ELSE With(adt_deps, d, cells[c].deps \ {d})
         /\ register_adt_shim(Did(d))
  <2>1. \/ /\ Fail(Pending(tasks), "fatal")
           /\ UNCHANGED <<cells, adt_deps, adt_shims>>
        \/ /\ cells' = [cells EXCEPT ![task.cell].filled = TRUE, ![task.cell].refs = new]
           /\ adt_deps' = IF Did(cells[task.cell].adt) \in adt_shims THEN adt_deps
                          ELSE With(adt_deps, cells[task.cell].adt,
                                    cells[task.cell].deps \ {cells[task.cell].adt})
           /\ register_adt_shim(Did(cells[task.cell].adt))
    BY <1>b, <1>c, Zenon DEF BuildEnum
  <2> QED BY <1>a, <2>1
<1>7. CASE /\ Fail(Pending(tasks), "fatal")
           /\ UNCHANGED <<cells, adt_deps, adt_shims>>
  <2>1. PICK failed, how : failed = Pending(tasks) /\ how = "fatal"
    OBVIOUS
  <2>2. \A b \in failed : b \in DOMAIN cells /\ \E j \in DOMAIN tasks : At(tasks[j], b)
    BY <2>1, PendingAre DEF At
  <2>3. how \in {"skipped", "fatal"} /\ how # "skipped" /\ Fail(failed, how)
    BY <1>7, <2>1
  <2> HIDE DEF IInv
  <2> QED BY <1>0, <1>7, <2>2, <2>3, SkipNext
<1>8. CASE /\ cells' = [cells EXCEPT ![c].filled = TRUE, ![c].refs = new]
           /\ adt_deps' = IF Did(d) \in adt_shims THEN adt_deps
                          ELSE With(adt_deps, d, cells[c].deps \ {d})
           /\ register_adt_shim(Did(d))
  <2>0. \A v \in vs : v \in DOMAIN cells /\ cells[v].owner = c
    <3>1. ASSUME NEW i \in DOMAIN variants(d)
          PROVE  /\ variant_registry[VariantDid(d, i)] \in DOMAIN cells
                 /\ cells[variant_registry[VariantDid(d, i)]].owner = c
      <4>1. ~\E h \in DOMAIN tasks : AwaitsVariant(tasks[h], c, i)
        <5> SUFFICES ASSUME NEW h \in DOMAIN tasks, AwaitsVariant(tasks[h], c, i) PROVE FALSE
          OBVIOUS
        <5>1. Inside(tasks[h], c)
          BY DEF AwaitsVariant, Inside
        <5>2. PICK j \in DOMAIN tasks : h < j /\ Builds(tasks[j], c)
          BY <5>1 DEF IInv, LoopInv, StackInv, Nested
        <5>3. j = 1
          BY <1>1, <1>2, <1>5, <5>2 DEF IInv, LoopInv, StackInv, Once, At
        <5> QED BY <1>0, <5>2, <5>3, AtHand
      <4>2. VariantEntered(c, i)
        BY <1>1, <1>2, <1>3, <4>1 DEF IInv, LoopInv, VariantsEntered
      <4>3. VariantDid(d, i) = <<d, i>>
        BY <1>5 DEF VariantDid
      <4> QED BY <1>3, <4>2, <4>3 DEF VariantEntered
    <3> QED BY <1>4, <3>1
  <2>1. \A r \in new : /\ r \in DOMAIN cells /\ cells[r].owner = r
                       /\ cells[r].adt \in cells[c].deps
    BY <1>0, <1>c, <2>0 DEF CellsInv, CellOK
  <2>2. new \in SUBSET Nat
    BY <1>0, <2>1 DEF TypeInv
  <2>3. PICK x \in Cell : x = cells[c]
    BY <1>0, CellParts
  <2>4. PICK y : y = [x EXCEPT !.filled = TRUE]
    OBVIOUS
  <2>5. /\ y \in Cell /\ y.adt = x.adt /\ y.owner = x.owner
        /\ y.deps = x.deps /\ y.field = x.field /\ y.refs = x.refs
    BY <2>4, CellFilled
  <2>6. PICK z : z = [y EXCEPT !.refs = new]
    OBVIOUS
  <2>7. /\ z \in Cell /\ z.refs = new /\ z.adt = x.adt /\ z.owner = x.owner
        /\ z.deps = x.deps /\ z.field = x.field
    BY <2>2, <2>5, <2>6, CellRefs
  <2>8. cells' = [cells EXCEPT ![c] = z]
    <3>1. \A q : q = [cells EXCEPT ![c] = y] => q[c] = y /\ [q EXCEPT ![c] = z] = [cells EXCEPT ![c] = z]
      OBVIOUS
    <3> QED BY <1>0, <1>8, <2>3, <2>4, <2>6, <3>1
  <2>a. cells \in Seq(Cell)
    BY <1>0 DEF TypeInv
  <2>9. /\ cells' \in Seq(Cell) /\ DOMAIN cells' = DOMAIN cells /\ cells'[c] = z
        /\ \A w \in DOMAIN cells : w # c => cells'[w] = cells[w]
    BY <2>a, <2>7, <2>8, Replaced
  <2>10. /\ Fills(c)
         /\ \A w \in DOMAIN cells : cells'[w].refs = IF w = c THEN new ELSE cells[w].refs
    BY <2>3, <2>7, <2>9 DEF Fills
  <2>11. CellsInv'
    <3>1. CellsGrow
      BY <1>0, <2>10 DEF CellsGrow, Fills
    <3>2. /\ \A w \in DOMAIN cells : cells[w].deps \subseteq cells'[w].deps
          /\ DOMAIN cells' = DOMAIN cells
      BY <2>10 DEF Fills
    <3>3. cells[c].owner = c
      BY <1>0, <1>1, <1>2, <1>3, AtHand DEF TaskOK
    <3>4. \A w \in DOMAIN cells : \A r \in cells'[w].field \cup cells'[w].refs :
            \/ r \in cells[w].field \cup cells[w].refs
            \/ /\ r \in DOMAIN cells /\ cells[r].owner = r
               /\ cells[r].adt \in cells'[cells[w].owner].deps
      <4>1. \A w \in DOMAIN cells : \A r \in cells'[w].field \cup cells'[w].refs :
              r \in cells[w].field \cup cells[w].refs \/ (w = c /\ r \in new)
        BY <2>10 DEF Fills
      <4> QED BY <2>1, <3>2, <3>3, <4>1
    <3> QED BY <1>0, <3>1, <3>2, <3>4, CellsNext
  <2>12. CASE Did(d) \in adt_shims
    <3>1. adt_deps' = adt_deps
      BY <1>8, <2>12
    <3>2. /\ DOMAIN adt_deps \subseteq DOMAIN adt_deps'
          /\ \A e \in DOMAIN adt_deps' : e \in Adt /\ adt_deps'[e] \subseteq Adt
      BY <1>0, <3>1 DEF TypeInv
    <3> HIDE DEF IInv
    <3> QED BY <1>0, <1>1, <1>3, <1>5, <1>8, <2>10, <2>11, <2>12, <3>2, BuiltNext
  <2>13. CASE Did(d) \notin adt_shims
    <3>1. /\ DOMAIN adt_deps' = DOMAIN adt_deps \cup {d} /\ adt_deps'[d] = cells[c].deps \ {d}
          /\ \A w \in DOMAIN adt_deps : w # d => adt_deps'[w] = adt_deps[w]
      BY <1>8, <2>13, WithAt
    <3>2. /\ DOMAIN adt_deps \subseteq DOMAIN adt_deps'
          /\ \A e \in DOMAIN adt_deps' : e \in Adt /\ adt_deps'[e] \subseteq Adt
      BY <1>0, <3>1, CellParts DEF TypeInv
    <3>3. /\ d \in DOMAIN adt_deps' /\ cells[c].deps \subseteq adt_deps'[d] \cup {d}
          /\ \A e \in DOMAIN adt_deps : e # d => adt_deps'[e] = adt_deps[e]
      BY <3>1
    <3> HIDE DEF IInv
    <3> QED BY <1>0, <1>1, <1>3, <1>5, <1>8, <2>10, <2>11, <3>2, <3>3, BuiltNext
  <2> QED BY <2>12, <2>13
<1> QED
  BY <1>6, <1>7, <1>8

LEMMA StackOverflowNext ==
  ASSUME IInv, StackOverflow, UNCHANGED rest
  PROVE  IInv'
<1>1. outcome = "none" /\ Panic /\ UNCHANGED <<results, phase, layers>>
  BY DEF StackOverflow, rest
<1> HIDE DEF IInv
<1> QED
  BY <1>1, PanicNext

-----------------------------------------------------------------------------
(* Registering and entering an ADT.                                          *)

LEMMA Appended ==
  ASSUME NEW cs \in Seq(Cell), NEW y \in Cell, NEW r, r = Append(cs, y), NEW c, c = Len(cs) + 1
  PROVE  /\ r \in Seq(Cell) /\ c \in Nat /\ c \notin DOMAIN cs /\ DOMAIN r = DOMAIN cs \cup {c}
         /\ r[c] = y /\ \A w \in DOMAIN cs : r[w] = cs[w]
OBVIOUS

IsNewCell(y, d, o) ==
  /\ y \in Cell /\ y.adt = d /\ y.owner = o /\ y.filled = FALSE /\ y.deps = {}
  /\ y.field = {} /\ y.refs = {}

LEMMA NewCellIs ==
  ASSUME NEW d \in Adt, NEW o \in Nat, NEW y, y = NewCell(d, o)
  PROVE  IsNewCell(y, d, o)
BY DEF NewCell, Cell, IsNewCell

(* What holds of the cells when at most empty ones are added. *)
CellsAdded ==
  /\ cells' \in Seq(Cell)
  /\ \A w \in DOMAIN cells : w \in DOMAIN cells' /\ cells'[w] = cells[w]
  /\ \A w \in DOMAIN cells' \ DOMAIN cells :
       /\ cells'[w].filled = FALSE /\ cells'[w].deps = {}
       /\ cells'[w].field = {} /\ cells'[w].refs = {}
       /\ cells'[w].adt \notin crate.shims
       /\ cells'[w].owner \in DOMAIN cells'
       /\ cells'[cells'[w].owner].owner = cells'[w].owner
       /\ cells'[cells'[w].owner].adt = cells'[w].adt

LEMMA AddedNext ==
  ASSUME CellsInv, CellsAdded, crate' = crate
  PROVE  CellsInv' /\ CellsGrow /\ CellsStep
<1>1. CellsGrow
  BY DEF CellsAdded, CellsGrow
<1>2. CellsStep
  BY DEF CellsAdded, CellsStep
<1>3. ASSUME NEW w \in DOMAIN cells' PROVE CellOK(w)'
  <2>1. CASE w \in DOMAIN cells
    BY <2>1 DEF CellsInv, CellOK, CellsAdded
  <2>2. CASE w \notin DOMAIN cells
    BY <2>2 DEF CellOK, CellsAdded
  <2> QED BY <2>1, <2>2
<1> QED
  BY <1>1, <1>2, <1>3 DEF CellsInv

LEMMA EnterNext ==
  ASSUME IInv, outcome = "none", tasks # << >>, NEW t \in Task, t = tasks[1], NEW p, Pushes(p),
         t.k \in {"register", "enter", "variant"},
         UNCHANGED <<crate, adt_deps, adt_shims, uses, outcome, results, phase, layers>>,
         CellsAdded, RegistryStep,
         \A d \in Adt : is_registered_local_adt(d) => is_registered_local_adt(d)',
         Registering(p, t), Serving(p, t), VariantsStay(t), StaysHarmless(p, t),
         \A d \in DOMAIN enum_registry' \ DOMAIN enum_registry :
           \E i \in DOMAIN p, c \in DOMAIN cells : Builds(p[i], c) /\ cells[c].adt = d
  PROVE  IInv'
<1>0. TypeInv /\ CellsInv /\ RegistryInv /\ UsesInv /\ FilledInv
  BY DEF IInv
<1>1. CellsInv' /\ CellsGrow /\ CellsStep
  BY <1>0, AddedNext
<1>2. TypeInv'
  <2>1. tasks' \in Seq(Task) /\ cells' \in Seq(Cell)
    BY <1>0, Positions DEF TypeInv, CellsAdded
  <2> QED BY <1>0, <2>1 DEF TypeInv
<1>3. Grows
  BY <1>1 DEF Grows
<1>4. NewShims(t)
  BY DEF NewShims
<1>5. PushStep(p, t)
  BY <1>1, <1>3, <1>4 DEF PushStep
<1>6. LedgerStep(p, t)
  BY DEF LedgerStep, Builds
<1>7. LoopInv' /\ LibrariesInv' /\ ShimsInv' /\ ResultsInv' /\ ControlInv'
  BY <1>2, <1>5, <1>6, LedgerNext
<1>8. UsesInv'
  BY <1>0 DEF UsesInv, Did
<1>9. RegistryInv'
  BY <1>0, <1>1, RegistryNext
<1>10. FilledInv'
  <2>1. PICK same : same = DOMAIN cells
    OBVIOUS
  <2>2. /\ same \subseteq DOMAIN cells /\ \A c \in same : cells'[c] = cells[c]
        /\ \A c \in DOMAIN cells' \ same : cells'[c].filled = FALSE
    BY <2>1 DEF CellsAdded
  <2>3. Alive' => Alive
    BY DEF Alive, stopped
  <2> QED BY <1>0, <2>2, <2>3, FilledStays
<1> QED
  BY <1>1, <1>2, <1>7, <1>8, <1>9, <1>10 DEF IInv

LEMMA RegisterAdtNext ==
  ASSUME IInv, RegisterAdt, UNCHANGED rest
  PROVE  IInv'
<1>0. /\ outcome = "none" /\ tasks # << >> /\ Head(tasks).k = "register"
      /\ UNCHANGED <<crate, variant_registry, enum_registry, adt_deps, adt_shims, uses, outcome,
                     results, phase, layers>>
      /\ TypeInv /\ CellsInv /\ LibrariesInv /\ UsesInv
  BY DEF RegisterAdt, Top, task, IInv, rest
<1>1. PICK t \in Task : t = tasks[1] /\ t = task
  BY <1>0, AtHand
<1>2. t.k = "register" /\ 1 \in DOMAIN tasks
  BY <1>0, <1>1, AtHand DEF task
<1>3. PICK d \in Adt, c \in {Len(cells) + 1} : d = t.adt /\ c = Len(cells) + 1
  BY <1>2, TaskParts
<1>4. \/ is_registered_adt(d) /\ Push(<< >>) /\ UNCHANGED cells
      \/ /\ ~is_registered_adt(d)
         /\ cells' = Append(cells, NewCell(d, c))
         /\ Push(TypeTasks(def(d).bounds, TraitReqs(c)) \o <<[k |-> "enter", cell |-> c]>>)
  BY <1>1, <1>3 DEF RegisterAdt
<1>5. CASE is_registered_adt(d) /\ Push(<< >>) /\ UNCHANGED cells
  <2>1. tasks' = << >> \o Tail(tasks) /\ UNCHANGED <<crate, registry, outcome, results, phase, layers>>
    BY <1>0, <1>5 DEF Push, registry
  <2>2. uses' \subseteq Adt \X Nat /\ UsesInv'
    BY <1>0 DEF TypeInv, UsesInv, Did
  <2>3. is_registered_adt(t.adt)
    BY <1>3, <1>5
  <2> HIDE DEF IInv
  <2> QED BY <1>0, <1>1, <1>2, <2>1, <2>2, <2>3, QuietPop
<1>6. CASE /\ ~is_registered_adt(d)
           /\ cells' = Append(cells, NewCell(d, c))
           /\ Push(TypeTasks(def(d).bounds, TraitReqs(c)) \o <<[k |-> "enter", cell |-> c]>>)
  <2>1. cells \in Seq(Cell) /\ Len(cells) \in Nat
    BY <1>0 DEF TypeInv
  <2>2. PICK y : y = NewCell(d, c)
    OBVIOUS
  <2>3. /\ y \in Cell /\ y.adt = d /\ y.owner = c /\ y.filled = FALSE /\ y.deps = {}
        /\ y.field = {} /\ y.refs = {}
    <3>1. c \in Nat
      BY <1>3, <2>1
    <3>2. IsNewCell(y, d, c)
      BY <2>2, <3>1, NewCellIs
    <3> QED BY <3>2 DEF IsNewCell
  <2>4. /\ cells' \in Seq(Cell) /\ c \in Nat /\ c \notin DOMAIN cells
        /\ DOMAIN cells' = DOMAIN cells \cup {c}
        /\ cells'[c] = y /\ \A w \in DOMAIN cells : cells'[w] = cells[w]
    <3>1. cells' = Append(cells, y)
      BY <1>6, <2>2
    <3> QED BY <1>3, <2>1, <2>3, <3>1, Appended
  <2>5. d \notin crate.shims
    BY <1>0, <1>6 DEF LibrariesInv, is_registered_adt
  <2>6. CellsAdded
    BY <2>3, <2>4, <2>5 DEF CellsAdded
  <2>7. PICK T, x : T = TypeTasks(def(d).bounds, TraitReqs(c)) /\ x = [k |-> "enter", cell |-> c]
    OBVIOUS
  <2>8. /\ T \in Seq(Task)
        /\ \A i \in DOMAIN T : T[i].k = "type" /\ T[i].ctx.k = "bounds" /\ T[i].ctx.cell = c
    <3>1. TraitReqs(c) \in Ctx /\ TraitReqs(c).k = "bounds" /\ TraitReqs(c).cell = c
      BY <2>4 DEF TraitReqs, Ctx
    <3>2. def(d).bounds \in Seq(Types)
      BY <1>0, DefShape DEF TypeInv
    <3> QED BY <2>7, <3>1, <3>2, TypeTasksAre
  <2>9. x \in Task /\ x.k = "enter" /\ x.cell = c
    BY <2>4, <2>7 DEF Task
  <2>10. PICK p : p = T \o <<x>>
    OBVIOUS
  <2>11. Ends(p, T, x)
    BY <2>8, <2>9, <2>10, WithLast
  <2>12. /\ p \in Seq(Task) /\ tasks' = p \o Tail(tasks) /\ Len(p) \in DOMAIN p
         /\ p[Len(p)].k = "enter" /\ p[Len(p)].cell = c
         /\ \A i \in DOMAIN p :
              \/ p[i].k = "type" /\ p[i].ctx.k = "bounds" /\ p[i].ctx.cell = c
              \/ i = Len(p) /\ p[i].k = "enter" /\ p[i].cell = c
    BY <1>6, <2>7, <2>8, <2>9, <2>10, <2>11 DEF Ends, Push
  <2>13. \A i \in DOMAIN p : TaskOK(p[i])'
    <3>1. ASSUME NEW q, \/ q.k = "type" /\ q.ctx.k = "bounds" /\ q.ctx.cell = c
                        \/ q.k = "enter" /\ q.cell = c
          PROVE  TaskOK(q)'
      BY <2>3, <2>4, <3>1 DEF TaskOK
    <3> QED BY <2>12, <3>1
  <2>14. /\ \A i \in DOMAIN p : \A b : ~Inside(p[i], b)' /\ ~Builds(p[i], b) /\ ~OfFunction(p[i])
         /\ \A i \in DOMAIN p : \A b : Enters(p[i], b) => i = Len(p) /\ b = c
    BY <2>12 DEF Inside, Builds, OfFunction, Enters
  <2>15. Pushes(p)
    <3>1. ~is_registered_adt(cells'[c].adt)
      BY <1>6, <2>3, <2>4
    <3>2. \A i \in DOMAIN p, b \in DOMAIN cells' :
             Enters(p[i], b) => /\ i = Len(p) /\ b \notin DOMAIN cells
                                /\ ~is_registered_adt(cells'[b].adt)
      BY <2>4, <2>14, <3>1
    <3> QED BY <1>0, <2>12, <2>13, <2>14, <3>2 DEF Pushes
  <2>16. RegistryStep
    BY <1>0 DEF RegistryStep
  <2>17. \A e \in Adt : is_registered_local_adt(e) => is_registered_local_adt(e)'
    BY <1>0 DEF is_registered_local_adt, Did
  <2>18. Registering(p, t)
    <3>1. Registers(p[Len(p)], d)'
      <4>1. PICK q : q = p[Len(p)]
        OBVIOUS
      <4>2. Registers(q, d)'
        BY <2>3, <2>4, <2>12, <4>1 DEF Registers
      <4> QED BY <4>1, <4>2
    <3>2. \A e : Registers(t, e) => e = d
      BY <1>2, <1>3 DEF Registers
    <3> QED BY <2>12, <2>14, <3>1, <3>2 DEF Registering
  <2>19. Serving(p, t)
    BY <1>2, <2>14 DEF Serving, AwaitsUse
  <2>20. VariantsStay(t)
    BY <1>0 DEF VariantsStay
  <2>21. StaysHarmless(p, t)
    BY <1>2, <1>3, <1>6 DEF StaysHarmless, Harmless, Enters, SoundDef
  <2> HIDE DEF IInv
  <2> QED BY <1>0, <1>1, <1>2, <2>6, <2>15, <2>16, <2>17, <2>18, <2>19, <2>20, <2>21, EnterNext
<1> QED
  BY <1>4, <1>5, <1>6

(* The tasks of the fields of a cell, and the one that comes after them.     *)
FieldsThen(p, v, fields, x) ==
  /\ p \in Seq(Task) /\ Len(p) \in DOMAIN p /\ p[Len(p)] = x
  /\ \A i \in DOMAIN p :
       \/ i = Len(p) /\ p[i] = x
       \/ i < Len(p) /\ p[i].k = "field" /\ p[i].cell = v
       \/ /\ i < Len(p) /\ p[i].k = "type" /\ p[i].ctx.k = "adt" /\ p[i].ctx.cell = v
          /\ \E f \in DOMAIN fields : p[i].ty = fields[f].ty
  /\ \A f \in DOMAIN fields : \E i \in DOMAIN p :
       p[i].k = "type" /\ p[i].ctx.k = "adt" /\ p[i].ctx.cell = v /\ p[i].ty = fields[f].ty

FieldsIn(s, v, fields) ==
  /\ \A i \in DOMAIN s :
       \/ s[i].k = "field" /\ s[i].cell = v
       \/ /\ s[i].k = "type" /\ s[i].ctx.k = "adt" /\ s[i].ctx.cell = v
          /\ \E f \in DOMAIN fields : s[i].ty = fields[f].ty
  /\ \A f \in DOMAIN fields : \E i \in DOMAIN s :
       s[i].k = "type" /\ s[i].ctx.k = "adt" /\ s[i].ctx.cell = v /\ s[i].ty = fields[f].ty

LEMMA FieldTasksIn ==
  ASSUME NEW s, NEW v, NEW fields, FieldTasksOf(s, v, fields)
  PROVE  FieldsIn(s, v, fields)
<1>1. TranslateAdt(v).k = "adt" /\ TranslateAdt(v).cell = v
  BY DEF TranslateAdt
<1>2. PICK ctx : ctx = TranslateAdt(v)
  OBVIOUS
<1>3. ctx.k = "adt" /\ ctx.cell = v
  BY <1>1, <1>2
<1> QED
  BY <1>2, <1>3 DEF FieldTasksOf, FieldsIn

LEMMA FieldsThenLast ==
  ASSUME NEW v \in Nat, NEW fields \in Seq([ty : Types, annotated : BOOLEAN]), NEW x \in Task,
         NEW p, p = FieldTasks(v, fields) \o <<x>>
  PROVE  FieldsThen(p, v, fields, x)
<1>1. PICK s : s = FieldTasks(v, fields)
  OBVIOUS
<1>2. FieldTasksOf(s, v, fields)
  BY <1>1, FieldTasksAre
<1>3. s \in Seq(Task)
  BY <1>2 DEF FieldTasksOf
<1>4. Ends(p, s, x)
  BY <1>1, <1>3, WithLast
<1>5. /\ \A i \in DOMAIN s :
           \/ s[i].k = "field" /\ s[i].cell = v
           \/ /\ s[i].k = "type" /\ s[i].ctx.k = "adt" /\ s[i].ctx.cell = v
              /\ \E f \in DOMAIN fields : s[i].ty = fields[f].ty
      /\ \A f \in DOMAIN fields : \E i \in DOMAIN s :
           s[i].k = "type" /\ s[i].ctx.k = "adt" /\ s[i].ctx.cell = v /\ s[i].ty = fields[f].ty
  BY <1>2, FieldTasksIn DEF FieldsIn
<1>6. /\ p \in Seq(Task) /\ Len(p) \in DOMAIN p /\ p[Len(p)] = x
      /\ \A i \in DOMAIN s : i \in DOMAIN p /\ p[i] = s[i] /\ i < Len(p)
      /\ \A i \in DOMAIN p : i \in DOMAIN s \/ i = Len(p)
  BY <1>4 DEF Ends
<1>7. \A i \in DOMAIN p :
        \/ i = Len(p) /\ p[i] = x
        \/ i < Len(p) /\ p[i].k = "field" /\ p[i].cell = v
        \/ /\ i < Len(p) /\ p[i].k = "type" /\ p[i].ctx.k = "adt" /\ p[i].ctx.cell = v
           /\ \E f \in DOMAIN fields : p[i].ty = fields[f].ty
  BY <1>5, <1>6
<1>8. \A f \in DOMAIN fields : \E i \in DOMAIN p :
        p[i].k = "type" /\ p[i].ctx.k = "adt" /\ p[i].ctx.cell = v /\ p[i].ty = fields[f].ty
  BY <1>5, <1>6
<1> QED
  BY <1>6, <1>7, <1>8 DEF FieldsThen

\* A struct is entered, and its fields come next.
StructEntered(p, c, d) ==
  /\ FieldsThen(p, c, variants(d)[1].fields, [k |-> "build_struct", cell |-> c])
  /\ tasks' = p \o Tail(tasks)
  /\ variant_registry' = With(variant_registry, Did(d), c)
  /\ UNCHANGED <<crate, cells, enum_registry, adt_deps, adt_shims, uses, outcome,
                 results, phase, layers>>

LEMMA EnterStruct ==
  ASSUME IInv, outcome = "none", tasks # << >>, NEW t \in Task, t = tasks[1], t.k = "enter",
         NEW c \in DOMAIN cells, c = t.cell, NEW d \in Adt, d = cells[c].adt,
         is_struct(d), def(d).repr_ok, NEW p, StructEntered(p, c, d)
  PROVE  IInv'
<1>0. TypeInv /\ CellsInv /\ TaskOK(t) /\ c \in Nat /\ Enters(t, c)
  BY AtHand DEF IInv, TypeInv, Enters
<1>1. PICK fields : fields = variants(d)[1].fields
  OBVIOUS
<1>2. DOMAIN variants(d) = {1}
  <2>1. variants(d) \in Seq([fields : Seq([ty : Types, annotated : BOOLEAN])]) /\ Len(variants(d)) = 1
    BY <1>0, DefShape DEF TypeInv
  <2> QED BY <2>1
<1>3. UNCHANGED <<crate, cells, enum_registry, adt_deps, adt_shims, uses, outcome,
                  results, phase, layers>>
  BY DEF StructEntered
<1>5. PICK x : x = [k |-> "build_struct", cell |-> c] /\ FieldsThen(p, c, fields, x)
  BY <1>1 DEF StructEntered
<1>6. /\ p \in Seq(Task) /\ Len(p) \in DOMAIN p /\ p[Len(p)].k = "build_struct" /\ p[Len(p)].cell = c
      /\ \A i \in DOMAIN p :
           \/ i = Len(p) /\ p[i].k = "build_struct" /\ p[i].cell = c
           \/ i < Len(p) /\ p[i].k = "field" /\ p[i].cell = c
           \/ /\ i < Len(p) /\ p[i].k = "type" /\ p[i].ctx.k = "adt" /\ p[i].ctx.cell = c
              /\ \E f \in DOMAIN fields : p[i].ty = fields[f].ty
      /\ \A f \in DOMAIN fields : \E i \in DOMAIN p :
           p[i].k = "type" /\ p[i].ctx.k = "adt" /\ p[i].ctx.cell = c /\ p[i].ty = fields[f].ty
  <2>1. x.k = "build_struct" /\ x.cell = c
    BY <1>5
  <2> QED BY <1>5, <2>1 DEF FieldsThen
<1>7. cells[c].owner = c /\ ~cells[c].filled
  BY <1>0 DEF TaskOK
<1>8. \A i \in DOMAIN p : \A b : Builds(p[i], b) => i = Len(p) /\ b = c
  BY <1>6 DEF Builds
<1>9. /\ \A i \in DOMAIN p : \A b : ~Enters(p[i], b) /\ ~OfFunction(p[i])
      /\ \A i \in DOMAIN p : p[i].k \notin {"use", "construct"}
      /\ \A b, e : ~AwaitsUse(t, b, e)
  BY <1>6 DEF Enters, OfFunction, AwaitsUse
<1>10. \A i \in DOMAIN p : \A b : Inside(p[i], b) => b = c /\ i < Len(p)
  BY <1>6, <1>7 DEF Inside
<1>11. \A i \in DOMAIN p : i = Len(p) \/ Inside(p[i], c)
  BY <1>6, <1>7 DEF Inside
<1>12. /\ \A q, b : Inside(q, b)' <=> Inside(q, b)
       /\ \A q, b, S, M : Harmless(q, b, S, M)' <=> Harmless(q, b, S, M)
       /\ \A q, b, ty : AwaitsType(q, b, ty)' <=> AwaitsType(q, b, ty)
  BY <1>3 DEF Inside, Harmless, AwaitsType
<1>13. \A i \in DOMAIN p : TaskOK(p[i])'
  <2>1. ASSUME NEW q, \/ q.k = "build_struct" /\ q.cell = c
                      \/ q.k = "field" /\ q.cell = c
                      \/ q.k = "type" /\ q.ctx.k = "adt" /\ q.ctx.cell = c
        PROVE  TaskOK(q)'
    BY <1>3, <1>7, <2>1 DEF TaskOK, is_struct, def
  <2> QED BY <1>6, <2>1
<1>14. Pushes(p)
  <2>1. \A i \in DOMAIN p, b \in DOMAIN cells' :
          Inside(p[i], b)' => \/ b \in DOMAIN cells /\ Inside(tasks[1], b)
                              \/ \E j \in DOMAIN p : i < j /\ Builds(p[j], b)
    BY <1>6, <1>10, <1>12 DEF Builds
  <2>2. tasks' = p \o Tail(tasks)
    BY DEF StructEntered
  <2>3. \A i \in DOMAIN p, b \in DOMAIN cells' :
          Builds(p[i], b) => i = Len(p) /\ b \in DOMAIN cells /\ Enters(tasks[1], b)
    BY <1>0, <1>8
  <2>4. \A i \in DOMAIN p, b \in DOMAIN cells' :
          Enters(p[i], b) => /\ i = Len(p) /\ b \notin DOMAIN cells
                             /\ ~is_registered_adt(cells'[b].adt)
    BY <1>9
  <2> QED BY <1>6, <1>9, <1>13, <2>1, <2>2, <2>3, <2>4 DEF Pushes
<1>15. PICK g : g = variant_registry'
  OBVIOUS
<1>16. /\ DOMAIN g = DOMAIN variant_registry \cup {Did(d)} /\ g[Did(d)] = c
       /\ \A z \in DOMAIN variant_registry : z # Did(d) => g[z] = variant_registry[z]
  <2>1. g = With(variant_registry, Did(d), c)
    BY <1>15 DEF StructEntered
  <2> QED BY ONLY <2>1 DEF With
<1>17. RegistryStep
  <2>1. EntryOK(d, c)'
    BY <1>3, <1>7 DEF EntryOK
  <2>2. EntryOK(d, variant_registry[Did(d)])'
    BY <1>15, <1>16, <2>1
  <2>3. \A e \in Adt : Did(e) = Did(d) => e = d
    BY DEF Did
  <2> QED BY <1>3, <1>15, <1>16, <2>2, <2>3 DEF RegistryStep
<1>18. /\ \A e \in Adt : is_registered_local_adt(e) => is_registered_local_adt(e)'
       /\ is_registered_local_adt(d)' /\ is_registered_adt(d)'
  BY <1>3, <1>15, <1>16 DEF is_registered_local_adt, is_registered_adt, Did
<1>19. Registering(p, t)
  <2>1. \A e : Registers(t, e) => e = d
    BY DEF Registers
  <2>2. \A i \in DOMAIN p, b \in DOMAIN cells : Builds(p[i], b) => is_registered_local_adt(cells[b].adt)'
    <3>1. ASSUME NEW i \in DOMAIN p, NEW b \in DOMAIN cells, Builds(p[i], b)
          PROVE  is_registered_local_adt(cells[b].adt)'
      <4>1. b = c
        BY <1>8, <3>1
      <4>2. cells'[b].adt = d
        BY <1>3, <4>1
      <4> QED BY <1>18, <4>2 DEF is_registered_local_adt
    <3> QED BY <3>1
  <2> QED BY <1>9, <1>18, <2>1, <2>2 DEF Registering
<1>20. \A f \in DOMAIN fields : \E h \in DOMAIN p : AwaitsType(p[h], c, fields[f].ty)
  BY <1>6, <1>7 DEF AwaitsType, Inside
<1>21. Serving(p, t)
  <2>1. ASSUME NEW i \in DOMAIN p, NEW b \in DOMAIN cells, Builds(p[i], b),
               NEW v \in DOMAIN variants(cells[b].adt)
        PROVE  /\ p[i].k = "build_struct"
               /\ \A f \in DOMAIN variants(cells[b].adt)[v].fields :
                    \E h \in DOMAIN p : AwaitsType(p[h], b, variants(cells[b].adt)[v].fields[f].ty)'
    <3>1. b = c /\ i = Len(p)
      BY <1>8, <2>1
    <3>2. v = 1 /\ variants(cells[b].adt)[v].fields = fields
      BY <1>1, <1>2, <3>1
    <3>3. ASSUME NEW f \in DOMAIN fields
          PROVE  \E h \in DOMAIN p : AwaitsType(p[h], b, variants(cells[b].adt)[v].fields[f].ty)'
      <4>1. PICK ty : ty = fields[f].ty
        OBVIOUS
      <4>2. PICK h \in DOMAIN p : AwaitsType(p[h], c, ty)
        BY <1>20, <4>1
      <4>3. AwaitsType(p[h], b, ty)'
        BY <1>12, <3>1, <4>2
      <4>4. (variants(cells[b].adt)[v].fields[f].ty)' = ty
        BY <1>3, <3>2, <4>1 DEF variants, def
      <4> QED BY <4>3, <4>4
    <3> QED BY <1>6, <3>1, <3>2, <3>3
  <2> QED BY <1>9, <2>1 DEF Serving
<1>22. VariantsStay(t)
  <2>1. \A e \in Adt, i \in Nat : i # 0 => <<e, i>> # Did(d)
    BY DEF Did
  <2> QED BY <1>15, <1>16, <2>1 DEF VariantsStay
<1>23. StaysHarmless(p, t)
  <2>1. ASSUME NEW b \in DOMAIN cells, NEW S \in SUBSET Types, NEW M \in SUBSET Adt,
               SoundDef(cells[b].adt, S, M), Harmless(t, b, S, M) \/ Enters(t, b), NEW h \in DOMAIN p
        PROVE  Builds(p[h], b) \/ Harmless(p[h], b, S, M)'
    <3>1. b = c
      BY <2>1 DEF Harmless, Enters
    <3>2. \A f \in DOMAIN fields : fields[f].ty \in S
      BY <1>1, <1>2, <2>1, <3>1 DEF SoundDef
    <3>3. CASE h = Len(p)
      BY <1>6, <3>1, <3>3 DEF Builds
    <3>4. CASE h # Len(p)
      <4>1. Inside(p[h], b)
        BY <1>11, <3>1, <3>4
      <4>2. Harmless(p[h], b, S, M)
        BY <1>6, <3>2, <3>4, <4>1 DEF Harmless
      <4> QED BY <1>12, <4>2
    <3> QED BY <3>3, <3>4
  <2> QED BY <2>1 DEF StaysHarmless
<1>24. CellsAdded
  BY <1>0, <1>3 DEF CellsAdded, TypeInv
<1> HIDE DEF IInv
<1> QED
  BY <1>3, <1>14, <1>17, <1>18, <1>19, <1>21, <1>22, <1>23, <1>24, EnterNext

(* The tasks of the variants of an enum, and the one that comes after them.  *)
VariantsThen(p, c, vs) ==
  /\ p \in Seq(Task) /\ Len(p) \in DOMAIN p
  /\ p[Len(p)].k = "build_enum" /\ p[Len(p)].cell = c
  /\ \A i \in DOMAIN p :
       \/ i = Len(p) /\ p[i].k = "build_enum" /\ p[i].cell = c
       \/ i < Len(p) /\ p[i].k = "variant" /\ p[i].cell = c /\ p[i].i \in DOMAIN vs
  /\ \A v \in DOMAIN vs : \E h \in DOMAIN p : p[h].k = "variant" /\ p[h].cell = c /\ p[h].i = v

LEMMA VariantTasksAre ==
  ASSUME NEW c \in Nat, NEW n \in Nat, NEW s, s = [i \in 1 .. n |-> [k |-> "variant", cell |-> c, i |-> i]]
  PROVE  /\ s \in Seq(Task) /\ DOMAIN s = 1 .. n
         /\ \A i \in 1 .. n : s[i].k = "variant" /\ s[i].cell = c /\ s[i].i = i
<1>1. \A i \in 1 .. n : [k |-> "variant", cell |-> c, i |-> i] \in Task
  BY DEF Task
<1> QED
  BY <1>1

LEMMA VariantsThenLast ==
  ASSUME NEW c \in Nat, NEW S, NEW vs \in Seq(S), NEW s, NEW p, NEW x,
         s = [i \in DOMAIN vs |-> [k |-> "variant", cell |-> c, i |-> i]],
         x = [k |-> "build_enum", cell |-> c], p = s \o <<x>>
  PROVE  VariantsThen(p, c, vs)
<1>1. PICK n \in Nat : DOMAIN vs = 1 .. n
  OBVIOUS
<1>2. s = [i \in 1 .. n |-> [k |-> "variant", cell |-> c, i |-> i]]
  BY <1>1
<1>3. /\ s \in Seq(Task) /\ DOMAIN s = 1 .. n
      /\ \A i \in 1 .. n : s[i].k = "variant" /\ s[i].cell = c /\ s[i].i = i
  BY ONLY <1>2, n \in Nat, c \in Nat, VariantTasksAre
<1>4. x \in Task /\ x.k = "build_enum" /\ x.cell = c
  BY DEF Task
<1>5. Ends(p, s, x)
  BY ONLY <1>3, <1>4, p = s \o <<x>>, WithLast
<1>6. /\ p \in Seq(Task) /\ Len(p) \in DOMAIN p /\ p[Len(p)] = x
      /\ \A i \in DOMAIN s : i \in DOMAIN p /\ p[i] = s[i] /\ i < Len(p)
      /\ \A i \in DOMAIN p : i \in DOMAIN s \/ i = Len(p)
  BY ONLY <1>5 DEF Ends
<1> QED
  BY ONLY <1>1, <1>3, <1>4, <1>6 DEF VariantsThen

\* An enum is entered, and its variants come next.
EnumEntered(p, c, d) ==
  /\ VariantsThen(p, c, variants(d))
  /\ tasks' = p \o Tail(tasks)
  /\ enum_registry' = With(enum_registry, d, c)
  /\ UNCHANGED <<crate, cells, variant_registry, adt_deps, adt_shims, uses, outcome,
                 results, phase, layers>>

LEMMA EnterEnum ==
  ASSUME IInv, outcome = "none", tasks # << >>, NEW t \in Task, t = tasks[1], t.k = "enter",
         NEW c \in DOMAIN cells, c = t.cell, NEW d \in Adt, d = cells[c].adt,
         ~is_struct(d), NEW p, EnumEntered(p, c, d)
  PROVE  IInv'
<1>0. TypeInv /\ CellsInv /\ TaskOK(t) /\ c \in Nat /\ Enters(t, c)
  BY AtHand DEF IInv, TypeInv, Enters
<1>1. PICK vs : vs = variants(d)
  OBVIOUS
<1>3. UNCHANGED <<crate, cells, variant_registry, adt_deps, adt_shims, uses, outcome,
                  results, phase, layers>>
  BY DEF EnumEntered
<1>6. /\ p \in Seq(Task) /\ Len(p) \in DOMAIN p /\ p[Len(p)].k = "build_enum" /\ p[Len(p)].cell = c
      /\ \A i \in DOMAIN p :
           \/ i = Len(p) /\ p[i].k = "build_enum" /\ p[i].cell = c
           \/ i < Len(p) /\ p[i].k = "variant" /\ p[i].cell = c /\ p[i].i \in DOMAIN vs
      /\ \A v \in DOMAIN vs : \E h \in DOMAIN p : p[h].k = "variant" /\ p[h].cell = c /\ p[h].i = v
  BY <1>1 DEF EnumEntered, VariantsThen
<1>7. cells[c].owner = c /\ ~cells[c].filled
  BY <1>0 DEF TaskOK
<1>8. \A i \in DOMAIN p : \A b : Builds(p[i], b) => i = Len(p) /\ b = c
  BY <1>6 DEF Builds
<1>9. /\ \A i \in DOMAIN p : \A b : ~Enters(p[i], b) /\ ~OfFunction(p[i])
      /\ \A i \in DOMAIN p : p[i].k \notin {"use", "construct"}
      /\ \A b, e : ~AwaitsUse(t, b, e)
  BY <1>6 DEF Enters, OfFunction, AwaitsUse
<1>10. \A i \in DOMAIN p : \A b : Inside(p[i], b) => b = c /\ i < Len(p)
  BY <1>6, <1>7 DEF Inside
<1>11. \A i \in DOMAIN p : i = Len(p) \/ Inside(p[i], c)
  BY <1>6, <1>7 DEF Inside
<1>12. /\ \A q, b : Inside(q, b)' <=> Inside(q, b)
       /\ \A q, b, S, M : Harmless(q, b, S, M)' <=> Harmless(q, b, S, M)
  BY <1>3 DEF Inside, Harmless
<1>13. \A i \in DOMAIN p : TaskOK(p[i])'
  <2>1. cells' = cells /\ crate' = crate /\ ~is_struct(d)' /\ variants(d)' = vs
    BY <1>1, <1>3 DEF is_struct, variants, def
  <2>2. ASSUME NEW q, \/ q.k = "build_enum" /\ q.cell = c
                      \/ q.k = "variant" /\ q.cell = c /\ q.i \in DOMAIN vs
        PROVE  TaskOK(q)'
    <3>1. cells'[q.cell].adt = d /\ q.cell = c
      BY <2>1, <2>2
    <3>2. ~is_struct(cells[q.cell].adt)' /\ variants(cells[q.cell].adt)' = vs
      BY <2>1, <3>1 DEF is_struct, variants, def
    <3> QED BY <1>7, <2>1, <2>2, <3>2 DEF TaskOK
  <2> QED BY <1>6, <2>2
<1>14. Pushes(p)
  <2>1. \A i \in DOMAIN p, b \in DOMAIN cells' :
          Inside(p[i], b)' => \/ b \in DOMAIN cells /\ Inside(tasks[1], b)
                              \/ \E j \in DOMAIN p : i < j /\ Builds(p[j], b)
    BY <1>6, <1>10, <1>12 DEF Builds
  <2>2. tasks' = p \o Tail(tasks)
    BY DEF EnumEntered
  <2>3. \A i \in DOMAIN p, b \in DOMAIN cells' :
          Builds(p[i], b) => i = Len(p) /\ b \in DOMAIN cells /\ Enters(tasks[1], b)
    BY <1>0, <1>8
  <2>4. \A i \in DOMAIN p, b \in DOMAIN cells' :
          Enters(p[i], b) => /\ i = Len(p) /\ b \notin DOMAIN cells
                             /\ ~is_registered_adt(cells'[b].adt)
    BY <1>9
  <2> QED BY <1>6, <1>9, <1>13, <2>1, <2>2, <2>3, <2>4 DEF Pushes
<1>15. PICK g : g = enum_registry'
  OBVIOUS
<1>16. /\ DOMAIN g = DOMAIN enum_registry \cup {d} /\ g[d] = c
       /\ \A z \in DOMAIN enum_registry : z # d => g[z] = enum_registry[z]
  <2>1. g = With(enum_registry, d, c)
    BY <1>15 DEF EnumEntered
  <2> QED BY ONLY <2>1 DEF With
<1>17. RegistryStep
  <2>1. EntryOK(d, c)'
    BY <1>3, <1>7 DEF EntryOK
  <2>2. EntryOK(d, enum_registry[d])'
    BY <1>15, <1>16, <2>1
  <2> QED BY <1>3, <1>15, <1>16, <2>2 DEF RegistryStep
<1>18. /\ \A e \in Adt : is_registered_local_adt(e) => is_registered_local_adt(e)'
       /\ is_registered_local_adt(d)' /\ is_registered_adt(d)'
  BY <1>3, <1>15, <1>16 DEF is_registered_local_adt, is_registered_adt, Did
<1>19. Registering(p, t)
  <2>1. \A e : Registers(t, e) => e = d
    BY DEF Registers
  <2>2. \A i \in DOMAIN p, b \in DOMAIN cells : Builds(p[i], b) => is_registered_local_adt(cells[b].adt)'
    <3>1. ASSUME NEW i \in DOMAIN p, NEW b \in DOMAIN cells, Builds(p[i], b)
          PROVE  is_registered_local_adt(cells[b].adt)'
      <4>1. b = c
        BY <1>8, <3>1
      <4>2. cells'[b].adt = d
        BY <1>3, <4>1
      <4> QED BY <1>18, <4>2 DEF is_registered_local_adt
    <3> QED BY <3>1
  <2> QED BY <1>9, <1>18, <2>1, <2>2 DEF Registering
<1>21. Serving(p, t)
  <2>1. ASSUME NEW i \in DOMAIN p, NEW b \in DOMAIN cells, Builds(p[i], b),
               NEW v \in DOMAIN variants(cells[b].adt)
        PROVE  \E h \in DOMAIN p : AwaitsVariant(p[h], b, v)
    <3>1. b = c
      BY ONLY <1>8, <2>1
    <3>2. variants(cells[b].adt) = vs
      BY <1>1, <3>1
    <3>3. v \in DOMAIN vs
      BY ONLY <2>1, <3>2
    <3>4. PICK x \in DOMAIN p : p[x].k = "variant" /\ p[x].cell = c /\ p[x].i = v
      BY ONLY <1>6, <3>3
    <3>5. AwaitsVariant(p[x], b, v)
      BY ONLY <3>1, <3>4 DEF AwaitsVariant
    <3> QED BY ONLY <3>4, <3>5
  <2> QED BY <1>9, <2>1 DEF Serving
<1>22. VariantsStay(t)
  BY <1>3 DEF VariantsStay
<1>23. StaysHarmless(p, t)
  <2>1. ASSUME NEW b \in DOMAIN cells, NEW S \in SUBSET Types, NEW M \in SUBSET Adt,
               Harmless(t, b, S, M) \/ Enters(t, b), NEW h \in DOMAIN p
        PROVE  Builds(p[h], b) \/ Harmless(p[h], b, S, M)'
    <3>1. b = c
      BY <2>1 DEF Harmless, Enters
    <3>3. CASE h = Len(p)
      BY <1>6, <3>1, <3>3 DEF Builds
    <3>4. CASE h # Len(p)
      <4>1. Inside(p[h], b)
        BY <1>11, <3>1, <3>4
      <4>2. Harmless(p[h], b, S, M)
        BY <1>6, <3>4, <4>1 DEF Harmless
      <4> QED BY <1>12, <4>2
    <3> QED BY <3>3, <3>4
  <2> QED BY <2>1 DEF StaysHarmless
<1>24. CellsAdded
  BY <1>0, <1>3 DEF CellsAdded, TypeInv
<1>25. \A e \in DOMAIN enum_registry' \ DOMAIN enum_registry :
         \E i \in DOMAIN p, b \in DOMAIN cells : Builds(p[i], b) /\ cells[b].adt = e
  BY <1>6, <1>15, <1>16 DEF Builds
<1> HIDE DEF IInv
<1> QED
  BY <1>3, <1>14, <1>17, <1>18, <1>19, <1>21, <1>22, <1>23, <1>24, <1>25, EnterNext

LEMMA EnterAdtNext ==
  ASSUME IInv, EnterAdt, UNCHANGED rest
  PROVE  IInv'
<1>0. /\ outcome = "none" /\ tasks # << >> /\ Head(tasks).k = "enter"
      /\ UNCHANGED <<crate, cells, adt_deps, adt_shims, uses, results, phase, layers>>
      /\ TypeInv /\ CellsInv
  BY DEF EnterAdt, Top, task, IInv, rest
<1>1. PICK t \in Task : t = tasks[1] /\ t = task
  BY <1>0, AtHand
<1>2. t.k = "enter" /\ 1 \in DOMAIN tasks /\ t.cell \in DOMAIN cells
  BY <1>0, <1>1, AtHand DEF task, TaskOK
<1>3. PICK c \in DOMAIN cells, d \in Adt : c = t.cell /\ d = cells[c].adt
  BY <1>0, <1>2, CellParts
<1>4. c \in Nat
  BY <1>0, CellParts
<1>5. \/ /\ is_struct(d) /\ def(d).repr_ok
         /\ variant_registry' = With(variant_registry, Did(d), c)
         /\ Push(FieldTasks(c, variants(d)[1].fields) \o <<[k |-> "build_struct", cell |-> c]>>)
         /\ UNCHANGED <<enum_registry, outcome>>
      \/ /\ is_struct(d) /\ ~def(d).repr_ok
         /\ Fail(Pending(tasks) \cup {c}, "skipped")
      \/ /\ ~is_struct(d)
         /\ enum_registry' = With(enum_registry, d, c)
         /\ Push([i \in DOMAIN variants(d) |-> [k |-> "variant", cell |-> c, i |-> i]]
                   \o <<[k |-> "build_enum", cell |-> c]>>)
         /\ UNCHANGED <<variant_registry, outcome>>
  <2>1. task.cell = c /\ cells[task.cell].adt = d
    BY <1>1, <1>3
  <2> QED BY <1>3, <2>1 DEF EnterAdt
<1>6. CASE /\ is_struct(d) /\ def(d).repr_ok
           /\ variant_registry' = With(variant_registry, Did(d), c)
           /\ Push(FieldTasks(c, variants(d)[1].fields) \o <<[k |-> "build_struct", cell |-> c]>>)
           /\ UNCHANGED <<enum_registry, outcome>>
  <2>1. PICK fields, x : fields = variants(d)[1].fields /\ x = [k |-> "build_struct", cell |-> c]
    OBVIOUS
  <2>2. fields \in Seq([ty : Types, annotated : BOOLEAN])
    <3>1. variants(d) \in Seq([fields : Seq([ty : Types, annotated : BOOLEAN])]) /\ Len(variants(d)) = 1
      BY <1>0, <1>6, DefShape DEF TypeInv
    <3>2. 1 \in DOMAIN variants(d)
      BY <3>1
    <3> QED BY <1>0, <2>1, <3>2, DefShape DEF TypeInv
  <2>3. x \in Task
    BY <1>4, <2>1 DEF Task
  <2>4. PICK p : p = FieldTasks(c, fields) \o <<x>>
    OBVIOUS
  <2>5. FieldsThen(p, c, fields, x)
    BY <1>4, <2>2, <2>3, <2>4, FieldsThenLast
  <2>6. StructEntered(p, c, d)
    <3>1. tasks' = p \o Tail(tasks)
      BY <1>6, <2>1, <2>4 DEF Push
    <3> QED BY <1>0, <1>6, <2>1, <2>5, <3>1 DEF StructEntered
  <2> HIDE DEF IInv
  <2> QED BY <1>0, <1>1, <1>2, <1>3, <1>6, <2>6, EnterStruct
<1>7. CASE /\ is_struct(d) /\ ~def(d).repr_ok
           /\ Fail(Pending(tasks) \cup {c}, "skipped")
  <2>1. PICK failed, how : failed = Pending(tasks) \cup {c} /\ how = "skipped"
    OBVIOUS
  <2>2. ASSUME NEW b \in failed
        PROVE  /\ b \in DOMAIN cells /\ \E j \in DOMAIN tasks : At(tasks[j], b)
               /\ Did(cells[b].adt) \notin adt_shims
    <3>1. CASE b = c
      <4>1. At(tasks[1], c) /\ ~Builds(tasks[1], c)
        BY <1>1, <1>2, <1>3 DEF At, Enters, Builds
      <4>2. ASSUME Did(d) \in adt_shims PROVE FALSE
        <5>1. PICK S \in SUBSET Types, M \in SUBSET Adt : SoundDef(d, S, M)
          BY <1>0, <1>2, <1>3, <4>1, <4>2, SecondTime
        <5>2. variants(d) # << >>
          <6>1. /\ variants(d) \in Seq([fields : Seq([ty : Types, annotated : BOOLEAN])])
                /\ Len(variants(d)) = 1
            BY <1>0, <1>7, DefShape DEF TypeInv
          <6>2. PICK s : s = variants(d)
            OBVIOUS
          <6>3. Len(s) = 1
            BY <6>1, <6>2
          <6>4. s # << >>
            BY ONLY <6>3
          <6> QED BY <6>2, <6>4
        <5> QED BY <1>7, <5>1, <5>2 DEF SoundDef
      <4> QED BY <1>2, <1>3, <3>1, <4>1, <4>2
    <3>2. CASE b # c
      <4>1. b \in DOMAIN cells
        BY <2>1, <2>2, <3>2, PendingAre
      <4>2. PICK j \in DOMAIN tasks : Builds(tasks[j], b)
        BY <2>1, <2>2, <3>2, PendingAre
      <4>3. ASSUME Did(cells[b].adt) \in adt_shims PROVE FALSE
        <5>1. PICK e : e = cells[b].adt
          OBVIOUS
        <5>2. j # 1
          BY <1>1, <1>2, <4>2 DEF Builds
        <5>3. PICK S \in SUBSET Types, M \in SUBSET Adt : Harmless(tasks[1], b, S, M)
          BY <1>0, <4>1, <4>2, <4>3, <5>1, <5>2, SecondTime DEF At
        <5> QED BY <1>1, <1>2, <5>3 DEF Harmless
      <4> QED BY <4>1, <4>2, <4>3 DEF At
    <3> QED BY <3>1, <3>2
  <2>3. \A j \in DOMAIN tasks : tasks[j].k = "build_enum" => tasks[j].cell \in failed
    BY <2>1 DEF Pending
  <2>4. how \in {"skipped", "fatal"} /\ Fail(failed, how)
    BY <1>7, <2>1
  <2> HIDE DEF IInv
  <2> QED BY <1>0, <2>2, <2>3, <2>4, SkipNext
<1>8. CASE /\ ~is_struct(d)
           /\ enum_registry' = With(enum_registry, d, c)
           /\ Push([i \in DOMAIN variants(d) |-> [k |-> "variant", cell |-> c, i |-> i]]
                     \o <<[k |-> "build_enum", cell |-> c]>>)
           /\ UNCHANGED <<variant_registry, outcome>>
  <2>1. PICK vs : vs = variants(d)
    OBVIOUS
  <2>2. vs \in Seq([fields : Seq([ty : Types, annotated : BOOLEAN])])
    BY <1>0, <2>1, DefShape DEF TypeInv
  <2>3. PICK s, x, p : /\ s = [i \in DOMAIN vs |-> [k |-> "variant", cell |-> c, i |-> i]]
                       /\ x = [k |-> "build_enum", cell |-> c]
                       /\ p = s \o <<x>>
    OBVIOUS
  <2>4. VariantsThen(p, c, vs)
    BY <1>4, <2>2, <2>3, VariantsThenLast
  <2>5. EnumEntered(p, c, d)
    <3>1. tasks' = p \o Tail(tasks)
      BY <1>8, <2>1, <2>3 DEF Push
    <3> QED BY <1>0, <1>8, <2>1, <2>4, <3>1 DEF EnumEntered
  <2> HIDE DEF IInv
  <2> QED BY <1>0, <1>1, <1>2, <1>3, <1>8, <2>5, EnterEnum
<1> QED
  BY <1>5, <1>6, <1>7, <1>8

\* A variant gets a cell of its own, and its fields come next.
VariantCell(c, v, d, i) ==
  /\ cells' = Append(cells, NewCell(d, c)) /\ v = Len(cells) + 1

VariantCellAt(c, v, d) ==
  /\ CellsAdded /\ v \in Nat /\ v \notin DOMAIN cells /\ DOMAIN cells' = DOMAIN cells \cup {v}
  /\ cells'[v].adt = d /\ cells'[v].owner = c
  /\ \A w \in DOMAIN cells : cells'[w] = cells[w]

LEMMA VariantCellIs ==
  ASSUME TypeInv, CellsInv, crate' = crate, NEW c \in DOMAIN cells, cells[c].owner = c,
         NEW d \in Adt, d = cells[c].adt, NEW v, NEW i, VariantCell(c, v, d, i)
  PROVE  VariantCellAt(c, v, d)
<1>1. cells \in Seq(Cell) /\ Len(cells) \in Nat /\ c \in Nat
  BY DEF TypeInv
<1>2. PICK y : y = NewCell(d, c)
  OBVIOUS
<1>3. IsNewCell(y, d, c)
  BY <1>1, <1>2, NewCellIs
<1>4. /\ cells' \in Seq(Cell) /\ v \in Nat /\ v \notin DOMAIN cells
      /\ DOMAIN cells' = DOMAIN cells \cup {v}
      /\ cells'[v] = y /\ \A w \in DOMAIN cells : cells'[w] = cells[w]
  <2>1. y \in Cell
    BY <1>3 DEF IsNewCell
  <2>2. cells' = Append(cells, y) /\ v = Len(cells) + 1
    BY <1>2 DEF VariantCell
  <2> QED BY ONLY <1>1, <2>1, <2>2, Appended
<1>5. d \notin crate.shims
  BY DEF CellsInv, CellOK
<1>6. /\ y.adt = d /\ y.owner = c /\ y.filled = FALSE /\ y.deps = {}
      /\ y.field = {} /\ y.refs = {}
  BY <1>3 DEF IsNewCell
<1>7. /\ \A w \in DOMAIN cells : w \in DOMAIN cells' /\ cells'[w] = cells[w]
      /\ \A w \in DOMAIN cells' \ DOMAIN cells : w = v
      /\ c \in DOMAIN cells' /\ cells'[c].owner = c /\ cells'[c].adt = d
  BY <1>4
<1>8. CellsAdded
  BY <1>4, <1>5, <1>6, <1>7 DEF CellsAdded
<1>9. cells'[v].adt = d /\ cells'[v].owner = c
  BY <1>4, <1>6
<1> QED
  BY <1>4, <1>8, <1>9 DEF VariantCellAt

VariantBuilt(p, c, v, d, i) ==
  /\ FieldsThen(p, v, variants(d)[i].fields, [k |-> "build_variant", cell |-> v, i |-> i])
  /\ tasks' = p \o Tail(tasks)
  /\ VariantCell(c, v, d, i)
  /\ variant_registry' = With(variant_registry, <<d, i>>, v)
  /\ UNCHANGED <<crate, enum_registry, adt_deps, adt_shims, uses, outcome, results, phase, layers>>

LEMMA VariantBuiltNext ==
  ASSUME IInv, outcome = "none", tasks # << >>, NEW t \in Task, t = tasks[1], t.k = "variant",
         NEW c \in DOMAIN cells, c = t.cell, NEW d \in Adt, d = cells[c].adt, NEW i, i = t.i,
         def(d).repr_ok, NEW p, NEW v, VariantBuilt(p, c, v, d, i)
  PROVE  IInv'
<1>0. TypeInv /\ CellsInv /\ TaskOK(t) /\ c \in Nat /\ Inside(t, c)
  BY AtHand DEF IInv, TypeInv, Inside
<1>1. PICK fields : fields = variants(d)[i].fields
  OBVIOUS
<1>2. /\ ~is_struct(d) /\ i \in DOMAIN variants(d) /\ i # 0 /\ i \in Nat
      /\ cells[c].owner = c
  <2>1. ~is_struct(d) /\ i \in DOMAIN variants(d) /\ cells[c].owner = c
    BY <1>0 DEF TaskOK
  <2> QED BY <1>0, <2>1, DefShape DEF TypeInv
<1>3. UNCHANGED <<crate, enum_registry, adt_deps, adt_shims, uses, outcome, results, phase, layers>>
  BY DEF VariantBuilt
<1>4. /\ CellsAdded /\ v \in Nat /\ v \notin DOMAIN cells /\ DOMAIN cells' = DOMAIN cells \cup {v}
      /\ cells'[v].adt = d /\ cells'[v].owner = c
      /\ \A w \in DOMAIN cells : cells'[w] = cells[w]
  <2>1. VariantCell(c, v, d, i)
    BY DEF VariantBuilt
  <2>2. TypeInv /\ CellsInv /\ crate' = crate /\ cells[c].owner = c
    BY <1>0, <1>2, <1>3
  <2>3. VariantCellAt(c, v, d)
    BY <2>1, <2>2, VariantCellIs
  <2> QED BY <2>3 DEF VariantCellAt
<1>5. PICK x : /\ x = [k |-> "build_variant", cell |-> v, i |-> i]
               /\ FieldsThen(p, v, fields, x)
  BY <1>1 DEF VariantBuilt
<1>6. /\ p \in Seq(Task) /\ Len(p) \in DOMAIN p
      /\ \A n \in DOMAIN p :
           \/ p[n].k = "build_variant" /\ p[n].cell = v /\ p[n].i = i
           \/ p[n].k = "field" /\ p[n].cell = v
           \/ /\ p[n].k = "type" /\ p[n].ctx.k = "adt" /\ p[n].ctx.cell = v
              /\ \E f \in DOMAIN fields : p[n].ty = fields[f].ty
      /\ \A f \in DOMAIN fields : \E n \in DOMAIN p :
           p[n].k = "type" /\ p[n].ctx.k = "adt" /\ p[n].ctx.cell = v /\ p[n].ty = fields[f].ty
  <2>1. x.k = "build_variant" /\ x.cell = v /\ x.i = i
    BY <1>5
  <2> QED BY <1>5, <2>1 DEF FieldsThen
<1>8. /\ \A n \in DOMAIN p : \A b : ~Builds(p[n], b) /\ ~Enters(p[n], b)
      /\ \A n \in DOMAIN p : p[n].k \notin {"use", "construct"} /\ ~OfFunction(p[n])
      /\ \A b, e : ~AwaitsUse(t, b, e)
      /\ \A e : ~Registers(t, e)
      /\ \A b : ~Enters(t, b)
  BY <1>6 DEF Builds, Enters, OfFunction, AwaitsUse, Registers
<1>9. \A n \in DOMAIN p : \A b : Inside(p[n], b)' <=> b = c
  <2>1. ASSUME NEW q, NEW b, \/ q.k = "build_variant" /\ q.cell = v
                             \/ q.k = "field" /\ q.cell = v
                             \/ q.k = "type" /\ q.ctx.k = "adt" /\ q.ctx.cell = v
        PROVE  Inside(q, b)' <=> b = c
    BY <1>4, <2>1 DEF Inside
  <2> QED BY <1>6, <2>1
<1>10. \A b : Inside(t, b) => b = c
  BY DEF Inside
<1>11. \A n \in DOMAIN p : TaskOK(p[n])'
  <2>1. crate' = crate
    BY <1>3
  <2>2. cells'[v].adt = d /\ v \in DOMAIN cells' /\ cells'[v].owner = c /\ c # v
    BY <1>4
  <2>3. ASSUME NEW q, \/ q.k = "build_variant" /\ q.cell = v /\ q.i = i
                      \/ q.k = "field" /\ q.cell = v
                      \/ q.k = "type" /\ q.ctx.k = "adt" /\ q.ctx.cell = v
        PROVE  TaskOK(q)'
    <3>1. CASE q.k = "build_variant"
      <4>1. q.cell = v /\ q.i = i
        BY <2>3, <3>1
      <4>2. ~is_struct(cells[q.cell].adt)' /\ i \in DOMAIN variants(cells[q.cell].adt)'
        BY <1>2, <2>1, <2>2, <4>1 DEF is_struct, variants, def
      <4> QED BY <2>2, <3>1, <4>1, <4>2 DEF TaskOK
    <3>2. CASE q.k # "build_variant"
      BY <2>2, <2>3, <3>2 DEF TaskOK
    <3> QED BY <3>1, <3>2
  <2> QED BY <1>6, <2>3
<1>12. Pushes(p)
  <2>1. tasks' = p \o Tail(tasks)
    BY DEF VariantBuilt
  <2>2. \A n \in DOMAIN p, b \in DOMAIN cells' :
          Inside(p[n], b)' => b \in DOMAIN cells /\ Inside(tasks[1], b)
    BY <1>0, <1>9
  <2> QED BY <1>6, <1>8, <1>11, <2>1, <2>2 DEF Pushes
<1>13. PICK g : g = variant_registry'
  OBVIOUS
<1>14. /\ DOMAIN g = DOMAIN variant_registry \cup {<<d, i>>} /\ g[<<d, i>>] = v
       /\ \A z \in DOMAIN variant_registry : z # <<d, i>> => g[z] = variant_registry[z]
  <2>1. g = With(variant_registry, <<d, i>>, v)
    BY <1>13 DEF VariantBuilt
  <2> QED BY ONLY <2>1 DEF With
<1>15. \A e : Did(e) # <<d, i>>
  BY <1>2 DEF Did
<1>16. RegistryStep
  BY <1>3, <1>13, <1>14, <1>15 DEF RegistryStep
<1>17. \A e \in Adt : is_registered_local_adt(e) => is_registered_local_adt(e)'
  BY <1>3, <1>13, <1>14 DEF is_registered_local_adt, Did
<1>18. Registering(p, t)
  BY <1>8 DEF Registering
<1>19. \A f \in DOMAIN fields : \E h \in DOMAIN p : AwaitsType(p[h], c, fields[f].ty)'
  <2>1. ASSUME NEW f \in DOMAIN fields PROVE \E h \in DOMAIN p : AwaitsType(p[h], c, fields[f].ty)'
    <3>1. PICK h \in DOMAIN p : p[h].k = "type" /\ p[h].ty = fields[f].ty
      BY <1>6
    <3>2. Inside(p[h], c)'
      BY <1>9
    <3> QED BY <3>1, <3>2 DEF AwaitsType
  <2> QED BY <2>1
<1>20. Serving(p, t)
  <2>1. VariantEntered(t.cell, t.i)'
    <3>1. cells'[c].adt = d /\ c \in DOMAIN cells' /\ crate' = crate
      BY <1>3, <1>4
    <3>2. def(d)'.repr_ok
      BY <3>1 DEF def
    <3>3. <<d, i>> \in DOMAIN variant_registry' /\ variant_registry'[<<d, i>>] = v
      BY <1>13, <1>14
    <3>4. v \in DOMAIN cells' /\ cells'[v].owner = c
      BY <1>4
    <3>5. VariantEntered(c, i)'
      BY <3>1, <3>2, <3>3, <3>4 DEF VariantEntered, def
    <3> QED BY <3>5
  <2>2. \A f \in DOMAIN variants(cells[t.cell].adt)[t.i].fields :
          \E h \in DOMAIN p : AwaitsType(p[h], t.cell, variants(cells[t.cell].adt)[t.i].fields[f].ty)'
    <3>1. variants(cells[t.cell].adt)[t.i].fields = fields
      BY <1>1
    <3>2. ASSUME NEW f \in DOMAIN fields
          PROVE  \E h \in DOMAIN p : AwaitsType(p[h], t.cell, variants(cells[t.cell].adt)[t.i].fields[f].ty)'
      <4>1. PICK ty : ty = fields[f].ty
        OBVIOUS
      <4>2. PICK h \in DOMAIN p : AwaitsType(p[h], c, ty)'
        BY <1>19, <4>1
      <4>3. (variants(cells[t.cell].adt)[t.i].fields[f].ty)' = ty
        <5>1. cells'[t.cell].adt = d /\ crate' = crate
          BY <1>3, <1>4
        <5>2. crate.adts[d].variants[t.i].fields[f].ty = ty
          BY <1>1, <4>1 DEF variants, def
        <5> QED BY ONLY <5>1, <5>2 DEF variants, def
      <4> QED BY <4>2, <4>3
    <3> QED BY <3>1, <3>2
  <2> QED BY <1>8, <2>1, <2>2 DEF Serving
<1>21. VariantsStay(t)
  <2>1. ASSUME NEW e \in Adt, NEW n \in Nat, <<e, n>> \in DOMAIN variant_registry
        PROVE  /\ <<e, n>> \in DOMAIN variant_registry'
               /\ \/ variant_registry'[<<e, n>>] = variant_registry[<<e, n>>]
                  \/ t.k = "variant" /\ cells[t.cell].adt = e /\ t.i = n
    BY <1>13, <1>14, <2>1
  <2> QED BY <2>1 DEF VariantsStay
<1>22. StaysHarmless(p, t)
  <2>1. ASSUME NEW b \in DOMAIN cells, NEW S \in SUBSET Types, NEW M \in SUBSET Adt,
               SoundDef(cells[b].adt, S, M), Harmless(t, b, S, M), NEW h \in DOMAIN p
        PROVE  Harmless(p[h], b, S, M)'
    <3>1. b = c
      BY <2>1 DEF Harmless, Inside
    <3>2. \A f \in DOMAIN fields : fields[f].ty \in S
      BY <1>1, <1>2, <2>1, <3>1 DEF SoundDef
    <3>3. Inside(p[h], b)'
      BY <1>9, <3>1
    <3> QED BY <1>6, <3>2, <3>3 DEF Harmless
  <2> QED BY <1>8, <2>1 DEF StaysHarmless
<1>23. UNCHANGED <<crate, adt_deps, adt_shims, uses, outcome, results, phase, layers>>
  BY <1>3
<1>24. \A e \in DOMAIN enum_registry' \ DOMAIN enum_registry :
         \E n \in DOMAIN p, b \in DOMAIN cells : Builds(p[n], b) /\ cells[b].adt = e
  BY <1>3
<1> HIDE DEF IInv
<1> QED
  BY <1>4, <1>12, <1>16, <1>17, <1>18, <1>20, <1>21, <1>22, <1>23, <1>24, EnterNext

LEMMA VariantFailedNext ==
  ASSUME IInv, outcome = "none", tasks # << >>, NEW t \in Task, t = tasks[1], t.k = "variant",
         NEW c \in DOMAIN cells, c = t.cell, NEW d \in Adt, d = cells[c].adt, NEW i, i = t.i,
         ~def(d).repr_ok, NEW v, VariantCell(c, v, d, i),
         NEW failed, failed = Pending(tasks), NEW ds, ds = {cells[b].adt : b \in failed},
         variant_registry' = With(Without(variant_registry, {Did(e) : e \in ds}), <<d, i>>, v),
         enum_registry' = Without(enum_registry, ds),
         outcome' = "skipped", tasks' = << >>,
         UNCHANGED <<crate, adt_deps, adt_shims, uses, results, phase, layers>>
  PROVE  IInv'
<1>0. /\ TypeInv /\ CellsInv /\ RegistryInv /\ FilledInv /\ TaskOK(t) /\ Alive
      /\ \A b \in DOMAIN cells : cells[b].adt \in Adt
  BY AtHand, CellParts DEF IInv
<1>1. ~is_struct(d) /\ i \in DOMAIN variants(d) /\ i # 0 /\ cells[c].owner = c
  <2>1. ~is_struct(d) /\ i \in DOMAIN variants(d) /\ cells[c].owner = c
    BY <1>0 DEF TaskOK
  <2> QED BY <1>0, <2>1, DefShape DEF TypeInv
<1>2. VariantCellAt(c, v, d)
  <2>1. crate' = crate
    OBVIOUS
  <2>2. VariantCell(c, v, d, i)
    OBVIOUS
  <2> QED BY <1>0, <1>1, <2>1, <2>2, VariantCellIs
<1>3. CellsAdded
  BY <1>2 DEF VariantCellAt
<1>4. CellsInv' /\ CellsGrow /\ cells' \in Seq(Cell)
  BY <1>0, <1>3, AddedNext DEF CellsAdded
<1>5. ASSUME NEW b \in failed
      PROVE  /\ b \in DOMAIN cells /\ \E j \in DOMAIN tasks : At(tasks[j], b)
             /\ Did(cells[b].adt) \notin adt_shims
  <2>1. b \in DOMAIN cells
    BY <1>5, PendingAre
  <2>2. PICK j \in DOMAIN tasks : Builds(tasks[j], b)
    BY <1>5, PendingAre
  <2>3. ASSUME Did(cells[b].adt) \in adt_shims PROVE FALSE
    <3>1. PICK e : e = cells[b].adt
      OBVIOUS
    <3>2. j # 1
      BY <2>2 DEF Builds
    <3>3. PICK S \in SUBSET Types, M \in SUBSET Adt :
            SoundDef(e, S, M) /\ Harmless(tasks[1], b, S, M)
      BY <2>1, <2>2, <2>3, <3>1, <3>2, SecondTime DEF At
    <3>4. b = c
      BY <3>3 DEF Harmless, Inside
    <3> QED BY <1>1, <3>1, <3>3, <3>4 DEF SoundDef
  <2> QED BY <2>1, <2>2, <2>3 DEF At
<1>6. ds \subseteq Adt
  BY <1>0, <1>5
<1>7. Removes(failed)
  <2>1. PICK W : W = Without(variant_registry, {Did(e) : e \in ds})
    OBVIOUS
  <2>2. /\ DOMAIN W = DOMAIN variant_registry \ {Did(e) : e \in ds}
        /\ \A z \in DOMAIN W : W[z] = variant_registry[z]
    BY ONLY <2>1 DEF Without
  <2>3. PICK g : g = variant_registry'
    OBVIOUS
  <2>4. /\ DOMAIN g = DOMAIN W \cup {<<d, i>>}
        /\ \A z \in DOMAIN W : z # <<d, i>> => g[z] = W[z]
    <3>1. g = With(W, <<d, i>>, v)
      BY <2>1, <2>3
    <3> QED BY ONLY <3>1 DEF With
  <2>5. \A e, f : Did(e) # <<d, i>> /\ (Did(e) = Did(f) => e = f)
    BY <1>1 DEF Did
  <2>6. \A e \in Adt :
          /\ Did(e) \in DOMAIN g <=> Did(e) \in DOMAIN variant_registry /\ ~(e \in ds /\ is_struct(e))
          /\ Did(e) \in DOMAIN g => g[Did(e)] = variant_registry[Did(e)]
    <3>1. \A e \in Adt : Did(e) \in DOMAIN variant_registry => is_struct(e)
      BY <1>0 DEF RegistryInv
    <3>2. \A e \in Adt : Did(e) \in {Did(f) : f \in ds} <=> e \in ds
      BY <2>5
    <3> QED BY <2>2, <2>4, <2>5, <3>1, <3>2
  <2>7. Without(enum_registry, ds) = Without(enum_registry, {e \in ds : ~is_struct(e)})
    <3>1. DOMAIN enum_registry \ ds = DOMAIN enum_registry \ {e \in ds : ~is_struct(e)}
      BY <1>0, <1>6 DEF RegistryInv
    <3> QED BY <3>1 DEF Without
  <2> QED BY <2>3, <2>6, <2>7 DEF Removes
<1>8. \A j \in DOMAIN tasks : tasks[j].k = "build_enum" => tasks[j].cell \in failed
  BY DEF Pending
<1>9. FilledInv'
  <2>1. PICK same : same = DOMAIN cells
    OBVIOUS
  <2>2. /\ same \subseteq DOMAIN cells /\ \A b \in same : cells'[b] = cells[b]
        /\ \A b \in DOMAIN cells' \ same : cells'[b].filled = FALSE
    BY <1>3, <2>1 DEF CellsAdded
  <2> QED BY <1>0, <2>2, FilledStays
<1>10. \A e \in DOMAIN adt_deps' : e \in Adt /\ adt_deps'[e] \subseteq Adt
  BY <1>0 DEF TypeInv
<1>11. PICK how \in {"skipped", "fatal"} : how = "skipped"
  OBVIOUS
<1>12. /\ UNCHANGED <<crate, adt_shims, uses, results, phase, layers>> /\ outcome' = how
       /\ tasks' = << >> /\ DOMAIN adt_deps \subseteq DOMAIN adt_deps'
  BY <1>11
<1> HIDE DEF IInv
<1> QED
  BY <1>4, <1>5, <1>7, <1>8, <1>9, <1>10, <1>12, FailNext

LEMMA EnterVariantNext ==
  ASSUME IInv, EnterVariant, UNCHANGED rest
  PROVE  IInv'
<1>0. /\ outcome = "none" /\ tasks # << >> /\ Head(tasks).k = "variant"
      /\ UNCHANGED <<crate, adt_deps, adt_shims, uses, results, phase, layers>>
      /\ TypeInv /\ CellsInv
  BY DEF EnterVariant, Top, task, IInv, rest
<1>1. PICK t \in Task : t = tasks[1] /\ t = task
  BY <1>0, AtHand
<1>2. /\ t.k = "variant" /\ 1 \in DOMAIN tasks /\ t.cell \in DOMAIN cells
      /\ ~is_struct(cells[t.cell].adt) /\ t.i \in DOMAIN variants(cells[t.cell].adt)
  BY <1>0, <1>1, AtHand DEF task, TaskOK
<1>3. PICK c \in DOMAIN cells, d \in Adt : c = t.cell /\ d = cells[c].adt
  BY <1>0, <1>2, CellParts
<1>4. PICK i, v : i = t.i /\ v = Len(cells) + 1
  OBVIOUS
<1>5. VariantDid(d, i) = <<d, i>>
  BY <1>2, <1>3 DEF VariantDid
<1>6. PICK failed, ds : failed = Pending(tasks) /\ ds = {cells[b].adt : b \in failed}
  OBVIOUS
<1>7. /\ VariantCell(c, v, d, i)
      /\ \/ /\ def(d).repr_ok
            /\ variant_registry' = With(variant_registry, <<d, i>>, v)
            /\ Push(FieldTasks(v, variants(d)[i].fields)
                      \o <<[k |-> "build_variant", cell |-> v, i |-> i]>>)
            /\ UNCHANGED <<enum_registry, outcome>>
         \/ /\ ~def(d).repr_ok
            /\ variant_registry' = With(Without(variant_registry, {Did(e) : e \in ds}), <<d, i>>, v)
            /\ enum_registry' = Without(enum_registry, ds)
            /\ outcome' = "skipped" /\ tasks' = << >>
  <2>1. task.cell = c /\ cells[task.cell].adt = d /\ task.i = i
    BY <1>1, <1>3, <1>4
  <2>2. ds = {cells[b].adt : b \in Pending(tasks)}
    BY <1>6
  <2> QED BY <1>4, <1>5, <2>1, <2>2 DEF EnterVariant, VariantCell
<1>8. CASE /\ def(d).repr_ok
           /\ variant_registry' = With(variant_registry, <<d, i>>, v)
           /\ Push(FieldTasks(v, variants(d)[i].fields)
                     \o <<[k |-> "build_variant", cell |-> v, i |-> i]>>)
           /\ UNCHANGED <<enum_registry, outcome>>
  <2>1. PICK fields, x : /\ fields = variants(d)[i].fields
                         /\ x = [k |-> "build_variant", cell |-> v, i |-> i]
    OBVIOUS
  <2>2. fields \in Seq([ty : Types, annotated : BOOLEAN]) /\ i \in Nat
    BY <1>0, <1>2, <1>3, <1>4, <2>1, DefShape DEF TypeInv
  <2>3. v \in Nat
    BY <1>0, <1>4 DEF TypeInv
  <2>4. x \in Task
    BY <2>1, <2>2, <2>3 DEF Task
  <2>5. PICK p : p = FieldTasks(v, fields) \o <<x>>
    OBVIOUS
  <2>6. FieldsThen(p, v, fields, x)
    BY <2>2, <2>3, <2>4, <2>5, FieldsThenLast
  <2>7. VariantBuilt(p, c, v, d, i)
    <3>1. tasks' = p \o Tail(tasks)
      BY <1>8, <2>1, <2>5 DEF Push
    <3> QED BY <1>0, <1>7, <1>8, <2>1, <2>6, <3>1 DEF VariantBuilt
  <2> HIDE DEF IInv
  <2> QED BY <1>0, <1>1, <1>2, <1>3, <1>4, <1>8, <2>7, VariantBuiltNext
<1>9. CASE /\ ~def(d).repr_ok
           /\ variant_registry' = With(Without(variant_registry, {Did(e) : e \in ds}), <<d, i>>, v)
           /\ enum_registry' = Without(enum_registry, ds)
           /\ outcome' = "skipped" /\ tasks' = << >>
  <2>1. VariantCell(c, v, d, i)
    BY <1>7
  <2> HIDE DEF IInv
  <2> QED BY <1>0, <1>1, <1>2, <1>3, <1>4, <1>6, <1>9, <2>1, VariantFailedNext
<1> QED
  BY <1>7, <1>8, <1>9

-----------------------------------------------------------------------------
(* The functions.                                                            *)

(* The requests of a function: each ADT is registered before its literal is  *)
(* looked up.                                                                *)
RequestOK(q) ==
  \A i \in DOMAIN q :
    \/ q[i].k = "register"
    \/ q[i].k = "type" /\ q[i].ctx.k = "function"
    \/ /\ q[i].k = "construct"
       /\ is_struct(q[i].did[1]) => q[i].did[2] = 0
       /\ \E j \in DOMAIN q : j < i /\ q[j].k = "register" /\ q[j].adt = q[i].did[1]

LEMMA RequestsJoined ==
  ASSUME NEW q \in Seq(Task), NEW r \in Seq(Task), RequestOK(q), RequestOK(r)
  PROVE  q \o r \in Seq(Task) /\ RequestOK(q \o r)
<1>1. PICK s : s = q \o r
  OBVIOUS
<1>2. /\ s \in Seq(Task) /\ Len(q) \in Nat
      /\ \A i \in DOMAIN q : i \in DOMAIN s /\ s[i] = q[i]
      /\ \A i \in DOMAIN r : Len(q) + i \in DOMAIN s /\ s[Len(q) + i] = r[i]
      /\ \A i \in DOMAIN s : i \in DOMAIN q \/ \E k \in DOMAIN r : i = Len(q) + k
  BY <1>1, Joined
<1>3. DOMAIN r \subseteq Int
  OBVIOUS
<1>4. ASSUME NEW i \in DOMAIN s
      PROVE  \/ s[i].k = "register"
             \/ s[i].k = "type" /\ s[i].ctx.k = "function"
             \/ /\ s[i].k = "construct"
                /\ is_struct(s[i].did[1]) => s[i].did[2] = 0
                /\ \E j \in DOMAIN s : j < i /\ s[j].k = "register" /\ s[j].adt = s[i].did[1]
  <2>1. CASE i \in DOMAIN q
    BY <1>2, <2>1 DEF RequestOK
  <2>2. CASE i \notin DOMAIN q
    <3>1. PICK k \in DOMAIN r : i = Len(q) + k
      BY <1>2, <2>2
    <3>2. s[i] = r[k]
      BY <1>2, <3>1
    <3>3. CASE r[k].k = "construct"
      <4>1. /\ is_struct(r[k].did[1]) => r[k].did[2] = 0
            /\ \E j \in DOMAIN r : j < k /\ r[j].k = "register" /\ r[j].adt = r[k].did[1]
        BY <3>3 DEF RequestOK
      <4>2. PICK j \in DOMAIN r : j < k /\ r[j].k = "register" /\ r[j].adt = r[k].did[1]
        BY <4>1
      <4>3. Len(q) + j \in DOMAIN s /\ s[Len(q) + j] = r[j]
        BY <1>2
      <4>4. Len(q) + j < i
        BY <1>2, <1>3, <3>1, <4>2
      <4> QED BY <3>2, <3>3, <4>1, <4>2, <4>3, <4>4
    <3>4. CASE r[k].k # "construct"
      BY <3>2, <3>4 DEF RequestOK
    <3> QED BY <3>3, <3>4
  <2> QED BY <2>1, <2>2
<1>5. RequestOK(s)
  BY <1>4 DEF RequestOK
<1> QED
  BY <1>1, <1>2, <1>5

LEMMA RequestTasksAre ==
  ASSUME NEW rs \in Seq(Requests)
  PROVE  RequestTasks(rs) \in Seq(Task) /\ RequestOK(RequestTasks(rs))
<1> DEFINE reg(n)  == [k |-> "register", adt |-> rs[n].adt]
           con(n)  == [k |-> "construct", did |-> VariantDid(rs[n].adt, rs[n].i)]
           seqs    == [n \in DOMAIN rs |->
                         IF rs[n].k = "construct" THEN <<reg(n), con(n)>>
                         ELSE TypeTasks(<<rs[n]>>, InFunction)]
           P       == {q \in Seq(Task) : RequestOK(q)}
<1>1. ASSUME NEW n \in DOMAIN rs, rs[n].k = "construct"
      PROVE  <<reg(n), con(n)>> \in P
  <2>1. rs[n] \in Requests
    <3>1. \A V : \A q \in Seq(V) : \A i \in DOMAIN q : q[i] \in V
      OBVIOUS
    <3> QED BY <3>1, Zenon
  <2>2. rs[n] \notin Types
    BY <1>1, TypesAssumption
  <2>3. rs[n] \in [k : {"construct"}, adt : Adt, i : Nat]
    BY <2>1, <2>2 DEF Requests
  <2>4. rs[n].adt \in Adt /\ rs[n].i \in Nat
    BY <2>3
  <2>5. PICK a, b : a = reg(n) /\ b = con(n)
    OBVIOUS
  <2>6. a \in Task /\ a.k = "register" /\ a.adt = rs[n].adt
    BY <2>4, <2>5 DEF Task
  <2>7. /\ b \in Task /\ b.k = "construct" /\ b.did[1] = rs[n].adt
        /\ is_struct(b.did[1]) => b.did[2] = 0
    BY <2>4, <2>5 DEF Task, VariantDid, Did
  <2>8. <<a, b>> \in Seq(Task) /\ DOMAIN <<a, b>> = {1, 2} /\ <<a, b>>[1] = a /\ <<a, b>>[2] = b
    BY <2>6, <2>7
  <2>9. RequestOK(<<a, b>>)
    BY <2>6, <2>7, <2>8 DEF RequestOK
  <2> QED BY <2>5, <2>8, <2>9
<1>2. ASSUME NEW n \in DOMAIN rs, rs[n].k # "construct"
      PROVE  TypeTasks(<<rs[n]>>, InFunction) \in P
  <2>1. rs[n] \in Requests
    <3>1. \A V : \A q \in Seq(V) : \A i \in DOMAIN q : q[i] \in V
      OBVIOUS
    <3> QED BY <3>1, Zenon
  <2>2. rs[n] \in Types
    BY <1>2, <2>1 DEF Requests
  <2>3. <<rs[n]>> \in Seq(Types)
    BY <2>2
  <2>4. InFunction \in Ctx /\ InFunction.k = "function"
    BY DEF InFunction, Ctx
  <2>5. PICK q : q = TypeTasks(<<rs[n]>>, InFunction)
    OBVIOUS
  <2>6. /\ q \in Seq(Task)
        /\ \A i \in DOMAIN q : q[i].k = "type" /\ q[i].ctx.k = "function"
    BY <2>3, <2>4, <2>5, TypeTasksAre
  <2>7. RequestOK(q)
    BY <2>6 DEF RequestOK
  <2> QED BY <2>5, <2>6, <2>7
<1>3. \A n \in DOMAIN rs : seqs[n] \in P
  BY <1>1, <1>2
<1>4. seqs \in Seq(Seq(Task)) /\ DOMAIN seqs = DOMAIN rs
  <2>1. \A n \in DOMAIN rs : seqs[n] \in Seq(Task)
    BY <1>3
  <2>2. DOMAIN seqs = DOMAIN rs /\ DOMAIN rs = 1 .. Len(rs) /\ Len(rs) \in Nat
    OBVIOUS
  <2>3. seqs = [n \in 1 .. Len(rs) |-> seqs[n]]
    BY <2>2
  <2> HIDE DEF seqs
  <2> QED BY <2>1, <2>2, <2>3
<1>5. RequestTasks(rs) = FlattenSeq(seqs)
  <2>1. seqs = [n \in DOMAIN rs |->
                  IF rs[n].k = "construct"
                  THEN <<[k |-> "register", adt |-> rs[n].adt],
                         [k |-> "construct", did |-> VariantDid(rs[n].adt, rs[n].i)]>>
                  ELSE TypeTasks(<<rs[n]>>, InFunction)]
    OBVIOUS
  <2> QED BY <2>1 DEF RequestTasks
<1> HIDE DEF seqs
<1>6. << >> \in P
  BY DEF RequestOK
<1>7. \A q \in P : \A n \in 1 .. Len(seqs) : q \o seqs[n] \in P
  <2>1. DOMAIN seqs = 1 .. Len(seqs)
    BY <1>4
  <2> QED BY <1>3, <1>4, <2>1, RequestsJoined
<1>8. P \subseteq Seq(Task)
  OBVIOUS
<1> HIDE DEF P
<1>9. FlattenSeq(seqs) \in P
  BY <1>4, <1>6, <1>7, <1>8, FlattenStays
<1> QED
  BY <1>5, <1>9 DEF P

LEMMA StartFunctionNext ==
  ASSUME IInv, StartFunction
  PROVE  IInv'
<1>0. /\ TypeInv /\ CellsInv /\ RegistryInv /\ FilledInv /\ LibrariesInv /\ ShimsInv
      /\ ResultsInv /\ ControlInv
      /\ UNCHANGED <<crate, variant_registry, enum_registry, cells, adt_deps, adt_shims,
                     results, phase, layers>>
      /\ phase = "translate" /\ outcome = "idle" /\ ~stopped
      /\ outcome' = "none" /\ uses' = {}
  BY DEF IInv, StartFunction, registry
<1>1. PICK rs : rs = functions[Len(results) + 1]
  OBVIOUS
<1>2. rs \in Seq(Requests)
  <2>1. functions \in Seq(Seq(Requests)) /\ Len(results) \in Nat
    BY <1>0, CratesAssumption DEF TypeInv, functions
  <2>2. Len(results) + 1 \in DOMAIN functions
    BY <2>1 DEF StartFunction
  <2>3. \A V : \A q \in Seq(V) : \A i \in DOMAIN q : q[i] \in V
    OBVIOUS
  <2> QED BY <1>1, <2>1, <2>2, <2>3, Zenon
<1>3. tasks' \in Seq(Task) /\ RequestOK(tasks')
  <2>1. PICK q : q = RequestTasks(rs)
    OBVIOUS
  <2>2. q \in Seq(Task) /\ RequestOK(q)
    BY <1>2, <2>1, RequestTasksAre
  <2>3. tasks' = q
    BY <1>1, <2>1 DEF StartFunction
  <2> QED BY <2>2, <2>3
<1>4. \A i \in DOMAIN tasks' :
        \/ tasks'[i].k = "register"
        \/ tasks'[i].k = "type" /\ tasks'[i].ctx.k = "function"
        \/ /\ tasks'[i].k = "construct"
           /\ is_struct(tasks'[i].did[1]) => tasks'[i].did[2] = 0
           /\ \E j \in DOMAIN tasks' : /\ j < i /\ tasks'[j].k = "register"
                                       /\ tasks'[j].adt = tasks'[i].did[1]
  BY <1>3 DEF RequestOK
<1>5. TypeInv'
  BY <1>0, <1>3 DEF TypeInv
<1>6. /\ \A i \in DOMAIN tasks' : \A c : ~At(tasks'[i], c) /\ ~Builds(tasks'[i], c)
      /\ \A i \in DOMAIN tasks' : \A c : ~Inside(tasks[i], c)'
      /\ \A i \in DOMAIN tasks' : tasks'[i].k # "build_enum" /\ tasks'[i].k # "use"
  BY <1>4 DEF At, Builds, Enters, Inside
<1>7. LoopInv'
  <2>1. TasksInv'
    <3>1. ASSUME NEW i \in DOMAIN tasks' PROVE TaskOK(tasks[i])'
      <4>1. PICK q : q = tasks'[i]
        OBVIOUS
      <4>2. TaskOK(q)'
        BY <1>0, <1>4, <4>1 DEF TaskOK, is_struct, def
      <4> QED BY <4>1, <4>2
    <3> QED BY <3>1 DEF TasksInv
  <2>2. (Nested /\ Once /\ OneBuild /\ FunctionsLast)'
    BY <1>6 DEF Nested, Once, OneBuild, FunctionsLast
  <2>3. UsesRegistered'
    <3>1. ASSUME NEW i \in DOMAIN tasks', tasks'[i].k \in {"use", "construct"}
          PROVE  \E j \in DOMAIN tasks' : j < i /\ Registers(tasks[j], UsedAdt(tasks[i]))'
      <4>1. PICK j \in DOMAIN tasks' : /\ j < i /\ tasks'[j].k = "register"
                                       /\ tasks'[j].adt = tasks'[i].did[1]
        BY <1>4, <1>6, <3>1
      <4>2. UsedAdt(tasks'[i]) = tasks'[i].did[1]
        BY <1>6, <3>1 DEF UsedAdt
      <4>3. Registers(tasks[j], UsedAdt(tasks[i]))'
        BY <4>1, <4>2 DEF Registers, UsedAdt
      <4> QED BY <4>1, <4>3
    <3> QED BY <3>1 DEF UsesRegistered
  <2>4. (BuildsRegistered /\ VariantsEntered /\ FieldsCovered /\ SecondInv)'
    BY <1>6 DEF BuildsRegistered, VariantsEntered, FieldsCovered, SecondInv
  <2> QED BY <2>1, <2>2, <2>3, <2>4 DEF LoopInv, StackInv
<1>8. CellsInv' /\ RegistryInv'
  BY <1>0 DEF CellsInv, CellOK, RegistryInv, EntryOK, is_struct, def, Did
<1>9. Alive' => Alive
  BY <1>0 DEF Alive, stopped
<1>10. FilledInv' /\ LibrariesInv'
  BY <1>0, <1>9 DEF FilledInv, LibrariesInv, Did
<1>11. ShimsInv'
  <2>1. \A d : ~Building(d)
    BY <1>0 DEF ControlInv, Building
  <2>2. /\ \A d : is_registered_local_adt(d)' <=> is_registered_local_adt(d)
    BY <1>0 DEF is_registered_local_adt, Did
  <2> QED BY <1>0, <1>9, <2>1, <2>2 DEF ShimsInv, Did
<1>12. UsesInv'
  BY <1>0 DEF UsesInv
<1>13. ResultsInv'
  <2>1. \A d : Stable(d) => Stable(d)'
    BY <1>0, <1>6 DEF Stable, is_registered_local_adt, Did
  <2>2. ASSUME NEW i \in DOMAIN results, NEW did \in results[i].uses
        PROVE  (OfLibrary(did) \/ Stable(did[1]))'
    <3>1. OfLibrary(did) \/ Stable(did[1])
      BY <1>0 DEF ResultsInv
    <3>2. OfLibrary(did) => OfLibrary(did)'
      BY <1>0 DEF OfLibrary, Did
    <3>3. PICK d : d = did[1]
      OBVIOUS
    <3> QED BY <2>1, <3>1, <3>2, <3>3
  <2>3. ASSUME NEW i \in DOMAIN results', NEW did \in results'[i].uses
        PROVE  (OfLibrary(did) \/ Stable(did[1]))'
    BY <1>0, <2>2, <2>3
  <2> QED BY <2>3 DEF ResultsInv
<1>14. ControlInv'
  BY <1>0 DEF ControlInv, stopped
<1> QED
  BY <1>5, <1>7, <1>8, <1>10, <1>11, <1>12, <1>13, <1>14 DEF IInv

LEMMA ResultAppended ==
  ASSUME NEW S, NEW rs \in Seq(S), NEW y \in S, NEW r, r = Append(rs, y)
  PROVE  /\ r \in Seq(S)
         /\ \A i \in DOMAIN rs : i \in DOMAIN r /\ r[i] = rs[i]
         /\ \A i \in DOMAIN r : (i \in DOMAIN rs /\ r[i] = rs[i]) \/ r[i] = y
OBVIOUS

LEMMA EndFunctionNext ==
  ASSUME IInv, EndFunction
  PROVE  IInv'
<1>0. /\ TypeInv /\ CellsInv /\ RegistryInv /\ FilledInv /\ LibrariesInv /\ ShimsInv
      /\ UsesInv /\ ResultsInv /\ ControlInv
      /\ UNCHANGED <<crate, variant_registry, enum_registry, cells, adt_deps, adt_shims,
                     tasks, uses, layers>>
      /\ phase = "translate" /\ outcome' = "idle"
      /\ (outcome = "none" /\ tasks = << >>) \/ outcome \in {"skipped", "fatal", "panic"}
      /\ phase' = IF outcome = "panic" THEN "panic" ELSE phase
  BY DEF IInv, EndFunction, registry
<1>1. tasks = << >> /\ tasks' = << >>
  BY <1>0 DEF ControlInv
<1>2. PICK how, us : /\ how = IF outcome = "none" THEN "done" ELSE outcome
                     /\ us = IF outcome = "none" THEN uses ELSE {}
  OBVIOUS
<1>3. PICK y : y = [outcome |-> how, uses |-> us]
  OBVIOUS
<1>4. results' = Append(results, y)
  BY <1>2, <1>3 DEF EndFunction
<1>5. /\ how \in {"done", "skipped", "fatal", "panic"} /\ us \in SUBSET (Adt \X Nat)
      /\ how = "done" => outcome = "none"
      /\ \A did \in us : did \in uses /\ outcome = "none"
  BY <1>0, <1>2 DEF TypeInv
<1>6. /\ y \in [outcome : {"done", "skipped", "fatal", "panic"}, uses : SUBSET (Adt \X Nat)]
      /\ y.outcome = how /\ y.uses = us
  BY <1>3, <1>5
<1>7. /\ results' \in Seq([outcome : {"done", "skipped", "fatal", "panic"}, uses : SUBSET (Adt \X Nat)])
      /\ \A i \in DOMAIN results : i \in DOMAIN results' /\ results'[i] = results[i]
      /\ \A i \in DOMAIN results' : \/ i \in DOMAIN results /\ results'[i] = results[i]
                                    \/ results'[i] = y
  <2>1. PICK R : R = [outcome : {"done", "skipped", "fatal", "panic"}, uses : SUBSET (Adt \X Nat)]
    OBVIOUS
  <2>2. results \in Seq(R) /\ y \in R
    BY <1>0, <1>6, <2>1 DEF TypeInv
  <2>3. PICK r : r = results'
    OBVIOUS
  <2>4. /\ r \in Seq(R)
        /\ \A i \in DOMAIN results : i \in DOMAIN r /\ r[i] = results[i]
        /\ \A i \in DOMAIN r : (i \in DOMAIN results /\ r[i] = results[i]) \/ r[i] = y
    <3>1. r = Append(results, y)
      BY <1>4, <2>3
    <3> QED BY ONLY <2>2, <3>1, ResultAppended
  <2> QED BY <2>1, <2>3, <2>4
<1>8. TypeInv'
  BY <1>0, <1>7 DEF TypeInv
<1>9. LoopInv'
  BY <1>1, LoopEmpty
<1>10. CellsInv' /\ RegistryInv'
  BY <1>0 DEF CellsInv, CellOK, RegistryInv, EntryOK, is_struct, def, Did
<1>11. Alive' => Alive
  <2>1. \E i \in DOMAIN results' : results'[i] = y
    <3>1. \A S : \A q \in Seq(S) : \A z \in S : \E i \in DOMAIN Append(q, z) : Append(q, z)[i] = z
      <4>1. ASSUME NEW S, NEW q \in Seq(S), NEW z \in S
            PROVE  \E i \in DOMAIN Append(q, z) : Append(q, z)[i] = z
        <5>1. Len(q) + 1 \in DOMAIN Append(q, z) /\ Append(q, z)[Len(q) + 1] = z
          OBVIOUS
        <5> QED BY <5>1
      <4> QED BY <4>1
    <3>2. results \in Seq([outcome : {"done", "skipped", "fatal", "panic"}, uses : SUBSET (Adt \X Nat)])
      BY <1>0 DEF TypeInv
    <3> QED BY <1>4, <1>6, <3>1, <3>2
  <2>2. outcome = "fatal" => how = "fatal"
    BY <1>2
  <2>3. stopped => stopped'
    BY <1>7 DEF stopped
  <2>4. outcome = "fatal" => stopped'
    BY <1>6, <2>1, <2>2 DEF stopped
  <2>5. outcome = "panic" => phase' = "panic"
    BY <1>0
  <2>6. phase = "panic" => phase' = "panic"
    BY <1>0
  <2> QED BY <2>3, <2>4, <2>5, <2>6 DEF Alive
<1>12. FilledInv' /\ LibrariesInv'
  BY <1>0, <1>11 DEF FilledInv, LibrariesInv, Did
<1>13. \A d : is_registered_local_adt(d)' <=> is_registered_local_adt(d)
  BY <1>0 DEF is_registered_local_adt, Did
<1>14. ShimsInv'
  <2>1. \A d : ~Building(d)
    BY <1>1 DEF Building
  <2> QED BY <1>0, <1>11, <1>13, <2>1 DEF ShimsInv, Did
<1>15. UsesInv'
  BY <1>0 DEF UsesInv, Did
<1>16. ResultsInv'
  <2>1. \A d : Stable(d) => Stable(d)'
    BY <1>0, <1>1, <1>13 DEF Stable, Did
  <2>2. ASSUME NEW did, OfLibrary(did) \/ Stable(did[1])
        PROVE  (OfLibrary(did) \/ Stable(did[1]))'
    <3>1. OfLibrary(did) => OfLibrary(did)'
      BY <1>0 DEF OfLibrary, Did
    <3>2. PICK d : d = did[1]
      OBVIOUS
    <3> QED BY <2>1, <2>2, <3>1, <3>2
  <2>3. ASSUME NEW did \in us PROVE OfLibrary(did) \/ Stable(did[1])
    <3>1. did \in adt_shims /\ Did(did[1]) \in adt_shims /\ outcome = "none" /\ did[1] \in Adt
      BY <1>0, <1>5 DEF UsesInv, TypeInv
    <3>2. Alive
      BY <1>0, <3>1 DEF Alive, ControlInv
    <3>3. CASE did[1] \in crate.shims
      BY <1>0, <3>1, <3>3 DEF LibrariesInv, OfLibrary
    <3>4. CASE did[1] \notin crate.shims
      BY <1>0, <1>1, <3>1, <3>2, <3>4 DEF ShimsInv, Stable
    <3> QED BY <3>3, <3>4
  <2>4. ASSUME NEW i \in DOMAIN results', NEW did \in results'[i].uses
        PROVE  (OfLibrary(did) \/ Stable(did[1]))'
    <3>1. OfLibrary(did) \/ Stable(did[1])
      <4>1. CASE i \in DOMAIN results /\ results'[i] = results[i]
        BY <1>0, <2>4, <4>1 DEF ResultsInv
      <4>2. CASE results'[i] = y
        BY <1>6, <2>3, <2>4, <4>2
      <4> QED BY <1>7, <4>1, <4>2
    <3> QED BY <2>2, <3>1
  <2> QED BY <2>4 DEF ResultsInv
<1>17. ControlInv'
  BY <1>0, <1>1 DEF ControlInv
<1> QED
  BY <1>8, <1>9, <1>10, <1>12, <1>14, <1>15, <1>16, <1>17 DEF IInv

-----------------------------------------------------------------------------
(* What is written.                                                          *)

LEMMA DepsFinite ==
  ASSUME TypeInv
  PROVE  IsFiniteSet(DefsOf(adt_deps))
<1>1. DefsOf(adt_deps) \subseteq Adt
  BY DEF DefsOf, TypeInv
<1> QED
  BY <1>1, AdtAssumption, FS_Subset

LEMMA LayersAre ==
  ASSUME NEW deps, IsFiniteSet(DefsOf(deps)), NEW ls, ls = order_defs_with_deps(deps)
  PROVE  /\ DepsEarlier(ls, deps)
         /\ \E k \in Nat : DOMAIN ls = 1 .. k
         /\ \A n \in DOMAIN ls : ls[n] \subseteq DOMAIN deps
         /\ ~cyclic(deps) => \A d \in DOMAIN deps : \E n \in DOMAIN ls : d \in ls[n]
<1>1. DepsEarlier(ls, deps)
  BY LayersOrdered
<1>2. Cardinality(DefsOf(deps)) \in Nat
  BY FS_CardinalityType
<1>3. /\ DOMAIN ls = 1 .. Cardinality(DefsOf(deps))
      /\ \A n \in DOMAIN ls : ls[n] \subseteq DOMAIN deps
  BY DEF order_defs_with_deps
<1>4. ~cyclic(deps) => \A d \in DOMAIN deps : \E n \in DOMAIN ls : d \in ls[n]
  BY LayersComplete
<1> QED
  BY <1>1, <1>2, <1>3, <1>4

\* What is registered is written if it is in the order.
LEMMA WritableIs ==
  ASSUME RegistryInv, NEW ls, NEW d \in Adt
  PROVE  d \in Writable(ls) <=> is_registered_local_adt(d) /\ \E n \in DOMAIN ls : d \in ls[n]
<1>1. (IF is_struct(d) THEN Did(d) \in DOMAIN variant_registry ELSE d \in DOMAIN enum_registry)
        <=> is_registered_local_adt(d)
  BY DEF RegistryInv, is_registered_local_adt
<1>2. d \in UNION {ls[n] : n \in DOMAIN ls} <=> \E n \in DOMAIN ls : d \in ls[n]
  OBVIOUS
<1> QED
  BY <1>1, <1>2 DEF Writable

\* What a filled definition refers to comes before it.
LEMMA FilledBefore ==
  ASSUME IInv, Alive, NEW ls, ls = order_defs_with_deps(adt_deps),
         \A d \in Writable(ls) : \A c \in Rendered(d) : cells[c].filled,
         NEW n \in DOMAIN ls, NEW d \in ls[n], d \in Writable(ls), NEW r \in cells[CellOf(d)].refs
  PROVE  cells[r].adt = d \/ \E m \in 1 .. n - 1 : cells[r].adt \in ls[m] /\ cells[r].adt \in Writable(ls)
<1>0. TypeInv /\ CellsInv /\ RegistryInv /\ FilledInv /\ ShimsInv
  BY DEF IInv
<1>1. /\ DepsEarlier(ls, adt_deps)
      /\ \E k \in Nat : DOMAIN ls = 1 .. k
      /\ d \in DOMAIN adt_deps
  BY <1>0, DepsFinite, LayersAre
<1>2. d \in Adt
  BY <1>0, <1>1 DEF TypeInv
<1>3. PICK c : c = CellOf(d)
  OBVIOUS
<1>4. c \in DOMAIN cells /\ cells[c].adt = d /\ cells[c].owner = c
  BY <1>0, <1>2, <1>3, WritableIs, CellOfEntry DEF EntryOK
<1>5. cells[c].filled /\ cells[r].filled
  BY <1>3 DEF Rendered
<1>6. PICK e : e = cells[r].adt
  OBVIOUS
<1>7. r \in DOMAIN cells /\ cells[r].owner = r /\ e \in cells[c].deps /\ e \notin crate.shims
  BY <1>0, <1>3, <1>4, <1>6 DEF CellsInv, CellOK
<1>8. cells[c].deps \subseteq adt_deps[d] \cup {d}
  BY <1>0, <1>4, <1>5 DEF FilledInv
<1>9. e \in DOMAIN adt_deps /\ Did(e) \in adt_shims
  BY <1>0, <1>5, <1>6, <1>7 DEF FilledInv
<1>10. e \in Adt
  BY <1>0, <1>9 DEF TypeInv
<1>11. CASE e = d
  BY <1>6, <1>11
<1>12. CASE e # d
  <2>1. e \in adt_deps[d]
    BY <1>7, <1>8, <1>12
  <2>2. PICK m \in 1 .. n - 1 : e \in ls[m]
    BY <1>1, <1>9, <2>1 DEF DepsEarlier, DepsOf
  <2>3. m \in DOMAIN ls
    BY <1>1
  <2>4. is_registered_local_adt(e)
    BY <1>0, <1>7, <1>9, <1>10 DEF ShimsInv
  <2>5. e \in Writable(ls)
    BY <1>0, <1>10, <2>2, <2>3, <2>4, WritableIs
  <2> QED BY <1>6, <2>2, <2>5
<1> QED
  BY <1>11, <1>12

LEMMA WriteDefinitionsNext ==
  ASSUME IInv, WriteDefinitions
  PROVE  IInv' /\ DefinedBeforeUse' /\ UsesDefined'
<1>0. /\ TypeInv /\ CellsInv /\ RegistryInv /\ LoopInv /\ FilledInv /\ LibrariesInv /\ ShimsInv
      /\ UsesInv /\ ResultsInv /\ ControlInv
      /\ UNCHANGED <<crate, variant_registry, enum_registry, cells, adt_deps, adt_shims,
                     tasks, uses, outcome, results>>
      /\ phase = "translate" /\ outcome = "idle"
  BY DEF IInv, WriteDefinitions, adtvars, registry
<1>1. PICK ls : ls = order_defs_with_deps(adt_deps)
  OBVIOUS
<1>2. \/ phase' = "panic" /\ layers' = layers
      \/ /\ phase' = "written" /\ ~cyclic(adt_deps)
         /\ \A d \in Writable(ls) : \A c \in Rendered(d) : cells[c].filled
         /\ layers' = [n \in DOMAIN ls |-> ls[n] \cap Writable(ls)]
  BY <1>1 DEF WriteDefinitions
<1>3. tasks = << >> /\ tasks' = << >> /\ layers = << >>
  BY <1>0 DEF ControlInv
<1>4. (Alive' => Alive) /\ (stopped' <=> stopped)
  BY <1>0 DEF Alive, stopped
<1>5. IInv'
  <2>1. TypeInv' /\ CellsInv' /\ RegistryInv' /\ UsesInv' /\ LibrariesInv'
    BY <1>0 DEF TypeInv, CellsInv, CellOK, RegistryInv, EntryOK, is_struct, def, Did,
                UsesInv, LibrariesInv
  <2>2. LoopInv'
    BY <1>3, LoopEmpty
  <2>3. FilledInv'
    BY <1>0, <1>4 DEF FilledInv, Did
  <2>4. \A d : is_registered_local_adt(d)' <=> is_registered_local_adt(d)
    BY <1>0 DEF is_registered_local_adt, Did
  <2>5. ShimsInv'
    <3>1. \A d : ~Building(d)
      BY <1>3 DEF Building
    <3> QED BY <1>0, <1>4, <2>4, <3>1 DEF ShimsInv, Did
  <2>6. ResultsInv'
    <3>1. \A d : Stable(d) => Stable(d)'
      BY <1>0, <1>3, <2>4 DEF Stable, Did
    <3>2. ASSUME NEW i \in DOMAIN results, NEW did \in results[i].uses
          PROVE  (OfLibrary(did) \/ Stable(did[1]))'
      <4>1. OfLibrary(did) \/ Stable(did[1])
        BY <1>0 DEF ResultsInv
      <4>2. OfLibrary(did) => OfLibrary(did)'
        BY <1>0 DEF OfLibrary, Did
      <4>3. PICK d : d = did[1]
        OBVIOUS
      <4> QED BY <3>1, <4>1, <4>2, <4>3
    <3> QED BY <1>0, <3>2 DEF ResultsInv
  <2>7. ControlInv'
    BY <1>0, <1>2, <1>3, <1>4 DEF ControlInv
  <2> QED BY <2>1, <2>2, <2>3, <2>5, <2>6, <2>7 DEF IInv
<1>6. CASE phase' = "panic" /\ layers' = layers
  <2>1. DefinedBeforeUse'
    BY <1>3, <1>6 DEF DefinedBeforeUse
  <2>2. UsesDefined'
    BY <1>6 DEF UsesDefined
  <2> QED BY <1>5, <2>1, <2>2
<1>7. CASE /\ phase' = "written" /\ ~cyclic(adt_deps)
           /\ \A d \in Writable(ls) : \A c \in Rendered(d) : cells[c].filled
           /\ layers' = [n \in DOMAIN ls |-> ls[n] \cap Writable(ls)]
  <2>1. /\ DOMAIN layers' = DOMAIN ls
        /\ \A n \in DOMAIN ls : \A d : d \in layers'[n] <=> d \in ls[n] /\ d \in Writable(ls)
    BY <1>7
  <2>2. /\ \E k \in Nat : DOMAIN ls = 1 .. k
        /\ \A d \in DOMAIN adt_deps : \E n \in DOMAIN ls : d \in ls[n]
    BY <1>0, <1>1, <1>7, DepsFinite, LayersAre
  <2>3. DefinedBeforeUse'
    <3>1. ASSUME ~stopped, NEW n \in DOMAIN ls, NEW d, d \in layers'[n],
                 NEW r \in cells[CellOf(d)].refs
          PROVE  cells[r].adt \in {d} \cup UNION {layers'[m] : m \in 1 .. n - 1}
      <4>1. d \in ls[n] /\ d \in Writable(ls)
        BY <2>1, <3>1
      <4>2. Alive
        BY <1>0, <3>1 DEF Alive
      <4>3. \/ cells[r].adt = d
            \/ \E m \in 1 .. n - 1 : cells[r].adt \in ls[m] /\ cells[r].adt \in Writable(ls)
        <5> HIDE DEF IInv
        <5> QED BY <1>1, <1>7, <4>1, <4>2, FilledBefore
      <4>4. ASSUME NEW m \in 1 .. n - 1, cells[r].adt \in ls[m] /\ cells[r].adt \in Writable(ls)
            PROVE  cells[r].adt \in layers'[m]
        <5>1. m \in DOMAIN ls
          BY <2>2
        <5> QED BY <2>1, <4>4, <5>1
      <4> QED BY <4>3, <4>4
    <3>2. /\ \A d : CellOf(d)' = CellOf(d)
          /\ cells' = cells
      BY <1>0 DEF CellOf, is_struct, def, Did
    <3>3. ASSUME ~stopped, NEW n \in DOMAIN layers', NEW d \in layers'[n],
                 NEW r \in cells'[CellOf(d)'].refs
          PROVE  cells'[r].adt \in {d} \cup UNION {layers'[m] : m \in 1 .. n - 1}
      BY <2>1, <3>1, <3>2, <3>3
    <3> QED BY <1>4, <3>2, <3>3 DEF DefinedBeforeUse
  <2>4. UsesDefined'
    <3>1. ASSUME NEW i \in DOMAIN results, NEW did \in results[i].uses
          PROVE  \/ did \in {Did(d) : d \in crate.shims}
                 \/ \E n \in DOMAIN layers' : did[1] \in layers'[n]
      <4>1. did[1] \in Adt
        BY <1>0, ResultUses
      <4>2. CASE OfLibrary(did)
        BY <4>2 DEF OfLibrary
      <4>3. CASE Stable(did[1])
        <5>1. did[1] \in DOMAIN adt_deps /\ is_registered_local_adt(did[1])
          BY <4>3 DEF Stable
        <5>2. PICK n \in DOMAIN ls : did[1] \in ls[n]
          BY <2>2, <5>1
        <5>3. did[1] \in Writable(ls)
          BY <1>0, <4>1, <5>1, <5>2, WritableIs
        <5> QED BY <2>1, <5>2, <5>3
      <4> QED BY <1>0, <4>2, <4>3 DEF ResultsInv
    <3>2. results' = results /\ {Did(d) : d \in crate.shims}' = {Did(d) : d \in crate.shims}
      BY <1>0 DEF Did
    <3>3. ASSUME NEW i \in DOMAIN results', NEW did \in results'[i].uses
          PROVE  \/ did \in {Did(d) : d \in crate.shims}'
                 \/ did[1] \in UNION {layers'[n] : n \in DOMAIN layers'}
      BY <3>1, <3>2
    <3> QED BY <3>3 DEF UsesDefined
  <2> QED BY <1>5, <2>3, <2>4
<1> QED
  BY <1>2, <1>6, <1>7

-----------------------------------------------------------------------------
(* The invariant holds.                                                      *)

Inv == IInv /\ DefinedBeforeUse /\ UsesDefined

LEMMA InitInv ==
  ASSUME Init
  PROVE  Inv
<1>1. /\ crate \in Crates /\ tasks = << >> /\ uses = {} /\ outcome = "idle"
      /\ results = << >> /\ phase = "translate" /\ layers = << >>
      /\ variant_registry = << >> /\ enum_registry = << >> /\ cells = << >> /\ adt_deps = << >>
      /\ adt_shims = {Did(d) : d \in crate.shims}
  BY DEF Init, EmptyRegistry
<1>2. /\ DOMAIN tasks = {} /\ DOMAIN cells = {} /\ DOMAIN adt_deps = {} /\ DOMAIN results = {}
      /\ DOMAIN variant_registry = {} /\ DOMAIN enum_registry = {} /\ DOMAIN layers = {}
  BY <1>1
<1>3. TypeInv
  <2>1. \A S : << >> \in Seq(S)
    OBVIOUS
  <2> QED BY <1>1, <1>2, <2>1 DEF TypeInv
<1>4. CellsInv /\ RegistryInv /\ FilledInv /\ ResultsInv
  BY <1>2 DEF CellsInv, RegistryInv, FilledInv, ResultsInv
<1>5. LoopInv
  <2>1. TasksInv /\ Nested /\ Once /\ OneBuild /\ FunctionsLast
    BY <1>2 DEF TasksInv, Nested, Once, OneBuild, FunctionsLast
  <2>2. /\ BuildsRegistered /\ UsesRegistered /\ VariantsEntered /\ FieldsCovered /\ SecondInv
    BY <1>2 DEF BuildsRegistered, UsesRegistered, VariantsEntered, FieldsCovered, SecondInv
  <2> QED BY <2>1, <2>2 DEF LoopInv, StackInv
<1>6. \A did : did \in adt_shims <=> \E d \in crate.shims : did = Did(d)
  BY <1>1
<1>7. \A d : Did(d)[1] = d
  BY DEF Did
<1>8. LibrariesInv
  BY <1>6, <1>7 DEF LibrariesInv
<1>9. ShimsInv
  <2>1. \A d : Did(d) \in adt_shims => d \in crate.shims
    BY <1>6, <1>7
  <2> QED BY <1>2, <2>1 DEF ShimsInv
<1>10. UsesInv /\ ControlInv
  BY <1>1 DEF UsesInv, ControlInv
<1>11. DefinedBeforeUse /\ UsesDefined
  BY <1>1, <1>2 DEF DefinedBeforeUse, UsesDefined
<1> QED
  BY <1>3, <1>4, <1>5, <1>8, <1>9, <1>10, <1>11 DEF Inv, IInv

\* Nothing is written before the last step.
LEMMA NotWritten ==
  ASSUME IInv, phase = "translate", phase' \in {"translate", "panic"}, layers' = layers
  PROVE  DefinedBeforeUse' /\ UsesDefined'
<1>1. layers' = << >>
  BY DEF IInv, ControlInv
<1>2. DOMAIN layers' = {}
  BY <1>1
<1> QED
  BY <1>2 DEF DefinedBeforeUse, UsesDefined

LEMMA TranslateTypesNext ==
  ASSUME IInv, TranslateTypes, UNCHANGED rest
  PROVE  IInv' /\ DefinedBeforeUse' /\ UsesDefined'
<1>1. IInv'
  <2> HIDE DEF IInv, rest
  <2> QED
    BY TranslateUnsupportedNext, TranslateCompoundNext, TranslateAdtUseNext, UseInDefinitionNext,
       UseInFunctionNext, ConstructNext, RegisterAdtNext, EnterAdtNext, EnterVariantNext,
       BuildFieldNext, BuildStructNext, BuildVariantNext, BuildEnumNext, StackOverflowNext
       DEF TranslateTypes
<1>2. outcome = "none"
  BY DEF TranslateTypes, TranslateUnsupported, TranslateCompound, TranslateAdtUse, UseInDefinition,
         UseInFunction, Construct, RegisterAdt, EnterAdt, EnterVariant, BuildField, BuildStruct,
         BuildVariant, BuildEnum, StackOverflow, Top
<1>3. phase = "translate" /\ phase' = "translate" /\ layers' = layers
  BY <1>2 DEF IInv, ControlInv, rest
<1> QED
  BY <1>1, <1>3, NotWritten

LEMMA NextInv ==
  ASSUME Inv, [Next]_vars
  PROVE  Inv'
<1>0. IInv /\ DefinedBeforeUse /\ UsesDefined
  BY DEF Inv
<1>1. CASE TranslateTypes /\ UNCHANGED <<results, phase, layers>>
  BY <1>0, <1>1, TranslateTypesNext DEF Inv, rest
<1>2. CASE StartFunction
  <2>1. phase = "translate" /\ phase' = "translate" /\ layers' = layers
    BY <1>2 DEF StartFunction
  <2>2. IInv'
    BY <1>0, <1>2, StartFunctionNext
  <2> QED BY <1>0, <2>1, <2>2, NotWritten DEF Inv
<1>3. CASE EndFunction
  <2>1. phase = "translate" /\ phase' \in {"translate", "panic"} /\ layers' = layers
    BY <1>3 DEF EndFunction
  <2>2. IInv'
    BY <1>0, <1>3, EndFunctionNext
  <2> QED BY <1>0, <2>1, <2>2, NotWritten DEF Inv
<1>4. CASE WriteDefinitions
  BY <1>0, <1>4, WriteDefinitionsNext DEF Inv
<1>5. CASE UNCHANGED vars
  <2>1. /\ crate' = crate /\ variant_registry' = variant_registry /\ enum_registry' = enum_registry
        /\ cells' = cells /\ adt_deps' = adt_deps /\ adt_shims' = adt_shims /\ tasks' = tasks
        /\ uses' = uses /\ outcome' = outcome /\ results' = results /\ phase' = phase
        /\ layers' = layers
    BY <1>5 DEF vars, adtvars, registry
  <2>2. IInv'
    <3>1. TypeInv' /\ CellsInv' /\ RegistryInv' /\ FilledInv' /\ LibrariesInv' /\ UsesInv'
      BY <1>0, <2>1 DEF IInv, TypeInv, CellsInv, CellOK, RegistryInv, EntryOK, is_struct, def, Did,
                        FilledInv, Alive, stopped, LibrariesInv, UsesInv
    <3>2. StackInv'
      BY <1>0, <2>1 DEF IInv, LoopInv, StackInv, TasksInv, TaskOK, Nested, Once, OneBuild,
                        FunctionsLast, Inside, Builds, Enters, At, OfFunction,
                        is_struct, def, variants
    <3>3. BuildsRegistered' /\ UsesRegistered'
      BY <1>0, <2>1 DEF IInv, LoopInv, BuildsRegistered, UsesRegistered, Builds, Registers, UsedAdt,
                        is_registered_adt, is_registered_local_adt, Did
    <3>4. VariantsEntered' /\ FieldsCovered'
      <4>1. /\ \A q, c, ty : AwaitsType(q, c, ty)' <=> AwaitsType(q, c, ty)
            /\ \A q, c, d : AwaitsUse(q, c, d)' <=> AwaitsUse(q, c, d)
            /\ \A d : variants(d)' = variants(d)
        BY <2>1 DEF AwaitsType, AwaitsUse, Inside, variants, def
      <4>2. \A c, i : VariantEntered(c, i)' <=> VariantEntered(c, i)
        BY <2>1 DEF VariantEntered, def
      <4>3. \A S, c : Met(S, c)' <=> Met(S, c)
        BY <2>1, <4>1 DEF Met
      <4>4. \A S, c : FieldsMet(S, c)' <=> FieldsMet(S, c)
        BY <2>1 DEF FieldsMet, variants, def
      <4>5. VariantsEntered /\ FieldsCovered
        BY <1>0 DEF IInv, LoopInv
      <4>6. VariantsEntered'
        BY <2>1, <4>2, <4>5 DEF VariantsEntered, variants, def
      <4>7. FieldsCovered'
        BY <2>1, <4>3, <4>4, <4>5 DEF FieldsCovered, Builds
      <4> QED BY <4>6, <4>7
    <3>5. SecondInv'
      <4>1. \A d, S, M : SoundDef(d, S, M)' <=> SoundDef(d, S, M)
        BY <2>1 DEF SoundDef, is_registered_adt, is_registered_local_adt, Did, is_struct, def, variants
      <4>2. \A q, c, S, M : Harmless(q, c, S, M)' <=> Harmless(q, c, S, M)
        BY <2>1 DEF Harmless, Inside
      <4>3. \A j, c, S, M : HarmlessAbove(j, c, S, M)' <=> HarmlessAbove(j, c, S, M)
        BY <2>1, <4>2 DEF HarmlessAbove
      <4>4. SecondInv
        BY <1>0 DEF IInv, LoopInv
      <4> QED BY <2>1, <4>1, <4>3, <4>4 DEF SecondInv, At, Builds, Enters, Did
    <3>6. ShimsInv' /\ ResultsInv' /\ ControlInv'
      BY <1>0, <2>1 DEF IInv, ShimsInv, ResultsInv, ControlInv, Alive, stopped, Building, Builds,
                        Stable, OfLibrary, At, Enters, is_registered_local_adt, Did
    <3> QED BY <3>1, <3>2, <3>3, <3>4, <3>5, <3>6 DEF IInv, LoopInv
  <2>3. DefinedBeforeUse' /\ UsesDefined'
    BY <1>0, <2>1 DEF DefinedBeforeUse, UsesDefined, stopped, CellOf, is_struct, def, Did
  <2> QED BY <1>0, <2>2, <2>3 DEF Inv
<1> QED
  BY <1>1, <1>2, <1>3, <1>4, <1>5 DEF Next

(* The definitions in the registry, the calls that are still to be made and  *)
(* the literals agree, whatever is translated, skipped or fails.             *)
THEOREM RegistryAgrees == Spec => []Inv
<1>1. Inv /\ [Next]_vars => Inv'
  BY NextInv
<1> QED
  BY InitInv, <1>1, PTL DEF Spec

(* Whatever a definition that is written mentions in its fields comes before *)
(* it, for any definitions, however recursive, nested or annotated, and      *)
(* whatever functions were skipped half-way through registering them.        *)
THEOREM DefinitionsOrdered == Spec => []DefinedBeforeUse
<1>1. Inv => DefinedBeforeUse
  BY DEF Inv
<1> QED
  BY <1>1, RegistryAgrees, PTL

(* What translated functions assume to be layoutable is written, or belongs  *)
(* to a library.                                                             *)
THEOREM UsesWritten == Spec => []UsesDefined
<1>1. Inv => UsesDefined
  BY DEF Inv
<1> QED
  BY <1>1, RegistryAgrees, PTL
=============================================================================
