# RefinedRust: TLA+ models and proofs

RefinedRust takes Rust crates with specifications and produces Rocq files: the
functions of the crate in the language Radium (the code still calls it Caesium),
their specifications, and for each function a proof by the automation of a type
system. This directory keeps TLA+ models of its parts, the TLC runs that check them
on small instances, and TLAPS proofs of what matters most about them.

What is modelled:

1. the operational semantics everything is proved against;
2. the lifetime annotations, where the frontend (Rust, imperative, full of caches)
   and the type system (Rocq) have to agree on what is known at each point of a body;
3. the dataflow analysis that tells the frontend which places are initialised;
4. the translation of a body's control flow: loops, blocks, and where the lifetimes of
   loans end;
5. the driver: libraries, registration, the order of translation, and the files that
   several runs leave behind;
6. the registry of structs and enums;
7. scopes and trait requirements, the parameters and arguments that follow from them,
   and the specifications of functions.

## 1. Inventory

Everything below is under `src/`. `theories/` is Rocq, `rr_frontend/` is Rust;
`translation/` stands for `rr_frontend/translation/src/`.

| Component | State | Operations | Hard part | Correct when | Status |
|---|---|---|---|---|---|
| Heap and allocations (`theories/caesium/heap.v`, `val.v`, `loc.v`) | cells with owner, lock state and byte; the allocation table | look up, update, allocate, free blocks | address reuse, blocks of size 0 | cells are exactly the addresses of living, disjoint blocks | partly |
| Expressions, statements, threads (`theories/caesium/lang.v`) | frames of each thread, the heap | reads, writes, CAS, alloc, free, locals, call, return | two-step non-atomic accesses of several threads | a race is found at the first step or not at all; frames own their locals | partly |
| Program logic (`ghost_state.v`, `program_logic/`) | ghost state | lifting lemmas | step-indexing | proved in Rocq | not modelled |
| Time receipts and credits (`time.v`, `physical_step/`) | counters | add, spend, take a step | what one step may spend | supply covers all fragments | not modelled |
| Lithium (`theories/lithium/`) | the goal | proof search | backtracking | a proof or none | not modelled |
| Lifetime contexts (`rust_typing/lft_contexts.v`, `program_rules.v`) | name map, external and local context | the rules for each annotation | inclusion through aliases and extended lifetimes | an annotation never names an unknown lifetime; facts in use hold | partly |
| Pinned borrows, statics (`rust_typing/pinned_borrows.v`, `static.v`) | borrow tokens | open, change, close | who holds what when | lender gets back what was lent | not modelled |
| Types, place types, ghost variables (`rust_typing/`) | none: a logical relation | | | proved in Rocq | not modelled |
| Inclusion tracker (`translation/regions/inclusion_tracker.rs`) | base facts, barriers, two caches and two flags | add a fact or a barrier, check, make inclusions hold | stale caches | a cache marked valid holds what follows | modelled |
| Lifetime annotations (`regions/assignment.rs`, `composite.rs`, `calls.rs`, `init.rs`) | the tracker | annotations of each statement | order of copies, reassignments, joins | what the tracker believes holds in the lifetime contexts | partly |
| Fixpoint engine (`rr_frontend/analysis/src/abstract_interpretation/`) | work set, states before and after | pop the least block, join, apply, re-add successors | termination, blocks without states | result is a fixpoint above every execution | modelled |
| Definitely-initialised analysis (`analysis/src/domains/`) | sets of places | join, set, unset, effects of statements | prefixes of places, moves, cleanup edges | a place called initialised is so on every path | modelled |
| Definitely-allocated analysis | sets of locals | the same | | | not modelled: the frontend does not call it |
| Control flow, loops, real edges (`environment/loops.rs`, `mir_utils/real_edges.rs`) | back edges, loop bodies | collect bodies, order blocks | one-block loops, virtual edges | a loop body is the natural loop | modelled |
| Dying and zombie loans (`environment/polonius_info.rs`) | the facts of the borrow checker | which loans die on an edge | several predecessors, loans killed while in use | an ended loan is used no more | modelled |
| Function body translation (`body/translation/`) | stack of blocks, blocks put there, loop specifications | translate a block, push successors, end loans | order of a stack, loops met before their specification | every reachable block once, each loop its own specification | partly |
| Procedure registry, driver (`procedures.rs`, `lib.rs`) | functions with modes, what was translated, files | register, override, translate, assemble, write | errors half-way, closures first, interrupted runs, edits | what is specified is proved or trusted, proofs survive | partly |
| Shims (`shims/`) | what other crates provide | read, register | libraries that export each other | each library once | partly |
| Structs and enums (`types/translator.rs`) | cells, dependencies, literals | register, fill, order | recursion, failures half-way | defined before use; a failure touches no other function | partly |
| Trait requirements and resolution (`traits/`) | requirements and their cells | order, fill, constrain, finalize | orders of hash maps, assumptions of other requirements | the same list wherever it is computed | partly |
| Scopes, uses, instances of traits (`types/scope.rs`, `types/local.rs`, `radium/src/specs/`, `radium/src/code.rs`) | parameters of each item, collected uses | passes over a scope, register a use, apply | lists built in different places have to match by position | what is passed fits what is declared | partly |
| Specifications from attributes (`spec_parsers/verbose_function_spec_parser.rs`, `radium/src/specs/functions.rs`) | the specification so far, the builder | one attribute at a time, captures, assembly | modes that change what later attributes mean | each clause once and where it belongs | partly |
| Closures' implementations, unification, search (`body/`, `unification.rs`, `search.rs`) | none | structural translation | | | not modelled |
| Parsers of terms and other attributes (`spec_parsers/`, `attribute_parse/`) | none | grammars | | | not modelled |
| Radium: Rocq text (`radium/`) | none | print | | | not modelled |
| Configuration, cargo command, compiler interface | options | read, start processes | | | not modelled |
| Standard library specifications, case studies, build | none | | | | not modelled |

How they interact: the driver loads libraries, registers their shims, then the functions,
traits and impls of the crate, and translates bodies, closures first. Translating an item
builds its scope, which asks the trait registry for the requirements; its types ask the
registry of structs and enums; its body asks rustc for MIR and Polonius facts, asks the
analysis for the state before each statement, and keeps one inclusion tracker. The result
is Radium code with annotations, specifications, and templates of proofs, which are
written when all is translated. The Rocq side evaluates the annotations in order with the
rules for lifetime contexts while it types the code, and the type system's soundness is
stated for the steps of the operational semantics.

What is hard to test in this code is listed, line by line, under `hazards` in
`PROJECT.json`. In short: two-step accesses of several threads and provenance
(semantics); caches that are extended but never shrunk and branches translated with each
other's facts (annotations); termination and missing predecessor states (analysis); loans
that die on one of several edges (body); libraries that export each other, functions
skipped half-way, and runs that were interrupted (driver); recursion and registration that
fails half-way (types); lists of parameters and arguments that are computed apart, each in
an order a hash map takes part in (signatures).

## 2. Modules

| Module | Models | Kind |
|---|---|---|
| `CaesiumHeap` | heap.v: cells, allocation table, `heap_at`, `heap_upd`, allocation and deallocation of blocks, `heap_state_invariant` | operators |
| `CaesiumLang` | lang.v: one action for each rule of `expr_step` and `stmt_step` that changes the state | specification |
| `BlockMemory` | what the memory promises: separate objects, accesses at one instant, no locks | abstract specification |
| `CaesiumRefinement` | `CaesiumLang` implements `BlockMemory` | refinement |
| `CaesiumLang_proofs` | theorems about these | proofs |
| `InclusionTracker` | inclusion_tracker.rs, method by method | operators |
| `LifetimeContext` | lft_contexts.v and the annotation rules of program_rules.v | operators |
| `RegionAnnotations` | what is generated for an assignment, a composite value, a call | operators |
| `RegionTranslation` | the translation of a body followed by its type check | specification |
| `RegionTranslation_proofs` | theorems about the caches of the tracker | proofs |
| `FixpointEngine` | run_fwd_analysis, over any domain | specification |
| `BodyRun` | the engine, then a run of the body it has analysed | specification |
| `AnalysisResult` | compute_definitely_initialized; the best possible result | specification |
| `InitializedPlaces` | the definitely-initialised domain | operators |
| `PlaceTracking` | this domain along paths that fork and meet | specification |
| `Dataflow_proofs` | theorems about `AnalysisResult` and `PlaceTracking`, and that this domain meets the contract of the engine | proofs |
| `MirBody`, `ProcedureLoops` | real_edges.rs, loops.rs | operators |
| `LoanFacts` | polonius_info.rs, over facts as Polonius computes them | operators |
| `BodyTranslation` | body/translation: blocks, terminators, loop specifications, endings of loans | specification |
| `BodyTranslation_proofs` | theorems about the code and the loops of a body, and about the runs of the code | proofs |
| `CodeRun` | the paths of the translated code as the type system goes along them | specification |
| `ProcedureRegistry`, `ShimLibraries`, `DefOrder` | procedures.rs, the work lists over libraries, order_defs_with_deps | operators, actions |
| `CrateTranslation` | generate_coq_code up to the assembly of impls | actions |
| `OutputFiles` | write_coq_files, over several runs with kills and edits | specification |
| `OutputFiles_proofs` | theorems about it | proofs |
| `AdtRegistry` | registration of structs and enums, with the call stack as a variable | actions |
| `AdtOutput` | functions one after the other over one registry, then the definitions | specification |
| `AdtOutput_proofs` | theorems about it | proofs |
| `TraitRequirements` | the requirements of an item and the orders they can come in | operators |
| `GenericScopes` | the passes over the scope of an item | actions |
| `ScopeInstances` | parameters declared, arguments passed, instances of traits | operators, actions |
| `SpecAttributes` | attributes to a specification | actions |
| `Signatures` | the three together | specification |
| `Signatures_proofs` | the theorems about it | proofs |
| `FixedPoints` | lemmas the proofs share: least numbers, iteration to a fixed point, folds over finite sets, flattened sequences, layers of definitions | proofs |
| `MC...` | instances for TLC | models |

### 2.1 The operational semantics

State: `heap` and `allocs` are `hs_heap` and `hs_allocs`; `frames[t]` is `ts_frames`
of thread `t`, innermost first; `ctl[t]` is the redex the thread is at; `out` is
what the last redex evaluated to. A non-atomic access is two steps. The first
(`Na1Ord`) moves the lock state of every byte and leaves the redex `deref2` or
`assign2`; the second (`Na2Ord`) undoes the lock and delivers the effect. Each
rule is an operator with the rule's name (`DerefS`, `CasSucS`, `ReturnS`, ...); an
action (`Deref`, `CAS`, `Return`, ...) chooses its operands.

The program is arbitrary: inside a function body any redex may be next. Operators,
`If`, `Switch`, `Goto` and `Skip` only choose which redex comes next, so they are
covered by that choice. A redex no rule applies to is stuck, which is undefined
behaviour; it is not a step. Results therefore hold for every program up to the
point where it does something undefined. Bytes are integers or poison; a pointer is
a provenance and an address, and any pointer may be used at any time, dangling ones
and those out of range included. Not modelled: alignment (every layout has
alignment 1), the bytes of pointers, the numeric value of several bytes, and
`Fork`-like creation of threads, which the language does not have.

`BlockMemory` is what a reader of Rust expects: named objects that are alive or dead,
reads, writes and compare-exchanges that happen at one instant inside one object,
frames of objects. The mapping (`objects`, `stacks`) takes each allocation to an object
with the bytes the heap holds at its addresses; the first steps of non-atomic accesses are
stutters, or `Quiet` when they take the previous result away.

### 2.2 The lifetime annotations

State: `body`, one statement for each block; the translation (`inclusion_tracker`,
`bb_queue`, `processed_bbs`, `basic_blocks`, `panicked`); the type check (`at`, `todo`,
`ctx`). `translate_basic_block` is one iteration of the loop of
`body/translation/mod.rs`: it pops the last block of the queue, translates its
statement with the tracker as it is, and enqueues the targets not seen before. A block
with two predecessors is therefore translated after the first of them, and often before the
second. When the
queue is empty the type system starts at the first block (`BeginCheck`),
takes one annotation at a time (`typed_annot`), and goes on to any successor
(`typed_goto`).

A statement is what the code reads of it: the subset facts Polonius has at its
middle point, the regions of the assigned place, whether the place is reached
without a dereference (`strong`), the regions of the value's type, the loan it
issues and the form of the value. A statement's translation is a chain of steps on
a record of the tracker and the annotations, in the order of
`basicblock.rs`/`calls.rs`: unconstrained regions, composite values, loans, then
the assignment. `MCRegions` names the statements after the Rust they stand for
(`Borrow(4, 7)` is `q = &p` with loan 4).

The bodies enumerated are those rustc could hand over: locals are assigned before
they are read on every path, a region of a loan or value belongs to one statement, a
mutably borrowed place is left alone while the reference is used, and no universal
region flows into another without a known inclusion. A body does not start with a
call (see the hazard at `polonius_info.rs:255`). The outer region of `y: &mut &u8` is
left out, as it takes no part in the statements used. The lifetime a user would give
for a raw borrow is that of the function.

### 2.3 The analysis

`FixpointEngine` is the loop of `run_fwd_analysis`, with a step for each effect on its
variables: take the least block of the work set, join one predecessor, apply one
statement, apply the terminator, collect one of its states, insert the states and
add the successors that changed. `state_before` and `state_after_block` are the maps
of `PointwiseState`. Predecessors are joined in any order. The domain is a parameter,
as the trait is in the code: its join, bottom, initial state and effects are CONSTANT
operators. A terminator the domain does not support ends the analysis with
`UnsupportedStatement`, one that gives no state to a successor with
`NoStateAfterSuccessor` (`pc = "failed"`).

`BodyRun` continues where the engine has finished: a run of the body from its entry,
one statement or terminator at a time, with concrete states that are a parameter as
well. `DomainAssumption` is what `abstract_state.rs` asks in prose of an
implementation: the join describes what either side describes, and the effects
describe what statements and terminators lead to. TLC evaluates it for the domain of the
run.

In `InitializedPlaces` a place is a local with its projections, a sequence, and a
statement is what the analysis reads of it: the places it moves out of, in order, and
the one it assigns. `expand` and `collapse` follow the place that is moved or
assigned; the recursion of `collapse` becomes a fold from the longest prefix to the
shortest. Concretely, a run has a set of initialised cells, the places without
fields. What a statement does to it is MIR's semantics, which is not part of the
repository, so these definitions are mapped as external. The borrow checker's guarantee
that operands are initialised is assumed in `PlaceTracking` and not needed in `BodyRun`.
Enums, arrays and unions, whose projections expand like a dereference or not at all,
are represented by the dereference.

`compute_definitely_initialized` records one state after each terminator, the join over
its edges: `after_statement`.

### 2.4 The body

A body is a function from block numbers to statements and a terminator with ordinary
and virtual targets (`MirBody`). `ProcedureLoops` has the loop bodies as `loops.rs`
computes them, the assertions on the way (`info.panics`), and its order of the blocks.
`LoanFacts` holds the borrow checker's facts as Polonius computes them, which are
external, and on them the sets that `polonius_info.rs` derives: the loans that are active,
that die from one location to the next, and that live on as zombies after they were killed.
Each relation is the least set that its rules do not add to (`Saturated`). Loans have the
number of their borrow, as in rustc, so a loan is issued at one location.

`BodyTranslation` is the translation: `Prepare` computes loops and facts,
`TranslateStart` and `TranslateNext` are iterations of the loop over the stack `bb_queue`,
`Finish` parses and registers the loop specifications. A block becomes its statements
with `end_lft` in front of those at which loans die, and jumps, each with the
endings on its edge. A statement here is what this part reads: a borrow with its loan, a
move, a use, storage statements, the assignment of a specification closure. What the
translation does not support is an error where it is met (`statement_errs`,
`operand_errs`, `terminator_errs`: kinds of values, casts, constants, places, calls of what
is no function); what supported expressions become in Radium is left out, and types are
taken to be translatable.

`CodeRun` then goes along all paths of the code as the type system does: `open` are
the named lifetimes, `carries` the open loans a reference depends on, `lent` what it
was lent for, `ended` the references that must not be used any more, `stray` the loans
whose lifetime lost its name because the loan was issued again. `EndLft` of a name
that is not there does nothing, as `type_endlft` says.

### 2.5 The crate

`CrateTranslation` has one action for each part of `generate_coq_code`: the work lists
over libraries (`IncludeLibrary`, `ExportLibrary`), registration of shims, functions, traits
and impls, one body at a time (`TranslateNext`), and the assembly of impls from what was
translated. What happens to a body is an outcome: it is translated, not supported, or a
compiler error; calls are looked up in the registry at that point.

`OutputFiles` goes on with the files: the interface, the purge of the generated directory,
specifications, templates, then one proof at a time in two steps (`CreateProof`
creates the file, `FillProof` writes it), and the dune file. The interface lists the public
functions and traits and the impls that have a flat form (`Flattened`). `Kill` may end a run before
any of these steps from the purge on; `Exit` ends one that is done or has failed. Between runs the crate may be edited
(`Edit`, to a crate of `Edits`) and a proof that was written may be edited by hand
(`EditProof`). A generated file that a killed run was writing is as good as missing, as
the next run purges it. Left out: constants, statics, module attributes, the format of the
interface file.

### 2.6 Structs and enums

The translator's functions call each other: a type registers the structs and enums in it,
which translates the types of their fields. `tasks` is the call stack, innermost call
first, and each action one step of a function: `AdtRegistry` has the cells, which are
entered empty (so that recursion can refer to them) and filled at the end, the
dependencies, and the literals by which functions refer to what libraries or the crate
define. A failure takes the calls off the stack one by one, and each removes what it had
entered, or does not. An annotated field needs the layout of its Rust type at once: of each
definition in it (`LaidOut`), unless a reference is in between, which is a pointer whatever
it refers to (`specs/mod.rs:95`). `AdtOutput` translates the functions of a crate one after the
other over the same registry and then writes the definitions in the order of
`DefOrder`. Dependencies come from the types of fields; those of bounds are dropped,
as `register_dep_on` does outside the translation of a definition (`translator.rs:271`).
Left out: tuples and closures' captures, projections, the text of definitions.

### 2.7 Signatures

`TraitRequirements` computes the requirements of an item: the bounds of the item
and of what surrounds it, ordered by a comparison that is not total, in layers by
the dependencies of traits. What leaves the sort in the order of a hash map may come in
any order, so the result is a set of orders, and each place that computes the list takes
one of them. `GenericScopes` builds the scope of one item: a cell for each requirement that
is allocated empty, filled, constrained by equalities, and finalized in that sequence of
passes, each requirement being a step. `ScopeInstances` has the lists a definition
declares (types, associated types, attribute records), the lists that a use, an instance of
a trait or the abstraction over a use passes, and what it means that they fit.
`SpecAttributes` handles the attributes of a function or a closure one at a time and pushes
the result to the builder. A type is a sequence of its words; a trait has at most one
associated type, and one with an associated type has no parameter but `Self`. Left out:
lifetimes and const generics, higher-ranked bounds, instances of impls inside
instances, the abstraction of closures' impls, and terms: a clause is the number of the
attribute it came from.

## 3. Runs

| Run | Bounds | Shows |
|---|---|---|
| `caesium_races` | 2 threads, 2 allocation ids, 4 addresses, sizes 1-2, no calls but `main` | locks, races, dangling pointers, torn accesses; refinement |
| `caesium_calls` | 2 threads, 1 variable, 2 frames, sizes 0-1, a function with an argument | locals and returns while the other thread accesses them; zero-size blocks |
| `regions` | 862 bodies with a branch whose arms meet again: two statements before it, three in one arm, one in the other, which is translated first, and two behind the join, which are translated before the longer arm; 3 locals, 10 regions | caches, beliefs and writes through references; one arm's facts are not believed in the other, and what both leave holds behind the join |
| `regions_stale_cache`, `regions_assertion` | one body each | disagreements 1 and 2 of section 5 |
| `places` | 9 places: a nested pair and a box of a pair; all statements with two moves | the domain itself: sound and exact |
| `analysis_initialized` | 3,466 bodies: all of three blocks over three choices of statements and exits, one of seven blocks with two loops, unsupported terminators | soundness, completeness, the loop invariant, termination; where nothing unwinds, no better result exists in the domain |
| `body` | 3,151 bodies: all reducible graphs of four blocks with jumps, branches and false edges; bodies with two loans in a branch, a loop or around a call; each kind of terminator; loops over iterators, nested loops | loops, blocks, loop specifications, endings of loans |
| `body_zombies` | one body | disagreement 3 |
| `crate` | 282 crates around one with a trait, an impl, a derived impl and nested closures; 2 runs, 1 edited proof, three libraries of which two export each other | libraries, files and proofs, with kills and edits |
| `types` | 23,805 crates of three structs and enums and two functions | recursion, failures half-way, order of definitions |
| `signatures` | 12 crates, and 2,265 functions and closures with up to three attributes | parameters against arguments; every clause of a specification once |

Why the bounds are enough. For the semantics, two threads make every pairwise race
and two ids make a dangling pointer whose address is reused; sizes 1 and 2 make
overlapping and partly overlapping accesses; two ids are all that a refinement error
between two objects needs. The proofs of section 4 remove these bounds for every
property of the two runs. Threads, ids and variables are symmetric, as no action or
property tells two of them apart. For the annotations, four statements are one to
make each of two references known and two to change and use what was related: they lie
around the branch of a body, and, in the bodies with statements behind the join, before it,
in both arms and behind it. Six pairs of arms do the same, and
in four one assigns or writes what the other does not. The
assertion needs six statements. The locals are one argument, one local of its type, and one mutable
reference to such a local, which is the least that makes a type invariant in its region.
For the analysis, three blocks give a loop of one and of two blocks, a join, a back
edge to a block with a smaller number, a block no path leads to and two edges between the
same blocks; one larger body adds unwinding out of a loop. Two levels of fields make
`expand` and `collapse` take two steps, and a box of a pair makes them cross a
pointer.

For the body, four blocks give two nested loops, two loops in a row and one head with two
back edges; three variables and two loans give a reborrow, a move of it, a loan killed
while a zombie is in use and a loan issued again in a loop. For the crate, a second
run is what meets the files of the first; further runs meet nothing new, since what is
generated is purged; the crates differ from the first in one or two annotations each,
which gives every mode, every failure and every clash once. For types, three
definitions give direct recursion, mutual recursion and a third that depends on either; two
functions give a second use after a failure. For signatures, the crates are chosen for
what the code treats apart: equalities between two requirements, a chain of them, traits
with parameters, methods with bounds of their own, instances and uses with and
without the surrounding parameters, mutually dependent traits; three attributes of
every kind make each mode change what a later one means.

Bounds in guards: `MaxFrames` (depth of calls), `MaxRuns`, `MaxEdited` (runs of the
frontend, edited proofs), `MaxDepth` (the call stack beyond which the type translator
overflows the real one; no crate without mutual recursion comes near it). The others
(`MaxUSize`, `AccessSizes`, `BlockSizes`, `Stmts`, `Location`) are ranges of constants.

Runs end: a program returns, runs out of address space, or gets stuck; a check of a
body ends at its last block; the frontend exits. Their configurations therefore say
`CHECK_DEADLOCK FALSE`. Fairness is assumed for the loops of the frontend only, which is
one sequential thread that runs until it has finished: `WF_vars(Analyse)` of the
engine, `WF_allvars(Translate)` of the translation of a body, and `WF_vars(Next)` in
`Signatures`, where each step is the next one of that thread. The runs of analysed bodies and
of translated code are under no fairness, nor is the crate, where a user acts. The
semantics promise no progress (a thread may never be scheduled).

### Properties

Semantics:

- `LockAccounting`: the lock state of each cell is exactly the accesses in progress
  on it. CAS, and freeing, set or drop lock states without looking at the threads.
- `SecondStepNeverStuck`: the second half of an access never fails.
- `AccessUndisturbed`, `NoUseAfterFree`: nobody changes or frees the bytes of an
  access in progress.
- `HeapInvariant`: cells are the addresses of living blocks, which are disjoint.
- `StackDiscipline`: locals own their stack blocks, one each, and no stack block
  outlives its local.
- `ImplementsObjects`: the refinement of `BlockMemory`.
- `TypeOK`.

Annotations (what follows is put to the lifetime contexts of the type system):

- `StaticInclusionsExact`, `FullInclusionsComplete`: a cache marked valid is the
  closure of the facts under the barriers; nothing that follows is missing.
- `BelievedHoldsIfOnce`: what a query of the tracker would say after a statement
  holds in the type system's contexts on every path to it, for bodies that assign each
  place at most once on each path.
- `FactsHoldIfEquatedOnce`: what follows from facts and barriers holds there, for
  bodies that may reassign but relate a place both ways at most once, on its first
  assignment.
- `WeakUpdatesEnforced`: after a write through a reference, what the borrow checker
  asked for holds, for bodies that assign each place at most once on each path.

All three have one more condition, `MeetAlike`: where control flow joins on the way to the
statement, the same inclusions are believed (or follow) behind every predecessor. The tracker
keeps the facts of either arm behind a join (`inclusion_tracker.rs:132` follows all
predecessors), so where the arms leave different inclusions what it believes holds on one
of the paths only, whatever the order of the blocks (disagreement 17). The run has bodies on
both sides of the condition. Statements before a join are checked in all of them. Each
condition is needed: without any one of them TLC finds a violation in the bodies of the run.
That they are all a body has to satisfy is shown for the bodies of the run only.

Analysis:

- `Described`: what the result says of a location is true of every run there.
- `EdgesCovered`: the invariant of the loop, with the block at hand as its exception.
- `Complete`: the caller's unwraps find a state for every location and edge.
- `Terminates`: the loop ends.
- `DescribedAfter`: the one state recorded behind a terminator holds on every edge.
- `BestResultWithoutUnwinding`: nothing in the domain that is true of all runs says more,
  for bodies whose blocks are all reachable. A block without a path to it is analysed
  from bottom, and what it moves out of is lost where it joins a reachable one.
- `Sound`, `Exact`: the sets of places against the cells initialised on every path.

Body:

- `LoopsExact`: the loop bodies are the natural loops, nested or disjoint, the order of
  blocks follows every edge but the back edges; and the assertions on the way fail in
  exactly two situations (a head that is the source of its own back edge, a loop with a
  block that only virtual edges enter).
- `CodeComplete`: the translated blocks are those that real edges reach, and no jump
  leads elsewhere.
- `LoopsSpecified`: each loop in the code has one invariant, from a closure assigned in it
  and in no loop inside it, if there is one.
- `UsesHoldUntorn`: on no path is a reference used after a lifetime it depends on
  ended, but for bodies with the situation of `body_zombies`.
- `LentBack`: what was lent is back before it is used, but for loans that die where the
  translation does not look (before a terminator).
- `Ends`: the translation ends.

Crate:

- `LibrariesLoadedOnce`: each library the work lists ask for is added once and in its own
  place, and no other.
- `SpecsProvedOrAssumed`: after a finished run the templates are those of the functions
  it translated; what is specified and not trusted has its lemma and a proof that is
  built; each impl has the proof that it meets its trait; traits come after those they
  depend on.
- `CallsSpecified`: the specification a translated body uses for a callee is one for that
  function, and is there, or a message says why not.
- `ClosuresFirst`: the frontend stops for want of a closure only if that closure failed, or
  is called from within another.
- `ProofsKept`: no step changes or removes a proof edited by hand.

Structs and enums:

- `DefinedBeforeUse`: what a definition mentions in its fields comes earlier, or is itself.
- `UsesDefined`: the literals of translated functions belong to a library or to a
  definition that is written.
- `OutcomesRight`: a function whose types are supported is translated, whatever became of
  the functions before it; what was translated is supported down to the last field.

Signatures:

- `UsesAligned`: what a use passes fits, at each position, what the callee declares,
  although both lists are computed on their own.
- `InstanceAligned`: the instance of a trait fits its methods; `Self` comes last among
  the surrounding requirements.
- `ConstraintsQuantified`: an associated type that an equality determines is no parameter.
- `ClausesKept`: each clause reaches the specification once, before `rr::ok` for all cases,
  behind it for success or failure; an attribute of a trait that is specialized is the one its
  name denotes.
- `Ends`: the run ends unless traits depend on each other mutually.

Each property has a mutant of the code (`mut_...` beside the definition it replaces)
under which TLC finds it violated.

## 4. Proofs

### The semantics

`CaesiumLang_proofs` proves, for all finite sets of threads and all values of the other
constants under `HeapAssumption` and `LangAssumption`:

| Theorem | Property | Inductive invariant |
|---|---|---|
| `TypeCorrect`, `FramesCorrect` | `TypeOK`, `FrameWhileRunning` | `TypeInv` = both |
| `HeapCorrect` | `HeapInvariant` | `HeapInv` = `TypeInv` and it |
| `LocksCorrect` | `LockAccounting` | `LockInv` = `HeapInv`, `LockAccounting`, `AccessOwned` |
| `SecondSteps` | `SecondStepNeverStuck` | follows from `LockInv` |
| `NoDangling` | `NoUseAfterFree` | follows from `LockInv` |
| `Undisturbed` | `AccessUndisturbed` | a step from `LockInv` |
| `Identifiers` | `IdentifiersUsedOnce` | a step from `TypeInv` |

`TypeOK` alone is not inductive: a step replaces the innermost frame, which has to be
there, hence `FrameWhileRunning`. `LockAccounting` alone is not inductive either:
freeing drops cells, and what keeps a free from dropping the cells of an access in
progress is that these cells exist, belong to the pointer's block and are locked.
`AccessOwned` says that they exist and belong to it; with the accounting they are
locked, and `free_blocks` only frees unlocked cells.

The argument for locks goes cell by cell. A step of thread `t` changes the readers
and writers of an address by `t` at most (`ReadersStep`, `AccessStep`), so the
accounting before the step, the guard on lock states and the new lock state give
the accounting after it; one lemma for each rule (`DerefLocks`, `AssignLocks`,
`CasLocks`, `AllocLocks`, `FreeLocks`, `BlockStep`). Blocks that are allocated or
freed are folded over a set in the code; the model adds them at once, and
`AllocBlocksInvariant` and `FreeBlocksInvariant` are about that form.

The same module proves `LocalsOwnBlocks`: `StackDiscipline`. A call shifts the
frames of its thread by one and a return shifts them back, so the owner of a block is a
place (thread, frame, variable) that moves under a step. The rules that add and drop
locals are stated with a map from the places after the step to those before
(`AddLocals`, `DropLocals`): every local that is kept has the block it had, those added
take fresh blocks, one each, and the blocks freed are those of the locals dropped.

Last, the module proves `Implements`: `ImplementsObjects`. The object of a
live allocation has the bytes of the heap at its addresses (`objects`). A read or a write is
the object's `Load` or `Store` at its second step (at its only one, if it is atomic); first
steps change only lock states and are stutters or `Quiet`, and so are accesses of size 0,
which may be at the edge of any object. What the second step of a write stores is inside the
pointer's own object because `AccessOwned` and `HeapInvariant` say so, and that it leaves
the other objects alone is the disjointness of blocks. `LocalDead` and `Return`
destroy objects; that these are alive and on the stack is `StackDiscipline`. So the step
simulation holds under `StackInv`, the invariant of the theorem before.

### The analysis

`Dataflow_proofs` proves, for every set of bodies, every domain and every semantics of
runs under `EngineAssumption` and `DomainAssumption`:

| Theorem | Property |
|---|---|
| `Soundness` | `Described` |
| `SoundAfter` | `DescribedAfter` |
| `EdgesAlwaysCovered` | `EdgesCovered` |
| `ResultComplete` | `Complete` |
| `EngineTypeCorrect` | `EngineTypeOK` |

`Described` says nothing of a run that has not begun, so the invariant `Inv` is about
the engine. Inside a block each recorded state is the effect of the statement
before it, but at the one place the engine has just left off (`Chain`, `Applied`); the
states on the edges out of a block follow from its last location, but while they are
collected (`EdgeStates`, `Collected`); an edge is covered by the state of its target, but
where that is in the work set or being opened (`EdgesInv`, `Joined`, `EntryInv`); and
no block is forgotten (`Visited`). When the work set is empty all exceptions are gone
(`FinishedFacts`), and a run goes from one described state to the next. Neither
monotone effects nor a least upper bound are needed, only for precision and
termination, which TLC checks. The engine's loops over predecessors, statements and
states are steps of the specification, so that the proof needs no induction over data. The
one fold is that of `compute_definitely_initialized`, which joins the states of a
terminator's edges: each join keeps what was described before, so the last one describes
the run on every edge (`JoinedDescribe`). That needs a body to have finitely many blocks.

### The annotations

`RegionTranslation_proofs` proves, for all bodies, facts and orders of blocks under
`TrackerAssumption` (regions and locations are finitely many) and `TargetsAssumption`:

| Theorem | Property |
|---|---|
| `StaticExact` | `StaticInclusionsExact` |
| `FullComplete` | `FullInclusionsComplete` |

Two lemmas carry this. `compute_transitive_closure` returns the least set of facts above
the given ones that nothing can be derived from, barriers included: it goes over all facts
until none is added, and each round that goes on adds one of finitely many. And each method
of the tracker keeps `CachesRight`, the invariant of its caches and flags. It is stronger than
the properties: the static cache never holds more than what follows, unless it is marked
fully invalid, even while `invalidated` is set; there is no cache of all inclusions
without one of the static ones. That closures grow with their facts and shrink with more
barriers is what the methods that extend a cache in place rely on. What a statement does to
the tracker is a chain of such methods (`translate_statement`), so `TranslationInv` is that
the tracker is one of `Trackers` and that the blocks still queued are locations.

### The places

`Dataflow_proofs` proves as well, for all finite or infinite sets of places, nested and behind
pointers as they may be, under `PlaceAssumption` (the prefixes of a place are places, what
has fields is not a pointer) and `StatementsAssumption`:

| Theorem | What it says |
|---|---|
| `TrackingSound`, `TrackingExact` | `Sound` and `Exact`, from `TrackingInv` |
| `DomainMeetsEngine` | the domain meets `EngineAssumption` for bodies and terminators of the right shape |
| `DomainMeetsContract` | it meets `DomainAssumption` for terminators of the right shape |

By the last two, what is proved of every domain is true of this one. `Sound` is
not inductive alone: that taking a place out of the set takes out all of it needs that no
place is in the set beside one it is part of (`check_invariant` in `state.rs`), which is part
of `Tracks`. The lemmas follow the code: what `expand` leaves of a place besides the one it
is expanded towards, what `collapse` puts together, and that both keep the cells that a set
covers. Both are folds over the lengths of prefixes, and the lemma about a fold says what
holds after each length.

### The body

`BodyTranslation_proofs` proves under `BodiesAssumption` (a body has the shape of MIR and
its graph is reducible, which rustc guarantees) and the other assumptions on constants:

| Theorem | Property | Invariant |
|---|---|---|
| `CodeIsComplete` | `CodeComplete` | `CodeInv`: translated and waiting blocks are those ever pushed and the first one; jumps of translated blocks lead to pushed ones; only reachable ones are pushed |
| `LoopsAreExact` | `LoopsExact` | `LoopInv`: the loops are those of the body, and each head that was pushed has its closure |
| `LoopsAreSpecified` | `LoopsSpecified` | the same |
| `NoUseAfterEnd` | `UsesHoldUntorn` | `RunInv`, with `FormInv` for the code |
| `LentIsBack` | `LentBack` | the same |

The last two hold under `ReferencesAssumption` as well: the bodies are those rustc hands
over after borrow checking (borrows and moves are between references, each loan has one
borrow, of the terminators only calls and switches on discriminants define anything), and
no reference is used while it is lent, by Polonius' own facts. The runs evaluate it for the
bodies they use. That bodies use no variable before it is initialised is not needed.

The argument for loops is about `loops.rs` itself, which is one long computation of
`Prepare`. Its depth-first search is a state with a stack, and `SearchInv` is what every
iteration keeps: no block is on the stack and in the order, or twice in either; the
successors of a block in the order precede it, but for back edges; what a block on the stack
has left to visit are successors that are not done; the blocks on the stack lie ahead
of each other, where reducibility enters. The search ends because each iteration takes
something from `Left`, the visits still to be made, of which there are finitely many. The
body collected for a head is its natural loop (both are least sets), and the assertions are
those of the visits that are made. `Nested` follows from dominance (`LoopsNested`), and the innermost
loop of a closure's assignment is the one its specification is for.

The argument for loans relates the paths of the code to the dataflow over the body.
`FormInv` says that a block of the code is its locals that are always live, then for each
statement the endings in front of it and the statement if the translation keeps it, then the
terminator's effect and endings; `Layout` says at which number each part begins. `RunInv`
then says where in this layout a run is (`Reached`: among the endings before some location,
or among those after the terminator) and what holds there. For uses (`Sound`): where a
variable is live its reference has not ended, and each open loan it carries is one that its
origin contains there, as a loan or as a zombie. This is kept because the relations are the
least ones: where an edge carries liveness back it carries loans on (`OwnedCarries`), so a
loan that is ended while a live variable carries it dies in one form and is live in the
other (`EndsTorn`), which is the situation `UsesHoldUntorn` excludes (`Torn`). For what is
lent (`LentRight`): an open loan that a reference is lent for is live at the location, or
about to be ended, or one of those that die where the translation does not look (`Unseen`);
at a use it cannot be live, as the borrow checker accepted the access. Statements that
are not in the code, and blocks that are empty, are passed without a step of the run
(`Settles`): what holds in front of them holds behind them.

### The driver

`OutputFiles_proofs` proves, for all crates, libraries, edits and bounds, under
`LibraryAssumption`, `CrateAssumption` and `ProgramAssumption`:

| Theorem | Property | Inductive invariant |
|---|---|---|
| `ProofsAreKept` | `ProofsKept` | `FillsItsOwn`: a script is only written to a file that this run has created |
| `LibrariesAddedOnce` | `LibrariesLoadedOnce` | `LibrariesInv`: the libraries added are those found among the ones taken off the two work lists, one place each (`SourcesOnce`); nothing waits in both or was taken twice (`WorkLists`); what was asked for is waiting or was taken, and all of it was asked for (`Reached`) |
| `ClosuresComeFirst` | `ClosuresFirst` | `CrateInv`: what has an entry in the registry, and with which mode (`Entries`); of each body in turn, that it was translated, or the reason why not (`Translating`, `AllSettled`); what a translated body called (`TranslatedRight`) |
| `EveryCallSpecified` | `CallsSpecified` | `CrateInv` and `SpecificationsInv`: the files have the code and specifications of what the registry holds |
| `SpecificationsAreProved` | `SpecsProvedOrAssumed` | these and `FilesInv`: the templates are this run's, and each proof file is listed or still to be written |

A proof that exists is not created (`Created`), hence never filled; what happens to the
crate between runs does not matter, nor where a run was killed. For libraries, the
second work list also takes what the first has included already, and it is the set of
included libraries that keeps it from adding them again.

The registry is built by loops over the functions of a crate, and its invariant is put as
what holds of the functions that the loop has passed (`Past`). Every call of a translated
body found an entry of the callee when it was made, and an entry is never removed
and keeps its mode; a closure without one stops the frontend, and the order of
bodies has it before the function it is in. That traits come after those they depend on is
a theorem about `order_defs_with_deps`: each layer takes the definitions
that depend on nothing left, and what a cycle leaves over stops the frontend.

`SpecificationsAreProved` has the hypothesis `NamesApart`, that no two items have the same
flattened name. The code does not guarantee it (disagreement 8), and without it two
functions share one template. The crates of the run `crate` satisfy it. The assumptions on
programs and libraries are what rustc and the format of libraries ensure: bodies are listed
once, a method belongs to one trait, shims are for the items of other crates, and what is
exported under another path is no method of a trait of its own.

### The types

`AdtOutput_proofs` proves, for crates with any number of structs and enums, types of any
depth, any number of functions and any bound on the call stack, under `AdtAssumption` (the
ADTs are finitely many), `TypesAssumption` (the arguments of a type are types, the ADTs in it
are those of the crate) and `CratesAssumption` (a struct has one variant; libraries and attributes
list ADTs):

| Theorem | What it says |
|---|---|
| `RegistryAgrees` | the inductive invariant `Inv`, which has the two properties as its last conjuncts |
| `DefinitionsOrdered` | `DefinedBeforeUse` |
| `UsesWritten` | `UsesDefined` |

Neither property says anything before the definitions are written, and what makes them true
then is decided while calls are on the stack, so most of `IInv` is about the stack (`StackInv`).
The tasks of the fields of an ADT are before the one that builds it (`Nested`). A
cell is entered and built once, at most one build of an ADT is pending, and one that is
registered again, through its own bounds, is built before it is entered again (`Once`,
`OneBuild`). What a function asks for is behind every build (`FunctionsLast`), so that no
build is pending when a function refers to an ADT.

`DefinedBeforeUse` follows from what is noted. A cell refers only to ADTs that are among the
dependencies of its owner (`CellsInv`); one that is filled has them in `adt_deps`
(`FilledInv`); and the layers of `order_defs_with_deps` respect `adt_deps` (`LayersOrdered`)
and have all of it, unless there is a cycle (`LayersComplete`).

`UsesDefined` is harder, because a registration that fails takes its entry back,
and an ADT can be under registration twice. That the results of earlier
functions stay defined (`ResultsInv`, `Stable`) needs that an ADT with a literal is never taken
back. `SecondInv` says why: if an ADT that has a literal is entered again, then
nothing in it can fail. There are a set of types, closed under arguments, with all
supported, and a set of ADTs, all registered, that cover its fields (`SoundDef`), and every
call above its build is about these (`HarmlessAbove`). When a build succeeds, these sets are
what `FieldsCovered` and `VariantsEntered` have kept of it: the types met in its fields so far,
and the variants entered. An enum's attributes need no word here, as an error in
them, like a second literal, ends the whole translation (`Alive`), after which only
what was done before is asked for.

### The signatures

`Signatures_proofs` proves `EveryClauseKept`, that is `ClausesKept`, for crates with any
number of items, any traits and requirements in any of the orders they can have, and any
list of attributes, under `ProgramsAssumption` (bounds, parameters, attributes and captures
are lists; type parameters have an index; a parent is an item of the crate). The inductive
invariant `SigInv` has three parts.

- `Given`: each order that `get_nontrivial` can return is a list.
- `ScopeInv`, about the scopes: in each pass a cell that is not empty belongs to a requirement
  that is not the one on `Self` (`Filled`); a name for an attribute denotes a cell on that parameter
  whose trait declares the attribute (`NamesHold`); and a requirement that the last pass has
  visited has its names (`Visited`). Hence, in a finished scope, every filled
  cell of a parameter has its names (`Complete`).
- `SpecInv`, about the specification, stage by stage: the clauses of the attributes handled so far
  are in the lists, with those behind `rr::ok` apart (`Collected`); after the last one they are merged
  (`Assembly`); the builder then has them behind the observations of a closure
  (`Observed`), and nothing else. For each attribute of a trait that was handled there is a
  requirement that it was attached to (`TraitsHandled`).

The last part of `ClausesKept` needs both. The requirement that an attribute is attached
to is any one in a hash map that declares it; a name denotes the last one of the pass. Both
are cells on the same parameter that declare the attribute, so they are the same if there is
only one.

`ConstraintsAreQuantified` proves `ConstraintsQuantified` under `AssocAssumption` as well. It
says of the types in the model what their representation presupposes: a projection
is of a parameter (`<T as It>::Item`), so a trait with an associated type has no parameter but
`Self`, and bounds on it and equalities for it are on parameters; it is none of the
builtin traits, which never become requirements; a bound is on a trait of the crate. The
inductive invariant adds `QuantInv` to `SigInv`.

- The orders are those of the bounds (`OrderOf`): each requirement has the key of a bound
  and the type of an equality for it, if there is one, and no bound is lost but those on
  builtin traits. So every requirement `normalize` leaves in a type has a cell (`KeysIn`).
- Until the pass over the equalities no cell is constrained, and nothing is resolved before it has
  ended. During the pass a cell is constrained only if an equality is for its key, to a
  type that no equality is for (`Constrained`): if the equality is `A = B::Item` and none
  is for `B::Item`, then the cell of `B` is not constrained, now or later, and the parameter it
  stands for is kept. This is where a chain of equalities breaks the argument: the
  cell of `B` may be constrained after `A` was translated.
- From then on whatever is resolved for a requirement or found for a name is the constraint, or
  the associated type of a cell that has none (`Quantified`). The names of two associated types are
  the same only if their keys are (`LiteralOf`).

### What is only model-checked

- Of the annotations, `BelievedHoldsIfOnce`, `FactsHoldIfEquatedOnce` and
  `WeakUpdatesEnforced`: they compare the tracker with the lifetime contexts after
  the whole chain of annotations.
- Of the analysis, `BestResultWithoutUnwinding`, precision and termination.
- Of the types, `OutcomesRight`, which compares what became of each function with a
  recursive definition of the types that are supported (`MCTypes`), which the prover does not take.
- Of the signatures, `UsesAligned` and `InstanceAligned`: they compare lists that are
  selected (`SelectSeq`) and flattened, position by position, which is an induction over the lists.
- All liveness, as liveness under fairness and `ENABLED` are out of reach.

The library's induction theorems take an operator as a parameter, which no prover here
can instantiate. Where the code computes by a loop or a recursion, the proofs use sets in
its place: a set of numbers that is not empty has a least one (`LeastNumber`), from which
`FixedPoints` derives, for the sets and functions at hand, that an iteration over a finite set
saturates, what a fold over a finite set returns, what a flattened sequence contains, and
that layers of definitions are in order. Each lemma takes the set of those arguments for which the claim holds.

## 5. Disagreements between the code and what is said of it

Found by a run that is expected to violate the property:

1. `inclusion_tracker.rs:154` (`regions_stale_cache`): `recompute` refreshes the static
   cache first, which resets the flag a new barrier has set, so the cache of all
   inclusions keeps what the barrier should have stopped. For `q = x; x = &p; y = &mut q;
   *y = x` the dynamic inclusion the last statement needs is omitted.
2. `inclusion_tracker.rs:203` (`regions_assertion`): an assertion that a reverse
   inclusion is static fails after two writes through references in opposite directions.
3. `polonius_info.rs:391` (`body_zombies`): a loan that dies as an active one on an edge out
   of a loop, and lives on as a zombie for the path through the loop, is ended for both.
   `let x = &mut *q; while c { q = x; x = &mut *q; } *q` then uses a reference whose
   lifetime has ended.

Met on the way, and the reason why a property has a condition:

4. `assignment.rs:211`: mutual equalities are turned into two copies in the order of
   region numbers. When the reference was assigned before, its old lifetime is copied
   over the name of the place it now points to.
5. `inclusion_tracker.rs:177`: a region is known as soon as any block translated
   before has a fact about it, on whatever path.
6. `terminator.rs:234`: loans that die before a terminator that is a switch or a jump
   get no ending there (`LentBack` excludes them).
7. `lib.rs:691`: a proof file that was created but not written is taken for a proof by
   later runs.
8. `base.rs:23`: names are flattened to one identifier, so that `util::wrap` and
   `util_wrap` share one template.
9. `translator.rs:1457`: when an enum's registration fails after its variants were
   registered, the variants stay, and its next use ends with a message about overriding.
10. `traits/registry.rs:891`: the comparison that leaves out the requirement on `Self`
    ("if they match, this is the Self assumption, so skip") also matches a requirement of
    a method on its own trait when the method is used at the same type, `T::m::<T>` for
    `fn m<V: Tr>()` in `trait Tr` (`OnlySelf`).
11. `traits/requirements.rs:53`: requirements are to be sorted "in a way that is stable across
    compilations", but `T: Tr` and `Vec<T>: Tr` each compare as less than the other
    (`Comparable`).
12. `types/scope.rs:202`: the order of iteration does matter when two requirements on one
    parameter declare an attribute of the same name.
13. `get_nontrivial` (`traits/requirements.rs:141`) does not end when two traits depend on each other (`Mutual`).
14. A bound of a method on a trait that a surrounding requirement depends on changes
    the order of the surrounding requirements (`Undisturbed`).
15. A chain of equalities leaves the literal of a constrained associated type
    (`Chained`; the code has a TODO).
16. Two `rr::args` attributes append their arguments; two existentials with one name are
    accepted; a closure that captures two fields of one variable mutably is rejected for a
    name that is taken.
17. `inclusion_tracker.rs:132`: behind a join the tracker keeps the inclusions of all
    predecessors, although they "are known to hold" (`:18`) on some of the paths only
    (`MeetAlike`). For `if c { q = x } else { q = &p }; y = &mut q; *y = x` it goes on
    believing that the lifetimes of `q` and `x` are related, and for `if c { q = &p } else
    { q = x }; y = &mut x; *y = q` the inclusion the last statement needs is omitted.

None of these makes a wrong program pass: Rocq checks what it is given. They make the
translation stop or loop, or a correct program fail to check.

## 6. Not modelled

- Time receipts, credits and pinned borrows: definitions in separation logic over ghost
  state, with proofs in Rocq. The steps they are about are those of `CaesiumLang`.
- Program logic, types, place types and ghost variables: logical relations, proved in
  Rocq. Lithium and the automation: proof search in Ltac without a state of its own.
- Counts of borrows that hold a lifetime open, and the resolution of values when a
  lifetime ends; hints for lifetimes only the user can bound; regions of casts and of
  closures' captured variables.
- What expressions, places and constants become (which of them are unsupported is
  modelled); parsers of terms; the attributes of structs, enums, traits and crates; Rocq text. They are structural translations of data, without control
  that depends on state.
- The definitely-allocated analysis, which the frontend does not call.
- Configuration, the cargo subcommand, the standard library's specifications, case studies,
  build scripts.

What would come next, in this order: the proofs of the properties that are only
model-checked, the annotations first; endings of lifetimes together with the counts of
borrows in `LifetimeContext`; what the tracker may still claim where arms that leave
different inclusions have met; lifetimes and const generics in `GenericScopes`; partial writes of
generated files in `OutputFiles`.
