--------------------------- MODULE BodyTranslation --------------------------
(* The translation of a function's body to Caesium (body/translation/mod.rs, *)
(* basicblock.rs, terminator.rs, loops.rs): blocks are translated from a     *)
(* stack as jumps to them are met, a loop gets the specification closure     *)
(* that is assigned in its body, and the endings of loans are emitted.       *)
(*                                                                           *)
(* Further statements: "spec" assigns the specification closure `did`,       *)
(* "storage_live" and "storage_dead" are about `local`, "assign" assigns a   *)
(* `value` that the loans do not depend on.  Terminators that call have the  *)
(* `callee`.                                                                 *)
EXTENDS ProcedureLoops, LoanFacts

CONSTANTS Bodies,          \* the bodies a behaviour may translate
          AlwaysLive,      \* the locals without storage statements
          MalformedSpecs,  \* the closures whose attributes do not parse
          Unknown          \* the functions that are not in the registry

ASSUME BodiesAssumption == \A b \in Bodies : IsMirBody(b) /\ Reducible(b)
ASSUME LocalsAssumption == IsFiniteSet(AlwaysLive)

VARIABLES body,           \* the MIR body
          info,           \* its loops
          facts,          \* its borrow checker facts
          bb_queue,       \* the blocks still to be translated, a stack
          processed_bbs,  \* those ever put there
          loop_specs,     \* from loop heads met to their closures or NoSpec
          code,           \* the translated blocks
          invariants,     \* from loop heads to the registered specifications
          status          \* of the translation

vars == <<body, info, facts, bb_queue, processed_bbs, loop_specs, code, invariants, status>>

NoSpec == -1
Running == {"new", "start", "blocks"}

---------------------------------------------------------------------------
(* What the translation of a statement does not support, and reports.        *)
(* Types are taken to be translatable, and locals to have a name.            *)

(* A place is read off its projections, in order; only coroutines have       *)
(* variants without being enums.                                             *)
place_errs(projections) ==
  ToSet(projections) \cap {"index", "constant_index", "subslice", "coroutine_downcast", "opaque_cast",
                          "unwrap_unsafe_binder"} # {}

(* A constant has a form, "ty", "val" or "unevaluated", what its value is    *)
(* known or evaluated to be, and the kind of its type.  Functions have to be *)
(* registered, and what a reference points to has to be a registered static. *)
fn_def_errs(c) == c.ty = "fn_def" /\ c.callee \in Unknown

scalar_int_errs(c) == c.ty \notin {"bool", "int", "uint", "unit", "fn_def"} \/ fn_def_errs(c)

scalar_errs(c) ==
  IF c.ty = "ref" THEN c.points_to # "static" ELSE c.ty # "char" /\ scalar_int_errs(c)

constant_value_errs(c) ==
  \/ c.value \notin {"scalar", "zero_sized"} \/ fn_def_errs(c)
  \/ c.value = "scalar" /\ scalar_errs(c)

constant_errs(c) ==
  IF c.form = "ty" THEN c.value # "leaf" \/ scalar_int_errs(c) ELSE constant_value_errs(c)

operand_errs(o) ==
  CASE o.kind \in {"copy", "move"} -> place_errs(o.projections)
    [] o.kind = "constant"         -> constant_errs(o.constant)
    [] OTHER                       -> TRUE

(* Values are told apart further by what they are an instance `of`.          *)
aggregate_errs(value) == value.of \notin {"tuple", "struct", "enum", "closure"}
cast_errs(value) ==
  value.of \notin {"mut_to_const_pointer", "int_to_int", "raw_ptr_to_raw_ptr", "pointer_expose_provenance"}
binop_errs(value) == value.of = "cmp"
unop_errs(value) == value.of = "ptr_metadata"
borrow_kind_errs(value) == value.of = "fake"

rvalue_errs(value) ==
  \/ value.kind \in {"copy_for_deref", "repeat", "wrap_unsafe_binder", "thread_local_ref"}
  \/ value.kind = "ref" /\ borrow_kind_errs(value)
  \/ value.kind = "binary_op" /\ binop_errs(value)
  \/ value.kind = "unary_op" /\ unop_errs(value)
  \/ value.kind = "discriminant" /\ value.of # "adt"
  \/ value.kind = "aggregate" /\ aggregate_errs(value)
  \/ value.kind = "cast" /\ cast_errs(value)
  \/ \E i \in DOMAIN value.operands : operand_errs(value.operands[i])

statement_errs(stmt) ==
  stmt.op \in {"copy_nonoverlapping", "set_discriminant"} \/ (stmt.op = "assign" /\ rvalue_errs(stmt.value))

---------------------------------------------------------------------------
(* What a block becomes: statements, and a last one with its jumps in the    *)
(* order in which the branches are translated.                               *)
EndLft(l) == [op |-> "end_lft", loan |-> l, src |-> NoVar, dst |-> NoVar]
Live(v) == [op |-> "local_live", local |-> v, src |-> NoVar, dst |-> NoVar]
Plain(o) == [op |-> o, src |-> NoVar, dst |-> NoVar]

generate_endlfts(loans) ==
  [i \in 1..Cardinality(loans) |-> EndLft(CHOOSE l \in loans : Cardinality({k \in loans : k > l}) = i - 1)]

(* Storage statements and assignments of specification closures' locals,     *)
(* which have no name in the code, are left out, like what has no effect.    *)
translate_statement(stmt) ==
  IF stmt.op \in {"spec", "nop"} THEN <<>> ELSE <<stmt>>

\* Mutant: loans end one statement too early.
mut_too_early(b) ==
  FlattenSeq([i \in 1..Len(body[b].stmts) |->
    generate_endlfts(dying_loans(body, facts, <<b, i + 1>>)) \o translate_statement(body[b].stmts[i])])

translate_statements(b) ==
  FlattenSeq([i \in 1..Len(body[b].stmts) |->
    generate_endlfts(dying_loans(body, facts, <<b, i>>)) \o translate_statement(body[b].stmts[i])])

(* Where the endings of the loans that die at a terminator go: nowhere for a *)
(* jump or a switch on integers, a panic, a discriminant or a call that does *)
(* not return.                                                               *)
EmitsEndings(term) ==
  \/ term.kind \in {"return", "if", "assert", "drop"}
  \/ term.kind = "call" /\ term.targets # <<>>

(* What a terminator does before it ends the loans.                          *)
effect_of(term) ==
  CASE term.kind \in {"call", "discriminant"} -> <<[op |-> "call", src |-> term.src, dst |-> term.dst]>>
    [] term.kind = "return" -> <<Plain("extend_lft")>>
    [] term.kind = "assert" -> <<Plain("assert")>>
    [] OTHER -> <<>>

(* `If` has its first target for false and its second for true, which is     *)
(* translated first.                                                         *)
jumps_of(term) ==
  IF term.kind = "if" THEN <<term.targets[2], term.targets[1]>>
  ELSE IF term.kind = "panic" THEN <<>>
  ELSE real_targets(term)

(* What is called has to be registered.  The arguments, what is switched on  *)
(* or asserted, and a place that is dropped are translated like any other.   *)
operands_err(term) == \E i \in DOMAIN term.operands : operand_errs(term.operands[i])

function_call_errs(term) == term.callee \in Unknown \/ operands_err(term)

terminator_errs(term) ==
  \/ term.kind \in {"tail_call", "resume", "terminate", "yield", "inline_asm", "coroutine_drop"}
  \/ term.kind = "call" /\ function_call_errs(term)
  \/ term.kind \in {"if", "switch", "assert", "discriminant", "drop"} /\ operands_err(term)

translate_terminator(b) ==
  LET term == body[b].term
      dying == get_loans_dying_at(body, facts, <<b, TermIndex(body, b)>>, FALSE)
  IN [prims |-> effect_of(term) \o (IF EmitsEndings(term) THEN generate_endlfts(dying) ELSE <<>>),
      stuck |-> term.kind \in {"panic", "unreachable"} \/ (term.kind = "call" /\ term.targets = <<>>),
      jumps |-> [i \in DOMAIN jumps_of(term) |->
                  [target |-> jumps_of(term)[i], stratify |-> is_loop_head(info, jumps_of(term)[i])]]]

BlockErrs(b) ==
  terminator_errs(body[b].term) \/ \E i \in DOMAIN body[b].stmts : statement_errs(body[b].stmts[i])

translate_basic_block(b) ==
  LET end == translate_terminator(b)
  IN [prims |-> translate_statements(b) \o end.prims, stuck |-> end.stuck, jumps |-> end.jumps]

---------------------------------------------------------------------------
(* The closure of a loop: of the blocks of its body, in order, that belong   *)
(* to no loop nested in it, the first that assigns one.                      *)
SpecsIn(b) == Kept(body[b].stmts, {stmt \in ToSet(body[b].stmts) : stmt.op = "spec"})

\* Mutant: closures in nested loops count for the outer loop, too.
mut_any_block(head) ==
  LET specs == FlattenSeq([i \in DOMAIN get_loop_body(info, head) |-> SpecsIn(get_loop_body(info, head)[i])])
  IN IF specs = <<>> THEN NoSpec ELSE specs[1].did

find_loop_spec_closure(head) ==
  LET own(b) == get_loop_head(info.bodies, b) = head
      specs == FlattenSeq([i \in DOMAIN get_loop_body(info, head) |->
                 IF own(get_loop_body(info, head)[i]) THEN SpecsIn(get_loop_body(info, head)[i]) ELSE <<>>])
  IN IF specs = <<>> THEN NoSpec ELSE specs[1].did

(* translate_goto_like for each of a block's jumps in turn.                  *)
Jumps(block) == [i \in DOMAIN block.jumps |-> block.jumps[i].target]
\* Mutant: a block that was translated already may be pushed again.
mut_not_queued(block) == {t \in ToSet(Jumps(block)) : t \notin ToSet(bb_queue)}

Fresh(block) == {t \in ToSet(Jumps(block)) : t \notin processed_bbs}

\* Mutant: only the first target of a terminator is pushed.
mut_first_jump(block) == IF block.jumps # <<>> /\ Jumps(block)[1] \in Fresh(block) THEN <<Jumps(block)[1]>> ELSE <<>>

(* Each block is pushed where its number is met first.                       *)
Pushed(block) ==
  LET first(i) == Jumps(block)[i] \in Fresh(block) /\ \A j \in 1..(i - 1) : Jumps(block)[j] # Jumps(block)[i]
      picked(i) == IF first(i) THEN <<Jumps(block)[i]>> ELSE <<>>
  IN FlattenSeq([i \in DOMAIN block.jumps |-> picked(i)])

NewHeads(block) == {h \in ToSet(Jumps(block)) : is_loop_head(info, h) /\ h \notin DOMAIN loop_specs}

AddBlock(b, block, rest) ==
  /\ code' = [c \in DOMAIN code \cup {b} |-> IF c = b THEN block ELSE code[c]]
  /\ bb_queue' = rest \o Pushed(block)
  /\ processed_bbs' = processed_bbs \cup Fresh(block)
  /\ loop_specs' = [h \in DOMAIN loop_specs \cup NewHeads(block) |->
                     IF h \in DOMAIN loop_specs THEN loop_specs[h] ELSE find_loop_spec_closure(h)]
  /\ status' = "blocks"
  /\ UNCHANGED <<body, info, facts, invariants>>

Fail ==
  /\ status' = "error"
  /\ UNCHANGED <<body, info, facts, bb_queue, processed_bbs, loop_specs, code, invariants>>

---------------------------------------------------------------------------
Init ==
  /\ body \in Bodies
  /\ info = <<>> /\ facts = <<>>
  /\ bb_queue = <<>> /\ processed_bbs = {} /\ loop_specs = <<>> /\ code = <<>> /\ invariants = <<>>
  /\ status = "new"

(* Procedure::new and PoloniusInfo::new: nothing is translated if the loops  *)
(* cannot be computed.                                                       *)
Prepare ==
  /\ status = "new"
  /\ info' = loop_info(body)
  /\ facts' = loan_facts(body)
  /\ status' = IF info'.panics = {} THEN "start" ELSE "panicked"
  /\ UNCHANGED <<body, bb_queue, processed_bbs, loop_specs, code, invariants>>

(* The start block, with the locals that are always live in front.           *)
TranslateStart ==
  /\ status = "start"
  /\ IF BlockErrs(START_BLOCK) THEN Fail
     ELSE LET block == translate_basic_block(START_BLOCK)
              live == [i \in DOMAIN SetToSeq(AlwaysLive) |-> Live(SetToSeq(AlwaysLive)[i])]
          IN AddBlock(START_BLOCK, [block EXCEPT !.prims = live \o @], bb_queue)

TranslateNext ==
  /\ status = "blocks" /\ bb_queue # <<>>
  /\ IF BlockErrs(Last(bb_queue)) THEN Fail
     ELSE AddBlock(Last(bb_queue), translate_basic_block(Last(bb_queue)), Front(bb_queue))

(* check_is_for_loop: a head with one successor that calls Iterator::next on *)
(* what is traced back through the borrows of its block.                     *)
find_origin_of_mut_bor(stmts, v) ==
  LET before(cur, i) == IF stmts[i].dst = cur THEN stmts[i].src ELSE cur
      back[i \in 0..Len(stmts)] == IF i = 0 THEN v ELSE before(back[i - 1], Len(stmts) + 1 - i)
  IN back[Len(stmts)]

(* ... and cannot go on from anything else that is assigned there.           *)
origin_unimplemented(stmts, v) ==
  \E i \in DOMAIN stmts :
    /\ stmts[i].op # "borrow"
    /\ stmts[i].dst \in Var
    /\ stmts[i].dst = find_origin_of_mut_bor(SubSeq(stmts, i + 1, Len(stmts)), v)

CallsNext(head) ==
  /\ Len(successors(body, head)) = 1
  /\ body[successors(body, head)[1]].term.kind = "call"
  /\ body[successors(body, head)[1]].term.callee = "next"
NextCall(head) == body[successors(body, head)[1]]
IteratorOf(head) ==
  IF CallsNext(head) THEN find_origin_of_mut_bor(NextCall(head).stmts, NextCall(head).term.src) ELSE NoVar

(* The specifications are parsed and registered when all blocks are there,   *)
(* in the order of the heads: the first that fails decides how it ends.      *)
SpecFails(h) == loop_specs[h] \in MalformedSpecs
SpecPanics(h) == CallsNext(h) /\ origin_unimplemented(NextCall(h).stmts, NextCall(h).term.src)
Bad == {h \in DOMAIN loop_specs : SpecFails(h) \/ SpecPanics(h)}

Finish ==
  /\ status = "blocks" /\ bb_queue = <<>>
  /\ IF Bad # {}
     THEN /\ status' = IF SpecPanics(Min(Bad)) THEN "panicked" ELSE "error"
          /\ UNCHANGED <<body, info, facts, bb_queue, processed_bbs, loop_specs, code, invariants>>
     ELSE /\ invariants' = [h \in DOMAIN loop_specs |-> [spec |-> loop_specs[h], iterator |-> IteratorOf(h)]]
          /\ status' = "done"
          /\ UNCHANGED <<body, info, facts, bb_queue, processed_bbs, loop_specs, code>>

Translate == TranslateStart \/ TranslateNext \/ Finish
Next == Prepare \/ Translate
Spec == Init /\ [][Next]_vars

---------------------------------------------------------------------------
(* The loop of a head as it is defined in the literature: the head, and what *)
(* reaches one of its back edges without passing through it.                 *)
BackSources(h) == {b \in DOMAIN body : h \in ToSet(successors(body, b)) /\ dominates(body, h, b)}
Upwards == [b \in DOMAIN body |-> predecessors(body, b)]
NaturalLoop(h) == {h} \cup Reach(Upwards, BackSources(h) \ {h}, DOMAIN body \ {h})
Heads == {h \in DOMAIN body : BackSources(h) # {}}

(* The loops are computed exactly (loops.rs:128): they are the natural ones; *)
(* and the assertions fail exactly if the head of a loop that is entered is   *)
(* the source of its own back edge, or a loop has a block that is entered by *)
(* virtual edges only.  Loops are disjoint or one is in the other, also when *)
(* they share exits or when their heads follow each other, and in the order  *)
(* of the blocks every edge but the back edges leads on (loops.rs:43, 169).  *)
JumpsToItself(h) == h \in BackSources(h) /\ ~(predecessors(body, h) \subseteq NaturalLoop(h))
EnteredReally(h) == NaturalLoop(h) \subseteq Reach(RealGraph(body), {h}, NaturalLoop(h))
Nested == \A h, k \in Heads : info.bodies[h] \cap info.bodies[k] \in {{}, info.bodies[h], info.bodies[k]}
Before(b, c) == \E i, j \in DOMAIN info.order : i < j /\ info.order[i] = b /\ info.order[j] = c
Ordered == \A b \in DOMAIN body : \A s \in ToSet(successors(body, b)) : b \in BackSources(s) \/ Before(b, s)
LoopsExact ==
  status \in {"start", "panicked"} =>
    /\ info.panics = {} => info.bodies = [h \in Heads |-> NaturalLoop(h)] /\ Nested /\ Ordered
    /\ info.panics = {} <=> \A h \in Heads : ~JumpsToItself(h) /\ EnteredReally(h)

(* When the translation is done the blocks in the code are those that real   *)
(* edges reach, and no jump in the code leads anywhere else (mod.rs:222,     *)
(* 442): unwinding and false edges bring in no block.                        *)
ReachedReally ==
  Reach([b \in DOMAIN body |-> ToSet(jumps_of(body[b].term))], {START_BLOCK}, DOMAIN body)
CodeComplete ==
  status = "done" =>
    /\ DOMAIN code = ReachedReally
    /\ \A b \in DOMAIN code : ToSet(Jumps(code[b])) \subseteq DOMAIN code

(* Each loop in the code has one invariant, and it is taken from a closure   *)
(* assigned in that loop and in none inside it, if there is one (loops.rs of *)
(* the translation:227): blocks shared by nested loops belong to the inner.  *)
OwnBlocks(h) == NaturalLoop(h) \ UNION {NaturalLoop(k) : k \in (Heads \cap NaturalLoop(h)) \ {h}}
SpecsOf(blocks) == UNION {{SpecsIn(b)[i].did : i \in DOMAIN SpecsIn(b)} : b \in blocks}
LoopsSpecified ==
  status = "done" =>
    /\ DOMAIN invariants = Heads \cap DOMAIN code
    /\ \A h \in DOMAIN invariants :
         IF SpecsOf(OwnBlocks(h)) = {} THEN invariants[h].spec = NoSpec
         ELSE invariants[h].spec \in SpecsOf(OwnBlocks(h))

(* A translation that has begun comes to an end, whatever the loops.         *)
Ends == status = "start" ~> status \notin Running
=============================================================================
