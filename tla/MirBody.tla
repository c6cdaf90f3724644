------------------------------ MODULE MirBody ------------------------------
(* The control flow graph of a MIR body and its non-virtual edges            *)
(* (environment/mir_utils/real_edges.rs).  A body is a function from the     *)
(* blocks 0..n-1 to records of a sequence of statements and a terminator; a  *)
(* terminator has a kind, the sequence of its ordinary targets and the set   *)
(* of its virtual ones: those of unwinding and of false edges.               *)
EXTENDS Integers, Sequences, FiniteSets, SequencesExt

START_BLOCK == 0

(* Kinds of terminators that have no target but virtual ones.                *)
EndKinds == {"return", "unreachable", "resume", "terminate", "tail_call", "coroutine_drop"}

(* Kinds that go on to one block: the first of their targets.                *)
StepKinds == {"goto", "assert", "drop", "false_edge", "false_unwind", "yield", "inline_asm"}

(* Kinds whose targets, as many as there are, are all real: a switch on      *)
(* integers or on a Boolean, a call that may not return.                     *)
ForkKinds == {"switch", "if", "call", "panic", "discriminant"}

real_targets(term) ==
  IF term.kind \in EndKinds THEN <<>>
  ELSE IF term.kind \in StepKinds THEN <<term.targets[1]>>
  ELSE term.targets

(* RealEdges::successors and predecessors.                                   *)
successors(body, b) == real_targets(body[b].term)
predecessors(body, b) == {p \in DOMAIN body : b \in ToSet(successors(body, p))}

(* All edges of the graph, as the borrow checker and the dominators see it.  *)
CfgSuccessors(body, b) == ToSet(body[b].term.targets) \cup body[b].term.virtual

RealGraph(body) == [b \in DOMAIN body |-> ToSet(successors(body, b))]
CfgGraph(body) == [b \in DOMAIN body |-> CfgSuccessors(body, b)]

(* The nodes that paths of a graph reach from a set without leaving `within`.*)
Reach(graph, from, within) ==
  LET grown(set) == set \cup ((UNION {graph[b] : b \in set}) \cap within)
      upto[n \in 0..Cardinality(within)] == IF n = 0 THEN from \cap within ELSE grown(upto[n - 1])
  IN upto[Cardinality(within)]

(* What rustc hands over: terminators have the targets of their kind, the    *)
(* start block has no predecessor and every block is reachable, by virtual   *)
(* edges at least.                                                           *)
IsTerm(term, blocks) ==
  /\ term.targets \in Seq(blocks) /\ term.virtual \subseteq blocks
  /\ term.kind \in EndKinds \cup StepKinds \cup ForkKinds
  /\ term.kind \in StepKinds => term.targets # <<>>
  /\ term.kind = "if" => Len(term.targets) = 2

IsMirBody(body) ==
  /\ IsFiniteSet(DOMAIN body) /\ DOMAIN body \subseteq Nat /\ START_BLOCK \in DOMAIN body
  /\ \A b \in DOMAIN body : /\ body[b].stmts \in Seq(ToSet(body[b].stmts))
                            /\ IsTerm(body[b].term, DOMAIN body)
  /\ \A b \in DOMAIN body : CfgSuccessors(body, b) \subseteq DOMAIN body \ {START_BLOCK}
  /\ Reach(CfgGraph(body), {START_BLOCK}, DOMAIN body) = DOMAIN body
=============================================================================
