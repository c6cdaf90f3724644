--------------------------- MODULE ProcedureLoops ---------------------------
(* The loops of a body (environment/loops.rs): back edges, loop bodies, the  *)
(* heads of the loops around a block and the order of blocks.                *)
EXTENDS MirBody, FiniteSets, FiniteSetsExt

(* Dominance is taken over all edges, the virtual ones included.             *)
dominates(body, a, b) ==
  b = a \/ b \notin Reach(CfgGraph(body), {START_BLOCK}, DOMAIN body \ {a})

(* Rust's control flow is structured: every cycle goes through its head.     *)
Reducible(b) ==
  LET forward == [c \in DOMAIN b |-> {s \in CfgSuccessors(b, c) : ~dominates(b, s, c)}]
  IN \A c \in DOMAIN b : c \notin Reach(forward, forward[c], DOMAIN b)

back_edges(body) ==
  {e \in (DOMAIN body) \X (DOMAIN body) :
     e[2] \in ToSet(successors(body, e[1])) /\ dominates(body, e[2], e[1])}

(* The walk from the source of a back edge towards the head: it does not go  *)
(* on from the head, except when it starts there.                            *)
collect_loop_body(body, head, source) ==
  LET up == [b \in DOMAIN body |-> IF b = head /\ b # source THEN {} ELSE predecessors(body, b)]
  IN Reach(up, {source}, DOMAIN body)

loop_heads(body) == {e[2] : e \in back_edges(body)}

\* Mutant: a loop with several back edges has the body of the last one.
mut_last_back_edge(body) ==
  [h \in loop_heads(body) |-> collect_loop_body(body, h, Max({e[1] : e \in {f \in back_edges(body) : f[2] = h}}))]

loop_bodies(body) ==
  [h \in loop_heads(body) |->
     UNION {collect_loop_body(body, h, e[1]) : e \in {f \in back_edges(body) : f[2] = h}}]

(* The functions below take the loop bodies that `new` computed first.       *)
enclosing_loop_heads_set(bodies, b) == {h \in DOMAIN bodies : b \in bodies[h]}
loop_head_depth(bodies, h) == Cardinality(enclosing_loop_heads_set(bodies, h))

(* sort_by_key is stable and starts from the order of the numbers, and       *)
(* get_loop_head takes the last: the deepest head, the greatest among equals.*)
get_loop_head(bodies, b) ==
  LET heads == enclosing_loop_heads_set(bodies, b)
      deepest == {h \in heads : \A k \in heads : loop_head_depth(bodies, k) <= loop_head_depth(bodies, h)}
  IN IF heads = {} THEN -1 ELSE Max(deepest)

get_loop_depth(bodies, b) ==
  IF enclosing_loop_heads_set(bodies, b) = {} THEN 0
  ELSE loop_head_depth(bodies, get_loop_head(bodies, b))

---------------------------------------------------------------------------
(* order_basic_blocks: depth-first search, the successors of less depth      *)
(* first, with its recursion as a stack of blocks and what is left to visit. *)
Kept(s, set) == FlattenSeq([i \in DOMAIN s |-> IF s[i] \in set THEN <<s[i]>> ELSE <<>>])

Groups(body, bodies, b) ==
  LET outer == {s \in DOMAIN body : get_loop_depth(bodies, s) < get_loop_depth(bodies, b)}
  IN Kept(successors(body, b), outer) \o Kept(successors(body, b), DOMAIN body \ outer)

SearchStart == [stack |-> <<>>, temporary |-> {}, sorted |-> <<>>, dag |-> TRUE]

Entered(body, bodies, s, stack, b) ==
  [s EXCEPT !.stack = Append(stack, [block |-> b, rest |-> Groups(body, bodies, b)]), !.temporary = @ \cup {b}]

Visited(body, bodies, back, s, outer, top) ==
  LET next == Head(top.rest)
      left == Append(outer, [top EXCEPT !.rest = Tail(@)])
  IN IF <<top.block, next>> \in back \/ next \in ToSet(s.sorted) THEN [s EXCEPT !.stack = left]
     ELSE IF next \in s.temporary THEN [s EXCEPT !.stack = left, !.dag = FALSE]
     ELSE Entered(body, bodies, s, left, next)

SearchStep(body, bodies, back, s) ==
  IF s.stack = <<>>
  THEN LET open == DOMAIN body \ ToSet(s.sorted)
       IN IF open = {} THEN s ELSE Entered(body, bodies, s, <<>>, Min(open))
  ELSE LET top == Last(s.stack)
       IN IF top.rest # <<>> THEN Visited(body, bodies, back, s, Front(s.stack), top)
          ELSE [s EXCEPT !.stack = Front(@), !.sorted = Append(@, top.block)]

(* What the search does, each once: to enter a block, to look at one of its  *)
(* successors, to leave it.                                                  *)
Visits(body, bodies) ==
  UNION {{b} \X (0..(Len(Groups(body, bodies, b)) + 1)) : b \in DOMAIN body}

Search(body, bodies, back) ==
  LET steps == Cardinality(Visits(body, bodies))
      after[n \in 0..steps] == IF n = 0 THEN SearchStart ELSE SearchStep(body, bodies, back, after[n - 1])
  IN after[steps]

ordered_loop_body(sorted, loop_body) == Kept(Reverse(sorted), loop_body)

---------------------------------------------------------------------------
(* ProcedureLoops::new.  `panics` collects the assertions that fail on the   *)
(* way: the index of a head that is in no body, the search that meets an     *)
(* open block, and, in builds with debug assertions, a body that does not    *)
(* start with its head or a block not bordering on those before it.          *)
BordersOn(body, back, order, i) ==
  \E j \in 1..(i - 1) : order[i] \in ToSet(successors(body, order[j])) /\ <<order[j], order[i]>> \notin back

NewLoops(body, bodies, back, search) ==
  LET ordered == [h \in DOMAIN bodies |-> ordered_loop_body(search.sorted, bodies[h])]
      failing == [head_outside |-> \E h \in DOMAIN bodies : enclosing_loop_heads_set(bodies, h) = {},
                  not_a_dag |-> ~search.dag,
                  head_not_first |-> \E h \in DOMAIN bodies : ordered[h][1] # h,
                  no_border |-> \E h \in DOMAIN bodies : \E i \in DOMAIN ordered[h] :
                                  ordered[h][i] # h /\ ~BordersOn(body, back, ordered[h], i)]
  IN [bodies |-> bodies, ordered |-> ordered, order |-> Reverse(search.sorted),
      panics |-> {p \in DOMAIN failing : failing[p]}]

LoopInfo(body, bodies, back) == NewLoops(body, bodies, back, Search(body, bodies, back))
loop_info(body) == LoopInfo(body, loop_bodies(body), back_edges(body))

is_loop_head(info, b) == b \in DOMAIN info.bodies
get_loop_body(info, h) == info.ordered[h]
=============================================================================
