------------------------------ MODULE LoanFacts -----------------------------
(* The borrow checker's facts about a body and what the frontend reads from  *)
(* them (environment/polonius_info.rs): the loans that are active, that die  *)
(* on the way from one location to the next, and that become zombies.        *)
(*                                                                           *)
(* A location is a block and an index; the terminator has the index after    *)
(* the last statement.  References live in local variables, each with one    *)
(* origin of the same name.  A statement or terminator reads the reference   *)
(* in `src` and defines `dst`:                                               *)
(*   borrow   dst = &mut *src, which issues `loan`                           *)
(*   move     dst = move src                                                 *)
(*   fresh    dst = a reference from elsewhere                               *)
(*   use      an access through src                                          *)
EXTENDS MirBody, FiniteSets

CONSTANTS Var,        \* the local variables that hold references
          ArgVar,     \* those among them that are arguments
          NoVar       \* in the place of a variable that there is not

ASSUME LoanFactsAssumption == IsFiniteSet(Var) /\ ArgVar \subseteq Var /\ NoVar \notin Var

TermIndex(body, b) == Len(body[b].stmts) + 1
Locations(body) == UNION {{<<b, i>> : i \in 1..TermIndex(body, b)} : b \in DOMAIN body}
IsTerminator(body, loc) == loc[2] = TermIndex(body, loc[1])
At(body, loc) == IF IsTerminator(body, loc) THEN body[loc[1]].term ELSE body[loc[1]].stmts[loc[2]]

(* PoloniusInfo::get_successors: all edges, unlike get_loc_predecessors of   *)
(* the translation, which goes over the real ones.                           *)
get_successors(body, loc) ==
  IF IsTerminator(body, loc) THEN {<<s, 1>> : s \in CfgSuccessors(body, loc[1])}
  ELSE {<<loc[1], loc[2] + 1>>}

is_return(body, loc) == IsTerminator(body, loc) /\ body[loc[1]].term.kind = "return"

(* What rustc hands over: borrows and moves are between references, every    *)
(* loan has one borrow, and of the terminators only calls and switches on    *)
(* discriminants define anything.                                            *)
IsNode(node) ==
  /\ {node.src, node.dst} \subseteq Var \cup {NoVar}
  /\ node.op \in {"borrow", "move"} => node.src \in Var /\ node.dst \in Var
  /\ node.op = "borrow" => node.loan \in Nat
IsStatement(stmt) == IsNode(stmt) /\ stmt.op # "end_lft" /\ (stmt.op \in {"spec", "nop"} => stmt.dst = NoVar)
IsEnd(term) ==
  IsNode(term) /\ term.op \notin {"borrow", "move"} /\ (term.kind \notin {"call", "discriminant"} => term.dst = NoVar)
IsReferenceBody(body) ==
  /\ \A loc \in Locations(body) : IF IsTerminator(body, loc) THEN IsEnd(At(body, loc)) ELSE IsStatement(At(body, loc))
  /\ \A k, loc \in {m \in Locations(body) : At(body, m).op = "borrow"} :
       At(body, k).loan = At(body, loc).loan => k = loc

Edges(body) == UNION {{<<loc, s>> : s \in get_successors(body, loc)} : loc \in Locations(body)}

---------------------------------------------------------------------------
(* Polonius, in its naive form, as the frontend calls it.  A relation is a   *)
(* set of pairs of a location and what holds there, at its start; nothing    *)
(* happens between the start and the mid point, so liveness is the same at   *)
(* both.  Each relation is the least that its rules do not add to.           *)
Saturated(within, grown, start) ==
  LET upwards[set \in SUBSET within] ==
        LET more == grown[set] IN IF more = set THEN set ELSE upwards[more]
  IN upwards[start]

OfLocation(rel, loc) == {r[2] : r \in {e \in rel : e[1] = loc}}
Tagged(loc, set) == {<<loc, e>> : e \in set}

Read(body) == {r \in {<<loc, At(body, loc).src>> : loc \in Locations(body)} : r[2] \in Var}
Liveness(body, edges) ==
  LET within == Locations(body) \X Var
      before(live) == {<<k[1][1], k[2]>> : k \in {j \in edges \X Var : /\ <<j[1][2], j[2]>> \in live
                                                                  /\ At(body, j[1][1]).dst # j[2]}}
  IN Saturated(within, [live \in SUBSET within |-> live \cup before(live)], Read(body))

(* The loans issued and the subsets of origins required at the mid point: a  *)
(* borrow through a reference needs that to outlive it, a move flows on.     *)
Issued(node) == IF node.op = "borrow" THEN {<<node.dst, node.loan>>} ELSE {}
SubsetBase(node) == IF node.op \in {"borrow", "move"} THEN {<<node.src, node.dst>>} ELSE {}
Loans(body) == {At(body, loc).loan : loc \in {k \in Locations(body) : At(body, k).op = "borrow"}}

(* An assignment to a variable kills the loans of what it pointed to.        *)
LoansOn(body, v) ==
  {At(body, loc).loan : loc \in {k \in Locations(body) : At(body, k).op = "borrow" /\ At(body, k).src = v}}
Killed(body, node) == IF node.dst = NoVar THEN {} ELSE LoansOn(body, node.dst)

(* What holds at the mid point of a location, from what holds at its start:  *)
(* the subsets of origins, the loans origins contain and the zombies in them.*)
Composed(sub) ==
  LET graph == [v \in Var |-> {w \in Var : <<v, w>> \in sub}]
  IN UNION {{v} \X Reach(graph, graph[v], Var) : v \in Var}
FlowedIn(loans, sub) == loans \cup UNION {{<<s[2], c[2]>> : c \in {d \in loans : d[1] = s[1]}} : s \in sub}
MidSubsets(body, sub, loc) == Composed(OfLocation(sub, loc) \cup SubsetBase(At(body, loc)))
MidLoans(body, sub, con, loc) ==
  FlowedIn(OfLocation(con, loc) \cup Issued(At(body, loc)), MidSubsets(body, sub, loc))
MidZombies(body, sub, zom, loc) == FlowedIn(OfLocation(zom, loc), MidSubsets(body, sub, loc))

(* ... and what an edge carries on to where origins are live: the loans      *)
(* killed at its source go on as zombies.                                    *)
Subsets(body, edges, live) ==
  LET within == Locations(body) \X (Var \X Var)
      carried(sub, e) == {s \in MidSubsets(body, sub, e[1]) : {s[1], s[2]} \subseteq OfLocation(live, e[2])}
  IN Saturated(within, [sub \in SUBSET within |-> sub \cup UNION {Tagged(e[2], carried(sub, e)) : e \in edges}], {})

Contained(body, edges, live, sub) ==
  LET within == Locations(body) \X (Var \X Loans(body))
      carried(con, e) ==
        {c \in MidLoans(body, sub, con, e[1]) :
           c[1] \in OfLocation(live, e[2]) /\ c[2] \notin Killed(body, At(body, e[1]))}
  IN Saturated(within, [con \in SUBSET within |-> con \cup UNION {Tagged(e[2], carried(con, e)) : e \in edges}], {})

Zombies(body, edges, live, sub, con) ==
  LET within == Locations(body) \X (Var \X Loans(body))
      killed(e) == {c \in MidLoans(body, sub, con, e[1]) : c[2] \in Killed(body, At(body, e[1]))}
      carried(zom, e) == {c \in killed(e) \cup MidZombies(body, sub, zom, e[1]) : c[1] \in OfLocation(live, e[2])}
  IN Saturated(within, [zom \in SUBSET within |-> zom \cup UNION {Tagged(e[2], carried(zom, e)) : e \in edges}], {})

(* PoloniusInfo::new and AdditionalFacts::new: loan_live_at and              *)
(* zombie_borrow_live_at at both points of a location and                    *)
(* borrow_become_zombie_at at its mid point.                                 *)
LiveLoans(loans, live) == {c[2] : c \in {d \in loans : d[1] \in live}}

BecomingZombie(mid, killed, after) == {c[2] : c \in {d \in mid : d[2] \in killed /\ d[1] \in after}}

WithZombies(body, live, sub, con, zom) ==
  [loan_start |-> [loc \in Locations(body) |-> LiveLoans(OfLocation(con, loc), OfLocation(live, loc))],
   loan_mid |-> [loc \in Locations(body) |-> LiveLoans(MidLoans(body, sub, con, loc), OfLocation(live, loc))],
   zombie_start |-> [loc \in Locations(body) |-> LiveLoans(OfLocation(zom, loc), OfLocation(live, loc))],
   zombie_mid |-> [loc \in Locations(body) |-> LiveLoans(MidZombies(body, sub, zom, loc), OfLocation(live, loc))],
   become_zombie |-> [loc \in Locations(body) |->
     BecomingZombie(MidLoans(body, sub, con, loc), Killed(body, At(body, loc)),
                    UNION {OfLocation(live, s) : s \in get_successors(body, loc)})]]
WithLoans(body, edges, live, sub, con) == WithZombies(body, live, sub, con, Zombies(body, edges, live, sub, con))
WithSubsets(body, edges, live, sub) == WithLoans(body, edges, live, sub, Contained(body, edges, live, sub))
WithLiveness(body, edges, live) == WithSubsets(body, edges, live, Subsets(body, edges, live))
WithEdges(body, edges) == WithLiveness(body, edges, Liveness(body, edges))
loan_facts(body) == WithEdges(body, Edges(body))

---------------------------------------------------------------------------
live_start(facts, loc, zombie) == IF zombie THEN facts.zombie_start[loc] ELSE facts.loan_start[loc]
live_mid(facts, loc, zombie) == IF zombie THEN facts.zombie_mid[loc] ELSE facts.loan_mid[loc]

(* The loans that are live at the mid point and, for they are live there     *)
(* only if their reference was live before, those issued there.              *)
get_active_loans(body, facts, loc, zombie) ==
  live_mid(facts, loc, zombie) \cup (IF zombie THEN {} ELSE {c[2] : c \in Issued(At(body, loc))})

get_loans_dying_at(body, facts, loc, zombie) ==
  {l \in get_active_loans(body, facts, loc, zombie) \ facts.become_zombie[loc] :
     /\ \A s \in get_successors(body, loc) : l \notin live_start(facts, s, zombie)
     /\ ~(get_successors(body, loc) = {} /\ is_return(body, loc))}

get_loans_dying_between(body, facts, initial_loc, final_loc, zombie) ==
  (get_active_loans(body, facts, initial_loc, zombie) \ live_start(facts, final_loc, zombie))
    \ facts.become_zombie[initial_loc]

(* The predecessors of a location along real edges, and what                 *)
(* translate_basic_block ends before a statement: loans and zombies that die *)
(* on the way from any of them.                                              *)
get_loc_predecessors(body, loc) ==
  IF loc[2] > 1 THEN {<<loc[1], loc[2] - 1>>}
  ELSE {<<p, TermIndex(body, p)>> : p \in predecessors(body, loc[1])}

\* Mutant: only loans that die on all the edges into a location.
mut_all_edges(body, facts, loc) ==
  {l \in UNION {get_loans_dying_between(body, facts, p, loc, zombie) :
                  p \in get_loc_predecessors(body, loc), zombie \in BOOLEAN} :
     \A p \in get_loc_predecessors(body, loc) : l \in get_loans_dying_between(body, facts, p, loc, FALSE)}

dying_loans(body, facts, loc) ==
  UNION {get_loans_dying_between(body, facts, p, loc, zombie) :
           p \in get_loc_predecessors(body, loc), zombie \in BOOLEAN}

(* The variables that on some path are not initialised or were moved away.   *)
Uninitialised(body, edges) ==
  LET within == Locations(body) \X Var
      at_start == {<<<<START_BLOCK, 1>>, v>> : v \in Var \ ArgVar}
      moved == {e \in edges : At(body, e[1]).op = "move"}
      after(rel) == {<<k[1][2], k[2]>> : k \in {j \in edges \X Var : <<j[1][1], j[2]>> \in rel
                                                                  /\ At(body, j[1][1]).dst # j[2]}}
  IN Saturated(within, [rel \in SUBSET within |-> rel \cup after(rel)],
               at_start \cup {<<e[2], At(body, e[1]).src>> : e \in moved})

(* The bodies rustc accepts: no access through a reference that is lent,     *)
(* none to one that is, on some path, not initialised or was moved away.     *)
Accesses(body) == {loc \in Locations(body) : At(body, loc).src # NoVar}
AccessesAllowed(body, facts) ==
  \A loc \in Accesses(body) : LoansOn(body, At(body, loc).src) \cap facts.loan_start[loc] = {}
Accepted(body, facts) ==
  /\ AccessesAllowed(body, facts)
  /\ \A loc \in Accesses(body) : <<loc, At(body, loc).src>> \notin Uninitialised(body, Edges(body))
=============================================================================
